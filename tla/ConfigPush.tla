----------------------------- MODULE ConfigPush -----------------------------
(***************************************************************************)
(* How a configuration push settles: which cfgversion the device reports,   *)
(* which one it claims to have applied, and how often the controller sends a *)
(* configuration that does not apply (inform.lua _settle_cfgversion, the     *)
(* setparam handler of provision.lua, _netmodel_check).                      *)
(*                                                                          *)
(* The controller sends its configuration while the device reports another   *)
(* cfgversion, and does not repeat an identical push for ten minutes.  The   *)
(* network part of a configuration is the network it asks for; NetModel has  *)
(* its files and crashes, here it is applied, rejected or rolled back.       *)
(***************************************************************************)
EXTENDS Naturals, Sequences

CONSTANTS
  Versions,     \* the configurations of the controller, by cfgversion
  None,         \* no cfgversion_effective, no window, no network asked for
  Blank,        \* the empty cfgversion
  First,        \* the network in place at adoption
  NetOf,        \* [Versions -> network the configuration asks for, or None]
  Addressing,   \* networks applied by apply_addressing, the rest by converge
  Stranding,    \* networks over which the controller is not reached
  MgmtOnly,     \* versions whose push carries no system_cfg
  Failing,      \* versions of which some step always reports an error
  Raising,      \* versions whose handler always raises half-way
  Retries,      \* cfg_retries
  StaEvents,    \* sta_events: event informs go out, whose answers may carry a push
  MaxCuts       \* bound on handlers cut short, lost pushes and reprovisions

Networks == ({First} \cup {NetOf[v] : v \in Versions}) \ {None}

ASSUME PushAssumption ==
  /\ None \notin Versions /\ Blank \notin Versions /\ Blank # None
  /\ First # None
  /\ NetOf \in [Versions -> Networks \cup {None}]
  /\ Addressing \subseteq Networks /\ Stranding \subseteq Networks \ {First}
  /\ MgmtOnly \subseteq Versions
  /\ Failing \subseteq Versions /\ Raising \subseteq Versions
  /\ Retries \in Nat /\ MaxCuts \in Nat /\ StaEvents \in BOOLEAN

VARIABLES
  want,       \* the controller's cfgversion for the device
  recent,     \* the version pushed in the last ten minutes, or None
  ver,        \* st.cfgversion
  eff,        \* st.cfgversion_effective
  retry,      \* st.cfg_retry
  net,        \* the network in place
  window,     \* st.netmodel_pending, or None
  failed,     \* st.netmodel_failed
  cuts,       \* handlers cut short, pushes lost, reprovisions asked for
  clean,      \* history: the pushes that applied clean, in their order
  gone,       \* history: the places of those whose network was rolled back
  opened,     \* history: how many there were when the open window opened
  settled,    \* history: the versions whose push ran to its end
  pushes,     \* history: pushes since this version was asked for, as far as
              \* PushesBounded counts them
  again       \* history: the cuts since then

controller == <<want, recent>>
device == <<ver, eff, retry, net, window, failed>>
log == <<clean, gone, opened>>
history == <<log, settled, pushes>>
vars == <<controller, device, cuts, history, again>>

NoRetry == [v |-> None, n |-> 0]

Init ==
  /\ want \in Versions /\ recent = None
  /\ ver = Blank /\ eff = None /\ retry = NoRetry
  /\ net = First /\ window = None /\ failed = None
  /\ cuts = 0 /\ clean = <<>> /\ gone = {} /\ opened = 0 /\ settled = {} /\ pushes = 0 /\ again = 0

Reached == net \notin Stranding
Pushing == Reached /\ ver # want /\ recent # want

(***************************************************************************)
(* The controller.                                                          *)
(***************************************************************************)
NewConfig ==
  \E v \in Versions :
    /\ v \notin settled \cup {want}
    /\ want' = v /\ pushes' = 0 /\ again' = 0
    /\ UNCHANGED <<recent, device, cuts, log, settled>>

TenMinutes ==
  /\ recent # None /\ recent' = None
  /\ UNCHANGED <<want, device, cuts, history, again>>

Cut == cuts < MaxCuts /\ cuts' = cuts + 1 /\ again' = again + 1

\* The answer that carried the push never arrived.
PushLost ==
  /\ Pushing /\ Cut /\ recent' = want
  /\ UNCHANGED <<want, device, history>>

(***************************************************************************)
(* The network part of a push: the network it leaves, the window it opens    *)
(* and whether it counts as applied.  w is the window open when it arrives.  *)
(***************************************************************************)
Unchanged(w) == [net |-> net, window |-> w, ok |-> TRUE]
Rejected(w) == [net |-> net, window |-> w, ok |-> FALSE]
Applied(n) ==
  [net |-> n, ok |-> TRUE,
   window |-> [back |-> net, before |-> IF n \in Addressing THEN None ELSE eff]]

\* A network other than the one in place, and not the one that failed.
Opens(v) == NetOf[v] \notin {None, failed, net}

NetworkPart(v, w) ==
  LET n == NetOf[v] IN
  CASE n = None               -> Unchanged(w)
    [] n # None /\ n = failed -> Rejected(w)
    [] n = net /\ n # failed  -> Unchanged(w)
    [] OTHER                  -> Applied(n)

\* _settle_cfgversion, at the end of a push of version v.
AttemptsForgotten(v) == 1   \* mutant
Attempts(v) == IF retry.v = v THEN retry.n + 1 ELSE 1
HeldBackOnceMore(v) == eff # None /\ ver # v /\ Attempts(v) <= Retries + 1   \* mutant
HeldBack(v) == eff # None /\ ver # v /\ Attempts(v) <= Retries

SettleClean(v) ==
  /\ ver' = v /\ eff' = v /\ retry' = NoRetry
  /\ clean' = Append(clean, v)

SettleFailed(v) ==
  /\ ver' = IF HeldBack(v) THEN ver ELSE v
  /\ retry' = [v |-> v, n |-> Attempts(v)]
  /\ UNCHANGED <<eff, clean>>

Settle(v, ok) ==
  /\ IF ok THEN SettleClean(v) ELSE SettleFailed(v)
  /\ settled' = settled \cup {v}
  /\ UNCHANGED <<cuts, again>>

\* The handler raises, or the daemon dies in it, after the network part.
CutShortReported(v) ==   \* mutant: the version is taken before the apply
  /\ \/ v \in Raising /\ UNCHANGED <<cuts, again>>
     \/ v \notin Raising /\ Cut
  /\ ver' = v
  /\ UNCHANGED <<eff, retry, clean, settled>>

CutShort(v) ==
  /\ \/ v \in Raising /\ UNCHANGED <<cuts, again>>
     \/ v \notin Raising /\ Cut
  /\ UNCHANGED <<ver, eff, retry, clean, settled>>

(***************************************************************************)
(* A push arrives.  On a heartbeat the answer has just confirmed an open     *)
(* window; the answer to a connection event has not.                         *)
(***************************************************************************)
Handle(v, w) ==
  \/ /\ v \in MgmtOnly
     /\ window' = w /\ ver' = v /\ settled' = settled \cup {v}
     /\ opened' = IF w = None THEN 0 ELSE opened
     /\ UNCHANGED <<net, eff, retry, failed, clean, cuts, again>>
  \/ /\ v \notin MgmtOnly
     /\ LET part == NetworkPart(v, w) IN
        /\ net' = part.net /\ window' = part.window
        /\ opened' = IF Opens(v) THEN Len(clean) ELSE IF w = None THEN 0 ELSE opened
        /\ \/ CutShort(v)
           \/ v \notin Raising /\ \E ok \in {part.ok /\ v \notin Failing, FALSE} : Settle(v, ok)
     /\ UNCHANGED failed

Push ==
  /\ Pushing
  /\ \E w \in IF StaEvents THEN {None, window} ELSE {None} : Handle(want, w)
  /\ recent' = want /\ UNCHANGED gone
  /\ pushes' = IF pushes <= Retries + 1 + MaxCuts THEN pushes + 1 ELSE pushes
  /\ UNCHANGED want

\* A heartbeat answered without a push confirms an open window.
Noop ==
  /\ Reached /\ ~Pushing
  /\ window' = None /\ opened' = 0
  /\ UNCHANGED <<controller, ver, eff, retry, net, failed, cuts, clean, gone, settled, pushes, again>>

(***************************************************************************)
(* An expired window: the network goes back, and with it the claim.          *)
(***************************************************************************)
\* The pushes since the window opened that asked for the network which is rolled back
\* did not apply after all.
RolledBack == {i \in DOMAIN clean : i > opened /\ NetOf[clean[i]] = net}

RollBackKeepsClaim ==   \* mutant
  /\ window # None
  /\ net' = window.back /\ failed' = net /\ window' = None /\ opened' = 0
  /\ gone' = gone \cup RolledBack
  /\ UNCHANGED <<controller, ver, eff, retry, cuts, clean, settled, pushes, again>>

RollBack ==
  /\ window # None
  /\ net' = window.back /\ failed' = net /\ window' = None /\ opened' = 0
  /\ eff' = window.before
  /\ gone' = gone \cup RolledBack
  /\ UNCHANGED <<controller, ver, retry, cuts, clean, settled, pushes, again>>

\* syswrapper.sh reprovision, or a setting changed before a start
\* (_reprovision_on_settings_change): the version is forgotten.
Reprovision ==
  /\ cuts < MaxCuts /\ cuts' = cuts + 1
  /\ ver' = Blank /\ pushes' = 0 /\ again' = 0
  /\ UNCHANGED <<controller, eff, retry, net, window, failed, log, settled>>

-----------------------------------------------------------------------------
Next == \/ NewConfig \/ TenMinutes \/ PushLost
        \/ Push \/ Noop \/ RollBack \/ Reprovision

\* Time passes, the device informs, and a window that is not confirmed expires.
Fairness ==
  /\ WF_vars(TenMinutes) /\ SF_vars(Push)
  /\ WF_vars(RollBack /\ ~Reached)
Spec == Init /\ [][Next]_vars
FairSpec == Spec /\ Fairness

(***************************************************************************)
(* Properties.                                                              *)
(***************************************************************************)
\* "cfgversion_effective always names the last push that applied clean"
\* (inform.lua), a push whose network was rolled back not being one of them.
EffectiveIsLastClean ==
  \/ eff = None /\ DOMAIN clean \subseteq gone
  \/ \E i \in DOMAIN clean \ gone : eff = clean[i] /\ (i + 1)..Len(clean) \subseteq gone

\* A version is reported only once its push has run to its end: one that
\* raised or crashed half-way is never taken for received.
ReportsOnlySettled == ver \in settled \cup {Blank}

\* A configuration reaches the device once, and once more for each of the
\* cfg_retries rounds and of the handlers that were cut short.
PushesBounded == pushes <= Retries + 1 + again

\* "so a config the device cannot apply stops cycling" (USAGE.md): the device
\* ends up reporting the version the controller wants.
StopsCycling == \A v \in Versions : want = v ~> ver = v \/ want # v
=============================================================================
