------------------------------ MODULE Adoption ------------------------------
(***************************************************************************)
(* Adoption, key rotation and factory reset: the adopted/authkey/inform_url  *)
(* fields of state.json, shared by the inform daemon and by syswrapper.sh,   *)
(* which the controller (set-adopt) or the owner runs over SSH.              *)
(*                                                                          *)
(* The daemon works on the table it loaded.  At the top of a heartbeat it    *)
(* reads the file again when its text is neither the one it saw last nor the *)
(* one it wrote last.  Whether an adopted device has SSIDs, VLANs and timers  *)
(* of its controller in place is `wlans`; whether the temporary SSH account   *)
(* is locked is `locked`.                                                    *)
(***************************************************************************)
EXTENDS Naturals, FiniteSets

CONSTANTS
  Keys,          \* the keys a controller may issue
  DefaultKey,    \* state.DEFAULT_KEY
  URLs,          \* inform URLs
  DefaultURL,    \* state.DEFAULT_INFORM_URL in the daemon: the configured inform_url
  BuiltinURL,    \* the same in syswrapper.sh, which reads no inform_url option
  Here,          \* the URLs at which the controller of this model listens
  None,          \* no text, no copy, no URL
  Ops,           \* syswrapper.sh commands that are run
  CommandAt,     \* steps of the daemon at which a command may run
  CrashAt,       \* steps at which the daemon may go down
  MaxCommands,   \* bound on commands
  MaxPushes,     \* bound on configurations pushed between two resets
  MaxRestarts,   \* bound on the times the daemon goes down
  Overlay,       \* TRUE: the overlay may be full, so that a save raises
  StaEvents,     \* sta_events: event informs go out between heartbeats
  L3             \* TRUE: the controller adopts over the inform channel, else by SSH

Steps == { "starting", "idle", "informing", "handling", "resetting", "forgetting" }
Commands == { "set-adopt", "set-inform", "reset-inform", "other" }

ASSUME AdoptionAssumption ==
  /\ DefaultKey \notin Keys
  /\ {DefaultURL, BuiltinURL} \subseteq URLs /\ Here \subseteq URLs
  /\ None \notin URLs
  /\ Ops \subseteq Commands
  /\ CommandAt \subseteq Steps \cup {"off"} /\ CrashAt \subseteq Steps
  /\ MaxCommands \in Nat /\ MaxPushes \in Nat /\ MaxRestarts \in Nat
  /\ Overlay \in BOOLEAN /\ StaEvents \in BOOLEAN /\ L3 \in BOOLEAN

VARIABLES
  disk,      \* the text of state.json
  mem,       \* the daemon's table
  seen,      \* ctx.last_mtime: the text looked at last
  written,   \* state.last_written: the text this process wrote last
  pc,        \* the daemon's step, or "off"
  keep,      \* the inform URL a factory reset is about to put back
  wlans,     \* the controller's configuration is in place
  locked,    \* the temporary SSH account is locked
  ctl,       \* the controller's record of the device
  used,      \* keys the controller has issued
  commands,  \* commands run
  restarts,  \* times the daemon went down
  wish,      \* history: the fields as the last command or answer left them
  home       \* history: the URL of the last Forget, until somebody changes it

daemon == <<mem, seen, written, pc, keep>>
device == <<wlans, locked>>
controller == <<ctl, used>>
bounds == <<commands, restarts>>
history == <<wish, home>>
vars == <<disk, daemon, device, controller, bounds, history>>

\* cfg is the cfgversion: how many configurations came since the last reset.
Fields == [adopted : BOOLEAN, key : Keys \cup {DefaultKey}, url : URLs,
           cfg : 0..MaxPushes]
Defaults == [adopted |-> FALSE, key |-> DefaultKey, url |-> DefaultURL, cfg |-> 0]

\* A saved text: its fields and the program that wrote them, which has an order
\* of its own.  A fresh install has an empty file.
Text(s, program) == [fields |-> s, by |-> program]
Texts == [fields : Fields, by : {"install", "daemon", "hook"}]

ASSUME NoTextAssumption == None \notin Texts

\* state.load: an unadopted device has the default key, whatever the file says.
Loaded(text) ==
  LET s == text.fields
  IN  IF s.adopted THEN s ELSE [s EXCEPT !.key = DefaultKey]

Adopted(s, k) == [s EXCEPT !.adopted = TRUE, !.key = k]

Init ==
  /\ disk = Text(Defaults, "install") /\ mem = Defaults
  /\ seen = disk /\ written = None
  /\ pc = "idle" /\ keep = None
  /\ wlans = FALSE /\ locked = FALSE
  /\ ctl = [phase |-> "unknown", key |-> DefaultKey] /\ used = {}
  /\ commands = 0 /\ restarts = 0
  /\ wish = Defaults /\ home = None

(***************************************************************************)
(* The daemon.                                                              *)
(***************************************************************************)
Save(s) == disk' = Text(s, "daemon") /\ written' = disk'

\* _reload_if_changed, at the top of a heartbeat.  A device that is no longer
\* adopted drops what its controller set up (_forget_controller).
UnnoticedUnlessAdopted == disk.fields.adopted = mem.adopted   \* mutant
Unnoticed == disk \in {seen, written}

NothingNew ==
  /\ pc = "idle" /\ pc' = "informing"
  /\ Unnoticed /\ seen' = disk
  /\ UNCHANGED <<disk, mem, written, keep, device, controller, bounds, history>>

\* Mutants: the account, or the controller's configuration, is left as it is.
ReloadLeavesAccount ==
  /\ pc = "idle" /\ pc' = "informing"
  /\ ~Unnoticed /\ seen' = disk
  /\ mem' = Loaded(disk)
  /\ wlans' = (wlans /\ ~(mem.adopted /\ ~mem'.adopted))
  /\ UNCHANGED <<disk, written, keep, locked, controller, bounds, history>>

ReloadLeavesWlans ==
  /\ pc = "idle" /\ pc' = "informing"
  /\ ~Unnoticed /\ seen' = disk
  /\ mem' = Loaded(disk) /\ locked' = mem'.adopted
  /\ UNCHANGED <<disk, written, keep, wlans, controller, bounds, history>>

ReloadIfChanged ==
  /\ pc = "idle" /\ pc' = "informing"
  /\ ~Unnoticed /\ seen' = disk
  /\ mem' = Loaded(disk)
  /\ locked' = mem'.adopted
  /\ wlans' = (wlans /\ ~(mem.adopted /\ ~mem'.adopted))
  /\ UNCHANGED <<disk, written, keep, controller, bounds, history>>

\* _send_sta_events: an inform between heartbeats, whose answer is handled like
\* any other, but which reads state.json no more.
EventInform ==
  /\ StaEvents /\ pc = "idle" /\ pc' = "informing"
  /\ mem.adopted
  /\ UNCHANGED <<disk, mem, seen, written, keep, device, controller, bounds, history>>

\* A save of the daemon's own between the reload and the answer (a rollback
\* window judged), or at a start (settings changed, a static address put back).
OwnSave ==
  /\ pc \in {"starting", "informing"} /\ Save(mem)
  /\ UNCHANGED <<mem, seen, pc, keep, device, controller, bounds, history>>

\* No answer, an error, or one with nothing in it.
NoAnswer ==
  /\ pc = "informing" /\ pc' = "idle"
  /\ UNCHANGED <<disk, mem, seen, written, keep, device, controller, bounds, history>>

\* A pending device is answered with 404.
Pending ==
  /\ pc = "informing" /\ pc' = "idle"
  /\ mem.url \in Here /\ ~mem.adopted /\ ctl.phase = "unknown"
  /\ ctl' = [ctl EXCEPT !.phase = "pending"]
  /\ UNCHANGED <<disk, mem, seen, written, keep, device, used, bounds, history>>

\* setparam with an authkey: adoption over the inform channel, or a rotation.
\* The controller issues its key to a device that informs under another one.
\* Every mgmt_cfg may name the URL to inform at from now on.
Told(s, u) == [s EXCEPT !.url = u]

TakeKeyOnce ==   \* mutant: a rotation is refused
  /\ pc = "informing" /\ pc' = "handling"
  /\ mem.url \in Here
  /\ ctl.phase = "adopted" \/ (ctl.phase = "adopting" /\ L3)
  /\ mem.key # ctl.key /\ ~mem.adopted
  /\ \E u \in Here :
       /\ mem' = Told(Adopted(mem, ctl.key), u)
       /\ wish' = Told(Adopted(wish, ctl.key), u)
       /\ home' = IF u = mem.url THEN home ELSE None
  /\ UNCHANGED <<disk, seen, written, keep, device, controller, bounds>>

TakeKey ==
  /\ pc = "informing" /\ pc' = "handling"
  /\ mem.url \in Here
  /\ ctl.phase = "adopted" \/ (ctl.phase = "adopting" /\ L3)
  /\ mem.key # ctl.key
  /\ ~mem.adopted \/ mem.key # DefaultKey
  /\ \E u \in Here :
       /\ mem' = Told(Adopted(mem, ctl.key), u)
       /\ wish' = Told(Adopted(wish, ctl.key), u)
       /\ home' = IF u = mem.url THEN home ELSE None
  /\ UNCHANGED <<disk, seen, written, keep, device, controller, bounds>>

\* setparam with a configuration, applied as far as it goes.
TakeConfig ==
  /\ pc = "informing" /\ pc' = "handling"
  /\ mem.url \in Here /\ mem.adopted
  /\ ctl.phase \in {"adopting", "adopted"} /\ mem.key = ctl.key
  /\ wlans' = TRUE
  /\ ctl' = [ctl EXCEPT !.phase = "adopted"]
  /\ mem.cfg < MaxPushes
  /\ \E u \in Here :
       /\ mem' = Told([mem EXCEPT !.cfg = @ + 1], u)
       /\ wish' = Told([wish EXCEPT !.cfg = mem'.cfg], u)
       /\ home' = IF u = mem.url THEN home ELSE None
  /\ UNCHANGED <<disk, seen, written, keep, locked, used, bounds>>

\* The save at the end of a setparam.
SaveHandledNever ==   \* mutant
  /\ pc = "handling" /\ pc' = "idle"
  /\ UNCHANGED <<disk, mem, seen, written, keep, device, controller, bounds, history>>

SaveHandled ==
  /\ pc = "handling" /\ pc' = "idle"
  /\ Save(mem)
  /\ UNCHANGED <<mem, seen, keep, device, controller, bounds, history>>

\* ... which a full overlay makes raise.
SaveRaises ==
  /\ Overlay /\ pc = "handling" /\ pc' = "idle"
  /\ UNCHANGED <<disk, mem, seen, written, keep, device, controller, bounds, history>>

\* setdefault (Forget): reset and save, put the URL back and save, then drop
\* what the controller set up.
ResetState ==
  /\ pc = "informing" /\ pc' = "resetting"
  /\ mem.url \in Here /\ mem.adopted
  /\ ctl.phase = "forgetting" /\ mem.key = ctl.key
  /\ ctl' = [phase |-> "unknown", key |-> DefaultKey]
  /\ Save(Defaults) /\ mem' = Defaults
  /\ keep' = mem.url /\ home' = mem.url
  /\ locked' = FALSE
  /\ wish' = [Defaults EXCEPT !.url = mem.url]
  /\ UNCHANGED <<seen, wlans, used, bounds>>

KeepURLOnDisk ==   \* mutant: the table keeps the default URL
  /\ pc = "resetting" /\ pc' = "forgetting"
  /\ Save([mem EXCEPT !.url = keep]) /\ keep' = None
  /\ UNCHANGED <<mem, seen, device, controller, bounds, history>>

KeepURL ==
  /\ pc = "resetting" /\ pc' = "forgetting"
  /\ mem' = [mem EXCEPT !.url = keep]
  /\ Save(mem') /\ keep' = None
  /\ UNCHANGED <<seen, device, controller, bounds, history>>

ForgetController ==
  /\ pc = "forgetting" /\ pc' = "idle"
  /\ wlans' = FALSE
  /\ UNCHANGED <<disk, mem, seen, written, keep, locked, controller, bounds, history>>

\* The daemon goes down: what it had not saved was never promised.
Crash ==
  /\ pc \in CrashAt /\ restarts < MaxRestarts
  /\ pc' = "off" /\ restarts' = restarts + 1
  /\ mem' = Defaults /\ seen' = None /\ written' = None /\ keep' = None
  /\ wish' = IF pc = "handling" THEN Loaded(disk) ELSE wish
  /\ UNCHANGED <<disk, device, controller, commands, home>>

\* run(): the state is loaded first ...
Start ==
  /\ pc = "off" /\ pc' = "starting"
  /\ mem' = Loaded(disk)
  /\ UNCHANGED <<disk, seen, written, keep, device, controller, bounds, history>>

\* ... and the file's text noted last.
Started ==
  /\ pc = "starting" /\ pc' = "idle"
  /\ seen' = disk
  /\ locked' = mem.adopted
  /\ UNCHANGED <<disk, mem, written, keep, wlans, controller, bounds, history>>

(***************************************************************************)
(* syswrapper.sh: load, modify, save, in a process of its own.               *)
(***************************************************************************)
Written(op, s, k, u) ==
  CASE op = "set-adopt"    -> [Adopted(s, k) EXCEPT !.url = u]
    [] op = "set-inform"   -> [s EXCEPT !.url = u]
    [] op = "reset-inform" -> [Defaults EXCEPT !.url = BuiltinURL]
    [] OTHER               -> s

Command(op, k, u) ==
  /\ pc \in CommandAt /\ commands < MaxCommands /\ commands' = commands + 1
  /\ disk' = Text(Written(op, Loaded(disk), k, u), "hook")
  /\ wish' = Written(op, wish, k, u)
  /\ home' = IF op = "other" THEN home ELSE None
  /\ UNCHANGED <<daemon, device, controller, restarts>>

\* The controller's own command, over SSH, with its key and its URL.
SetAdopt ==
  /\ ~L3 /\ "set-adopt" \in Ops /\ ctl.phase = "adopting"
  /\ \E u \in Here : Command("set-adopt", ctl.key, u)

SetInform == "set-inform" \in Ops /\ \E u \in URLs : Command("set-inform", mem.key, u)
ResetInform == "reset-inform" \in Ops /\ Command("reset-inform", mem.key, mem.url)
OtherCommand == "other" \in Ops /\ Command("other", mem.key, mem.url)

(***************************************************************************)
(* The controller, from how the daemon and its comments describe it.         *)
(***************************************************************************)
Issue(k, phase) ==
  /\ k \in Keys \ used /\ used' = used \cup {k}
  /\ ctl' = [phase |-> phase, key |-> k]
  /\ UNCHANGED <<disk, daemon, device, bounds, history>>

Adopt == ctl.phase = "pending" /\ \E k \in Keys : Issue(k, "adopting")
Rotate == ctl.phase = "adopted" /\ \E k \in Keys : Issue(k, "adopted")

Forget ==
  /\ ctl.phase = "adopted" /\ ctl' = [ctl EXCEPT !.phase = "forgetting"]
  /\ UNCHANGED <<disk, daemon, device, used, bounds, history>>

-----------------------------------------------------------------------------
Loop == \/ NothingNew \/ ReloadIfChanged \/ NoAnswer \/ Pending
        \/ TakeKey \/ TakeConfig \/ SaveHandled \/ SaveRaises
        \/ ResetState \/ KeepURL \/ ForgetController
        \/ Start \/ Started
External == SetAdopt \/ SetInform \/ ResetInform \/ OtherCommand

Next == Loop \/ EventInform \/ OwnSave \/ Crash \/ External \/ Adopt \/ Rotate \/ Forget

\* One loop, restarted by procd; event informs do not hold up the heartbeats, and
\* an inform is not lost every single time.
Fairness ==
  /\ WF_vars(Loop) /\ WF_vars(Started)
  /\ SF_vars(NothingNew \/ ReloadIfChanged) /\ SF_vars(TakeKey)

Spec == Init /\ [][Next]_vars
FairSpec == Spec /\ Fairness

(***************************************************************************)
(* Properties.                                                              *)
(***************************************************************************)
\* A heartbeat starts from the key and the URL that the last command or answer
\* set, whichever process handled it and whoever restarted since (inform.lua
\* _reload_if_changed).
InformsAsCommanded == [][NothingNew \/ ReloadIfChanged => mem' = wish]_vars

\* A device that is not adopted has nothing of a controller in place: "A reset,
\* or the controller's Forget, also removes what the controller set up"
\* (USAGE.md).
ForgottenIsBare == pc = "informing" /\ ~mem.adopted => ~wlans

\* "Once the device is adopted, inform.lua locks the account", and unlocks it
\* after a factory reset (USAGE.md).
LockedWhileAdopted == pc = "informing" => locked = mem.adopted

\* "A forgotten device keeps informing the same controller" (USAGE.md), over a
\* crash as well.
ForgottenStays == pc \notin {"resetting", "off"} /\ home # None => mem.url = home

\* The key the controller issued last ends up on the device, over lost answers,
\* failed saves, crashes and commands -- unless the controller issues another,
\* forgets the device, or the device is pointed elsewhere.
KeyArrives ==
  \A k \in Keys :
    (ctl.key = k /\ ctl.phase \in {"adopting", "adopted"})
      ~> (mem = Adopted(mem, k) \/ ctl.key # k \/ ctl.phase = "forgetting"
          \/ mem.url \notin Here)
=============================================================================
