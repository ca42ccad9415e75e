------------------------------- MODULE Roaming -------------------------------
(***************************************************************************)
(* The roam reports of one access point: unifi/staevents.lua (roam_ingest,   *)
(* roam_observe, roamed_away), fed by the collector openwrt/staphase.uc and   *)
(* by the heartbeats of inform.lua.                                          *)
(*                                                                          *)
(* Clients come to a BSS of this AP, move between its BSSes, tell it that     *)
(* they leave or just turn up behind another AP.  The collector logs what     *)
(* hostapd announces and what the bridge learns; the daemon reads the log      *)
(* between heartbeats and at each of them, after it has compared what it        *)
(* knows with a station list that is older than the log.                       *)
(***************************************************************************)
EXTENDS Integers, Sequences, SequencesExt, FiniteSets

CONSTANTS
  Clients,
  Bss,          \* this AP's BSSes
  None,         \* no BSS: the client is elsewhere, or not known here
  Ring,         \* MAX_ROAM: hostapd lines the collector's log keeps
  MaxArrivals,  \* bound on associations
  MaxRekeys,    \* bound on renewed handshakes
  MaxRestarts   \* bound on restarts of the daemon

ASSUME RoamingAssumption ==
  /\ None \notin Bss /\ IsFiniteSet(Bss)
  /\ Ring \in Nat \ {0}
  /\ MaxArrivals \in Nat /\ MaxRekeys \in Nat /\ MaxRestarts \in Nat

VARIABLES
  at,        \* where each client really is: a BSS of this AP, or None
  station,   \* hostapd's list: [client -> [BSS -> "no", "assoc" or "ready"]]
  moving,    \* clients the bridge is about to learn on its uplink
  kept,      \* the lines of the collector's log that the daemon has read (_roam_seq)
  log,       \* those it has not, of both its logs, merged by their stamps
  pc,        \* "wait", between heartbeats, or "built", inside one
  here,      \* staevents._here
  roamed,    \* staevents._roamed
  obs,       \* _last_here_obs: the BSS of each listed client, and whether it
             \* was heard since its address moved
  arrivals, rekeys, restarts,
  came, went, told,  \* history: authorized arrivals, departures from this AP,
                     \* those of them that the client announced
  joined, departed,  \* history: arrivals and departures reported
  amiss      \* history: a line was lost, read twice, or still unread when a
             \* heartbeat listed the stations

air == <<at, station, moving>>
daemon == <<pc, here, roamed, obs>>
bounds == <<arrivals, rekeys, restarts>>
truth == <<came, went, told>>
reports == <<joined, departed>>
vars == <<air, kept, log, daemon, bounds, truth, reports, amiss>>

Unknown == [bss |-> None, fresh |-> FALSE]
Nobody == [c \in Clients |-> [bss |-> None, heard |-> FALSE]]
Zero == [c \in Clients |-> 0]
More(f, c) == [f EXCEPT ![c] = @ + 1]

Init ==
  /\ at = [c \in Clients |-> None]
  /\ station = [c \in Clients |-> [b \in Bss |-> "no"]]
  /\ moving = {} /\ kept = <<>> /\ log = <<>>
  /\ pc = "wait" /\ here = [c \in Clients |-> Unknown] /\ roamed = {} /\ obs = Nobody
  /\ arrivals = 0 /\ rekeys = 0 /\ restarts = 0
  /\ came = Zero /\ went = Zero /\ told = Zero
  /\ joined = Zero /\ departed = Zero
  /\ amiss = FALSE

(***************************************************************************)
(* The collector's log.  The hostapd lines stay, read or not, until newer     *)
(* ones push them out; the lines of the bridge are taken out by the reader.   *)
(***************************************************************************)
Line(ev, c, b) == [ev |-> ev, mac |-> c, bss |-> b]
FromHostapd(line) == line.ev # "fdb"
Announced(lines) == {i \in DOMAIN lines : FromHostapd(lines[i])}

\* The lines but for those at some places.
Without(lines, I) ==
  LET kp[i \in 0..Len(lines)] ==
        IF i = 0 THEN <<>>
        ELSE IF i \in I THEN kp[i - 1] ELSE Append(kp[i - 1], lines[i])
  IN  kp[Len(lines)]

LastOf(lines, n) ==
  IF n >= Len(lines) THEN lines ELSE SubSeq(lines, Len(lines) - n + 1, Len(lines))

\* Lines that as many newer ones as the ring takes have pushed out.
PushedOut(lines) ==
  {i \in Announced(lines) : Cardinality({j \in Announced(lines) : j > i}) >= Ring}

Announce(lines) ==
  LET all == log \o lines IN
  /\ kept' = LastOf(kept, Ring - Cardinality(Announced(all)))
  /\ log' = Without(all, PushedOut(all))
  /\ amiss' = (amiss \/ PushedOut(all) # {})

(***************************************************************************)
(* Clients, hostapd and the bridge.                                         *)
(***************************************************************************)
OneMore(f, c) ==
  IF at[c] # None /\ station[c][at[c]] = "ready" THEN More(f, c) ELSE f

Listed(c) == {b \in Bss : station[c][b] # "no"}

\* A client associates, coming from elsewhere or from another BSS; hostapd drops
\* it from the others.
Associate(c, b) ==
  /\ arrivals < MaxArrivals /\ arrivals' = arrivals + 1
  /\ at[c] # b /\ at' = [at EXCEPT ![c] = b]
  /\ LET old == Listed(c) \ {b} IN
     /\ station' = [station EXCEPT ![c] = [x \in Bss |->
                      IF x = b THEN "assoc" ELSE IF x \in old THEN "no" ELSE @[x]]]
     /\ Announce(<<Line("assoc", c, b)>>
                   \o SetToSeq({Line("disassoc", c, x) : x \in old}))
  /\ UNCHANGED <<moving, daemon, rekeys, restarts, truth, reports>>

\* The line of a move to another AP is written within 10 ms, before the client
\* can be through a handshake here again.
Authorize(c) ==
  /\ c \notin moving
  /\ at[c] # None /\ station[c][at[c]] = "assoc"
  /\ station' = [station EXCEPT ![c][at[c]] = "ready"]
  /\ Announce(<<Line("sta-authorized", c, at[c])>>)
  /\ came' = More(came, c)
  /\ UNCHANGED <<at, moving, daemon, bounds, went, told, reports>>

Rekey(c) ==
  /\ rekeys < MaxRekeys /\ rekeys' = rekeys + 1
  /\ at[c] # None /\ station[c][at[c]] = "ready"
  /\ Announce(<<Line("sta-authorized", c, at[c])>>)
  /\ UNCHANGED <<air, daemon, arrivals, restarts, truth, reports>>

\* A client says that it leaves, is kicked, or fails its handshake.
Depart(c) ==
  /\ at[c] # None
  /\ went' = OneMore(went, c) /\ told' = OneMore(told, c)
  /\ at' = [at EXCEPT ![c] = None]
  /\ station' = [station EXCEPT ![c][at[c]] = "no"]
  /\ Announce(<<Line("disassoc", c, at[c])>>)
  /\ UNCHANGED <<moving, daemon, bounds, came, reports>>

\* A client just leaves, for another AP or for good; hostapd goes on listing it.
Vanish(c) ==
  /\ at[c] # None
  /\ went' = OneMore(went, c)
  /\ at' = [at EXCEPT ![c] = None]
  /\ moving' \in {moving, moving \cup {c}}
  /\ UNCHANGED <<station, kept, log, daemon, bounds, came, told, reports, amiss>>

\* hostapd drops a client that is not there any more.
Drop(c, b) ==
  /\ at[c] # b /\ station[c][b] # "no"
  /\ station' = [station EXCEPT ![c][b] = "no"]
  /\ Announce(<<Line("disassoc", c, b)>>)
  /\ UNCHANGED <<at, moving, daemon, bounds, truth, reports>>

\* The bridge learns the client on its uplink.
LearnUplink(c) ==
  /\ c \in moving /\ moving' = moving \ {c}
  /\ log' = Append(log, Line("fdb", c, None))
  /\ UNCHANGED <<at, station, kept, daemon, bounds, truth, reports, amiss>>

(***************************************************************************)
(* roam_ingest, one event at a time, on what the daemon knows and reports.   *)
(***************************************************************************)
Known == [here |-> here, roamed |-> roamed, joined |-> joined, departed |-> departed]

OnAssoc(s, e) ==
  [s EXCEPT !.here[e.mac] = [bss |-> e.bss, fresh |-> TRUE], !.roamed = @ \ {e.mac}]

OnAuthorized(s, e) ==
  IF s.here[e.mac] # [bss |-> e.bss, fresh |-> TRUE] THEN s
  ELSE [s EXCEPT !.here[e.mac].fresh = FALSE, !.joined = More(@, e.mac)]

OnDisassocQuietly(s, e) ==   \* mutant: forgets the client without a report
  LET t == [s EXCEPT !.roamed = @ \ {e.mac}]
  IN  IF s.here[e.mac].bss # e.bss THEN t ELSE [t EXCEPT !.here[e.mac] = Unknown]

OnDisassoc(s, e) ==
  LET h == s.here[e.mac]
      t == [s EXCEPT !.roamed = @ \ {e.mac}]
  IN  CASE h.bss # e.bss -> t
        [] h.bss = e.bss /\ h.fresh -> [t EXCEPT !.here[e.mac] = Unknown]
        [] OTHER -> [t EXCEPT !.here[e.mac] = Unknown, !.departed = More(@, e.mac)]

OnUplinkKept(s, e) ==   \* mutant: the client stays known here
  IF s.here[e.mac].bss = None \/ s.here[e.mac].fresh THEN s
  ELSE [s EXCEPT !.roamed = @ \cup {e.mac}, !.departed = More(@, e.mac)]

OnUplink(s, e) ==
  IF s.here[e.mac].bss = None \/ s.here[e.mac].fresh THEN s
  ELSE [s EXCEPT !.here[e.mac] = Unknown, !.roamed = @ \cup {e.mac},
                 !.departed = More(@, e.mac)]

Ingest(s, e) ==
  CASE e.ev = "assoc"          -> OnAssoc(s, e)
    [] e.ev = "sta-authorized" -> OnAuthorized(s, e)
    [] e.ev = "disassoc"       -> OnDisassoc(s, e)
    [] e.ev = "fdb"            -> OnUplink(s, e)

\* _roam_poll: everything new in the two logs.  The collector writes a line
\* within a millisecond of the event, before a payload that lists the stations
\* without it is complete.
Ingested(s, lines) ==
  LET after[i \in 0..Len(lines)] ==
        IF i = 0 THEN s ELSE Ingest(after[i - 1], lines[i])
  IN  after[Len(lines)]

Poll(s) ==
  LET after == Ingested(s, log) IN
  /\ here' = after.here /\ roamed' = after.roamed
  /\ joined' = after.joined /\ departed' = after.departed
  /\ kept' = kept \o Without(log, DOMAIN log \ Announced(log))
  /\ log' = <<>>

IdlePoll ==
  /\ pc = "wait" /\ Poll(Known)
  /\ UNCHANGED <<air, pc, obs, bounds, truth, amiss>>

(***************************************************************************)
(* The heartbeat: the payload reads the stations, and lifts the mark of a     *)
(* client that was heard since (roamed_away); roam_observe and a poll follow.  *)
(***************************************************************************)
\* What a dump may say of a client: a BSS that lists it, and whether a frame
\* of it came in since its address moved.
Sightings(c) ==
  IF Listed(c) = {} THEN {Nobody[c]}
  ELSE {s \in [bss : Listed(c), heard : BOOLEAN] : s.heard => at[c] = s.bss}

\* roamed_away: still behind another AP, not heard from here since it moved.
StillAwayForGood(list) == roamed   \* mutant: the mark is never lifted
StillAway(list) == {c \in roamed : ~list[c].heard}

Dump(list) ==
  /\ pc = "wait" /\ pc' = "built"
  /\ obs' = list
  /\ roamed' = StillAway(list)
  /\ amiss' = (amiss \/ log # <<>>)
  /\ UNCHANGED <<air, kept, log, here, bounds, truth, reports>>

Build == \E list \in [Clients -> UNION {Sightings(c) : c \in Clients}] :
           (\A c \in Clients : list[c] \in Sightings(c)) /\ Dump(list)

\* roam_observe: a listed client is here unless it roamed away; one that is
\* not listed is forgotten.
ObservedKeeps(c) ==   \* mutant: one that is not listed is kept
  CASE obs[c].bss = None -> here[c]
    [] obs[c].bss # None /\ c \in StillAway(obs) -> Unknown
    [] OTHER -> [here[c] EXCEPT !.bss = obs[c].bss]

Observed(c) ==
  IF obs[c].bss = None \/ c \in StillAway(obs) THEN Unknown
  ELSE [here[c] EXCEPT !.bss = obs[c].bss]

Away == {c \in StillAway(obs) : obs[c].bss # None}

Compared ==
  [here |-> [c \in Clients |-> Observed(c)], roamed |-> Away,
   joined |-> joined, departed |-> departed]

Observe ==
  /\ pc = "built" /\ pc' = "wait"
  /\ Poll(Compared)
  /\ obs' = Nobody
  /\ UNCHANGED <<air, bounds, truth, amiss>>

\* A restart of the daemon: what it knew is gone, and it reads the log whole.
Restart ==
  /\ restarts < MaxRestarts /\ restarts' = restarts + 1
  /\ pc' = "wait" /\ obs' = Nobody
  /\ here' = [c \in Clients |-> Unknown] /\ roamed' = {}
  /\ log' = kept \o log /\ kept' = <<>>
  /\ amiss' = TRUE
  /\ UNCHANGED <<air, arrivals, rekeys, truth, reports>>

-----------------------------------------------------------------------------
Client == \E c \in Clients :
            \/ \E b \in Bss : Associate(c, b)
            \/ Authorize(c) \/ Rekey(c) \/ Depart(c) \/ Vanish(c)
Kernel == \E c \in Clients : (\E b \in Bss : Drop(c, b)) \/ LearnUplink(c)

Next == Client \/ Kernel \/ IdlePoll \/ Build \/ Observe \/ Restart

\* Heartbeats go on, and again and again one of them lists who is here as heard
\* from, when hostapd has dropped who is gone and the bridge's lines are written.
Fairness ==
  /\ []<>(pc = "wait")
  /\ []<>(pc = "built" /\ \A c \in Clients : at[c] # None => obs[c].heard)
  /\ []<>(moving = {} /\ \A c \in Clients : Listed(c) \subseteq {at[c]})

Spec == Init /\ [][Next]_vars
FairSpec == Spec /\ Fairness

(***************************************************************************)
(* Properties.                                                              *)
(***************************************************************************)
\* No departure is reported that did not happen, and none twice: not by
\* hostapd's late drop after a sta_roam, nor by a heartbeat whose list is older
\* than the log (staevents.lua, roam_ingest).  What was lost, read again after a
\* restart or left unread when the stations were listed is beyond it.
\* Nor is an arrival: "a failed handshake is no arrival", a renewed one none either
\* (staevents.lua).
ReportsHappened ==
  ~amiss => \A c \in Clients : departed[c] <= went[c] /\ joined[c] <= came[c]

\* A departure that the client announces is reported, once the log is read.
Settled(c) ==
  pc = "wait" /\ \A i \in DOMAIN log : log[i].mac # c

AnnouncedReported ==
  ~amiss => \A c \in Clients : Settled(c) => departed[c] >= told[c]

\* A client marked as roamed away is not known here at the same time.
AwayIsNotHere == \A c \in roamed : here[c].bss = None

\* A client that stays on a BSS is known there in the end, also after its
\* lines were lost, or told in an order that made it look gone.
StayerIsKnown ==
  \A c \in Clients, b \in Bss :
    (at[c] = b /\ station[c][b] = "ready") ~> (here[c].bss = b \/ at[c] # b)

\* A client that is gone is forgotten in the end, whatever lines were lost.
GoneIsForgotten ==
  \A c \in Clients : at[c] = None ~> (here[c].bss = None \/ at[c] # None)
=============================================================================
