---------------------------- MODULE TrialNetwork ----------------------------
(***************************************************************************)
(* What the safety net of NetModel promises, without its files, records,    *)
(* saves and restarts: a network is only left for another one as a trial,    *)
(* from a network over which the controller has answered, and a trial ends   *)
(* on such a network again (netmodel.lua, SAFETY).  The promise is void once *)
(* the device could not keep the record or the copy it stands on.            *)
(***************************************************************************)
CONSTANTS
  Networks,  \* the networks there are
  Initial    \* the one the controller knows the device on

VARIABLES
  net,    \* the network that runs
  trial,  \* a window is open
  known,  \* the networks over which the controller has answered
  void    \* the device lost the record or the copy of a trial

vars == <<net, trial, known, void>>

Init == net = Initial /\ trial = FALSE /\ known = {Initial} /\ void = FALSE

\* A change, on trial.
Try ==
  /\ net \in known
  /\ net' \in Networks /\ trial' = TRUE
  /\ UNCHANGED <<known, void>>

\* The controller answers; a heartbeat's answer ends a trial, an event's does
\* not.
Answer ==
  /\ known' = known \cup {net}
  /\ trial' \in {trial, FALSE}
  /\ UNCHANGED <<net, void>>

\* Back to a network known to work, or staying on one: a window that ran out,
\* or somebody restored the network the board came with.
Back ==
  /\ net' \in known
  /\ trial' \in {trial, FALSE}
  /\ UNCHANGED <<known, void>>

\* Nothing is promised from then on.
Lose ==
  /\ void' = TRUE
  /\ net' \in Networks /\ trial' \in BOOLEAN /\ known' \subseteq Networks

Next == Try \/ Answer \/ Back \/ Lose

Spec == Init /\ [][Next]_vars

\* A device cut off from its controller is not left there.
FairSpec == Spec /\ WF_vars(net \notin known /\ ~void /\ (Answer \/ Back))
=============================================================================
