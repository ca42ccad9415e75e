----------------------------- MODULE MCNetModel -----------------------------
(* NetModel on one board: the cfgs name a plan that keeps the controller, a  *)
(* plan that loses it and an address that loses it; here are the sets of     *)
(* steps at which the runs let the daemon or the board go down.              *)
EXTENDS NetModel

\* Any step.
AllSteps == Steps

\* Steps at which state.json and the files agree.
QuietSteps == {"starting", "idle", "sending", "answered", "copied", "settling"}

\* ... and the one at which a confirmed window is not saved yet.
RecordedSteps == QuietSteps \cup {"confirming"}

\* Those steps, and the ones at which the new network is in place and its window only in
\* the daemon's memory.
UnsavedSteps == QuietSteps \cup {"committed", "reloaded"}

\* Once a record or a copy is lost the properties of NetModel_trial say nothing any
\* more: what follows need not be explored.
NotAmiss == ~amiss
=============================================================================
