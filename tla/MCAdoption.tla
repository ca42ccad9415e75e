----------------------------- MODULE MCAdoption -----------------------------
(* Adoption of one device that knows its controller by two URLs.  Here are the *)
(* steps at which the runs let the daemon go down and the commands run.        *)
EXTENDS Adoption

\* Any step ...
AllSteps == Steps
Always == Steps \cup {"off"}
\* ... those outside a factory reset ...
SettledSteps == {"starting", "idle", "informing", "handling"}
\* ... those at which no command is waiting to be noticed either ...
NotedSteps == {"starting", "informing", "handling"}
\* ... and between two heartbeats.
Between == {"idle"}
=============================================================================
