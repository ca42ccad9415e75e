------------------------------ MODULE MCLogView ------------------------------
(* Three lines: an error, a warning and a continued line.                      *)
EXTENDS LogView

MCLevel == [l \in Lines |-> IF l = "w" THEN "warn" ELSE "err"]
MCLog == <<"e", "c", "w">>
=============================================================================
