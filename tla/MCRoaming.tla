------------------------------ MODULE MCRoaming ------------------------------
(* Roaming on an access point with two BSSes, one per band: the values of the *)
(* configurations are model values.  Two clients share nothing but the ring,   *)
(* which one client fills on its own.                                        *)
EXTENDS Roaming
=============================================================================
