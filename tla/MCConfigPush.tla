---------------------------- MODULE MCConfigPush ----------------------------
(* ConfigPush with five configurations of one device: one with a network that  *)
(* holds, two that ask for the same network that loses the controller, one     *)
(* without a network and one without a system_cfg; the cfgs pick which of them  *)
(* fail and which raise.                                                       *)
EXTENDS ConfigPush, TLC
CONSTANTS v1, v2, v3, v4, v5, first, held, stray

MCVersions == {v1, v2, v3, v4, v5}
MCNetOf == v1 :> held @@ v2 :> stray @@ v3 :> stray @@ v4 :> None @@ v5 :> None
=============================================================================
