---------------------------- MODULE MCSwitchVlan ----------------------------
(* Two switch ports and two VLAN IDs.                                        *)
EXTENDS SwitchVlan

Net(ps) == [k \in DOMAIN ps |-> [vid |-> k, local |-> TRUE,
             ports |-> [p \in Ports |-> ps[k][IF p = "lan1" THEN 1 ELSE 2]]]]

\* One VLAN and an orphan label; two VLANs, with a port that is native in one and
\* tagged in the other and an entry spelled out; two configurations the page
\* refuses.
MCStored ==
  { [net |-> Net(<< <<"", "">> >>), luci |-> {2}],
    [net |-> Net(<< <<"u*", "">>, <<"t", "-">> >>), luci |-> {1}],
    [net |-> Net(<< <<"t*", "">> >>), luci |-> {}],
    [net |-> Net(<< <<"", "">>, <<"", "t">> >>), luci |-> {}] }

\* An ID out of range, and VLAN 2 with and without a label.
MCTyped ==
  { [vid |-> 0, local |-> TRUE, label |-> FALSE],
    [vid |-> 2, local |-> FALSE, label |-> FALSE],
    [vid |-> 2, local |-> TRUE, label |-> TRUE] }
=============================================================================
