------------------------------ MODULE VlanTable ------------------------------
(* What the Switch / VLAN page promises: a table of VLANs, each with its "local"  *)
(* flag, a label or none, and the role every switch port has in it: "-" (not a     *)
(* member), "t" (tagged) or "u" (untagged, the port's native VLAN). Every action   *)
(* of the page is one step of this table.                                          *)
EXTENDS Integers

CONSTANTS Ports, Vids      \* the switch ports of the bridge, the VLAN IDs in use

VARIABLE table             \* the VLANs there are, each with its row

Row == [local : BOOLEAN, label : BOOLEAN, role : [Ports -> {"-", "t", "u"}]]

Having(t, sel, vid, r) == {p \in sel : t[vid].role[p] = r}

SetRole(t, vid, ps, r) ==
  [t EXCEPT ![vid].role = [p \in Ports |-> IF p \in ps THEN r ELSE @[p]]]

\* T on a row: takes VLAN vid off the selected ports that carry it tagged; when
\* none does, tags all of them, unless it is the native VLAN of one of them.
AfterTagged(t, sel, vid) ==
  IF Having(t, sel, vid, "t") # {} THEN SetRole(t, vid, Having(t, sel, vid, "t"), "-")
  ELSE IF Having(t, sel, vid, "u") # {} THEN t
  ELSE SetRole(t, vid, sel, "t")

\* U on a row: takes the native VLAN vid off the selected ports that have it; when
\* none has, makes it the native VLAN of all of them and takes them out of the
\* VLAN that was, unless one of them carries vid tagged.
AfterUntagged(t, sel, vid) ==
  IF Having(t, sel, vid, "u") # {} THEN SetRole(t, vid, Having(t, sel, vid, "u"), "-")
  ELSE IF Having(t, sel, vid, "t") # {} THEN t
  ELSE [w \in DOMAIN t |->
         [t[w] EXCEPT !.role = [p \in Ports |->
            IF p \in sel /\ w = vid THEN "u"
            ELSE IF p \in sel /\ @[p] = "u" THEN "-" ELSE @[p]]]]

AfterAssign(t, sel, vid, r) ==
  IF r = "t" THEN AfterTagged(t, sel, vid) ELSE AfterUntagged(t, sel, vid)

AfterAdd(t, vid, loc, lab) ==
  IF vid \in DOMAIN t THEN t
  ELSE [w \in DOMAIN t \cup {vid} |->
         IF w \in DOMAIN t THEN t[w]
         ELSE [local |-> loc, label |-> lab, role |-> [p \in Ports |-> "-"]]]

AfterRemove(t, vid) == [w \in DOMAIN t \ {vid} |-> t[w]]
AfterLocal(t, vid, b) == [t EXCEPT ![vid].local = b]
AfterLabel(t, vid, b) == [t EXCEPT ![vid].label = b]

\* A port has one native VLAN at most.
OneNative(t) ==
  \A p \in Ports : \A v, w \in DOMAIN t :
    t[v].role[p] = "u" /\ t[w].role[p] = "u" => v = w

Init == \E vs \in SUBSET Vids : table \in [vs -> Row] /\ OneNative(table)

\* The tables that one action makes of table t.
Changed(t) ==
  UNION {
    {AfterAssign(t, sel, vid, r) : sel \in SUBSET Ports, vid \in DOMAIN t, r \in {"t", "u"}},
    {AfterAdd(t, vid, loc, lab) : vid \in Vids, loc \in BOOLEAN, lab \in BOOLEAN},
    {AfterRemove(t, vid) : vid \in DOMAIN t},
    {AfterLocal(t, vid, b) : vid \in DOMAIN t, b \in BOOLEAN},
    {AfterLabel(t, vid, b) : vid \in DOMAIN t, b \in BOOLEAN} }

Next == \E t \in {table} : table' \in Changed(t)

Spec == Init /\ [][Next]_table
=============================================================================
