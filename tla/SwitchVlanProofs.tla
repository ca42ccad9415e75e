---------------------------- MODULE SwitchVlanProofs ----------------------------
(***************************************************************************)
(* The Switch / VLAN page, for any ports, VLAN IDs, sessions and bounds: it    *)
(* implements the table of VLANs, a table that a bridge can carry at every       *)
(* moment, and once it is quiet the session holds that table.                   *)
(***************************************************************************)
EXTENDS SwitchVlan, Sequences, FiniteSetTheorems, WellFoundedInduction, TLAPS

-----------------------------------------------------------------------------
(***************************************************************************)
(* Induction over the naturals for sets.                                    *)
(***************************************************************************)
LEMMA NatMin ==
  ASSUME NEW T, T \subseteq Nat, T # {}
  PROVE  \E x \in T : \A y \in T : x <= y
<1> DEFINE R == {ss \in Nat \X Nat : ss[1] < ss[2]}
<1>1. IsWellFoundedOn(R, Nat)
  BY NatLessThanWellFounded DEF OpToRel
<1> HIDE DEF R
<1>2. PICK x \in T : \A y \in T : ~(<<y, x>> \in R)
  BY <1>1, WFMin
<1>3. ASSUME NEW y \in T PROVE x <= y
  <2>1. <<y, x>> \in Nat \X Nat /\ <<y, x>>[1] = y /\ <<y, x>>[2] = x
    OBVIOUS
  <2>2. ~(y < x)
    BY <1>2, <2>1 DEF R
  <2> QED BY <2>2
<1> QED BY <1>3

LEMMA SetInduction ==
  ASSUME NEW S, 0 \in S, \A n \in Nat : n \in S => n + 1 \in S
  PROVE  Nat \subseteq S
<1> SUFFICES ASSUME NEW m \in Nat, m \notin S PROVE FALSE
  OBVIOUS
<1> DEFINE T == {n \in Nat : n \notin S}
<1>1. PICK x \in T : \A y \in T : x <= y
  BY NatMin
<1>2. x # 0 /\ x \in Nat
  OBVIOUS
<1>3. x - 1 \in S /\ x - 1 \in Nat
  BY <1>1, <1>2
<1> QED BY <1>2, <1>3

LEMMA UpTo ==
  ASSUME NEW n \in Nat, NEW S, 0 \in S, \A i \in 1..n : i - 1 \in S => i \in S
  PROVE  0..n \subseteq S
<1> DEFINE T == {i \in Nat : i <= n => i \in S}
<1>1. 0 \in T
  OBVIOUS
<1>2. ASSUME NEW i \in Nat, i \in T PROVE i + 1 \in T
  <2>1. i + 1 <= n => (i + 1 \in 1..n /\ (i + 1) - 1 = i /\ i \in S)
    BY <1>2
  <2> QED BY <2>1
<1>3. Nat \subseteq T
  <2> HIDE DEF T
  <2> QED BY <1>1, <1>2, SetInduction
<1> QED BY <1>3

-----------------------------------------------------------------------------
(***************************************************************************)
(* The table of VLANs.                                                      *)
(***************************************************************************)
Tables == UNION {[vs -> Table!Row] : vs \in SUBSET Vids}

\* What every action leaves of a table: typed rows, one native VLAN to a port.
SoundTable(t) == t \in Tables /\ Table!OneNative(t)

\* A row with other roles is a row.
LEMMA RowsChange ==
  ASSUME NEW row \in Table!Row
  PROVE  /\ \A f \in [Ports -> {"-", "t", "u"}] :
              /\ [row EXCEPT !.role = f] \in Table!Row /\ [row EXCEPT !.role = f].role = f
              /\ [row EXCEPT !.role = f].local = row.local /\ [row EXCEPT !.role = f].label = row.label
         /\ \A b \in BOOLEAN :
              /\ [row EXCEPT !.local = b] \in Table!Row /\ [row EXCEPT !.local = b].role = row.role
              /\ [row EXCEPT !.label = b] \in Table!Row /\ [row EXCEPT !.label = b].role = row.role
BY DEF Table!Row

\* u has the rows of t with the roles that R tells.
Reroled(t, u, R) ==
  /\ u \in Tables /\ DOMAIN u = DOMAIN t
  /\ \A w \in DOMAIN t : /\ u[w].local = t[w].local /\ u[w].label = t[w].label
                         /\ \A p \in Ports : u[w].role[p] = R[w][p]

\* Setting one role of several ports changes the row of its VLAN, and nothing else.
OneRole(t, vid, ps, r) ==
  [w \in DOMAIN t |-> [p \in Ports |-> IF w = vid /\ p \in ps THEN r ELSE t[w].role[p]]]

LEMMA SetRoleSteps ==
  ASSUME NEW t \in Tables, NEW vid \in DOMAIN t, NEW ps, NEW r \in {"-", "t", "u"}
  PROVE  Reroled(t, Table!SetRole(t, vid, ps, r), OneRole(t, vid, ps, r))
<1> DEFINE roles == [p \in Ports |-> IF p \in ps THEN r ELSE t[vid].role[p]]
           u == Table!SetRole(t, vid, ps, r)
<1>1. PICK vs \in SUBSET Vids : t \in [vs -> Table!Row]
  BY DEF Tables
<1>2. roles \in [Ports -> {"-", "t", "u"}]
  BY <1>1 DEF Table!Row
<1>3. u = [t EXCEPT ![vid] = [t[vid] EXCEPT !.role = roles]]
  BY <1>1 DEF Table!SetRole, Table!Row
<1>4. /\ [t[vid] EXCEPT !.role = roles] \in Table!Row
      /\ [t[vid] EXCEPT !.role = roles].local = t[vid].local
      /\ [t[vid] EXCEPT !.role = roles].label = t[vid].label
      /\ [t[vid] EXCEPT !.role = roles].role = roles
  <2>1. t[vid] \in Table!Row
    BY <1>1
  <2> HIDE DEF roles
  <2> QED BY <1>2, <2>1, RowsChange
<1>5. u \in [vs -> Table!Row] /\ DOMAIN u = DOMAIN t
  BY <1>1, <1>3, <1>4
<1>6. \A w \in DOMAIN t : /\ u[w].role = IF w = vid THEN roles ELSE t[w].role
                          /\ u[w].local = t[w].local /\ u[w].label = t[w].label
  BY <1>1, <1>3, <1>4
<1>7. \A w \in DOMAIN t, p \in Ports : u[w].role[p] = OneRole(t, vid, ps, r)[w][p]
  BY <1>6 DEF OneRole
<1> QED BY <1>5, <1>6, <1>7 DEF Tables, Reroled

\* A native VLAN moves: in it, and out of the one that was.
Moved(t, sel, vid) ==
  [w \in DOMAIN t |-> [p \in Ports |->
    IF p \in sel /\ w = vid THEN "u" ELSE IF p \in sel /\ t[w].role[p] = "u" THEN "-" ELSE t[w].role[p]]]

LEMMA MoveSteps ==
  ASSUME NEW t \in Tables, NEW sel, NEW vid,
         Table!Having(t, sel, vid, "u") = {}, Table!Having(t, sel, vid, "t") = {}
  PROVE  Reroled(t, Table!AfterUntagged(t, sel, vid), Moved(t, sel, vid))
<1> DEFINE roles(w) == [p \in Ports |->
             IF p \in sel /\ w = vid THEN "u"
             ELSE IF p \in sel /\ t[w].role[p] = "u" THEN "-" ELSE t[w].role[p]]
           moved == [w \in DOMAIN t |-> [t[w] EXCEPT !.role =
             [p \in Ports |-> IF p \in sel /\ w = vid THEN "u"
                              ELSE IF p \in sel /\ @[p] = "u" THEN "-" ELSE @[p]]]]
<1>1. PICK vs \in SUBSET Vids : t \in [vs -> Table!Row]
  BY DEF Tables
<1>2. Table!AfterUntagged(t, sel, vid) = moved
  BY DEF Table!AfterUntagged
<1>3. ASSUME NEW w \in vs
      PROVE  /\ moved[w] \in Table!Row /\ moved[w].role = roles(w)
             /\ moved[w].local = t[w].local /\ moved[w].label = t[w].label
  <2>1. t[w] \in Table!Row /\ roles(w) \in [Ports -> {"-", "t", "u"}]
    BY <1>1, <1>3 DEF Table!Row
  <2>2. moved[w] = [t[w] EXCEPT !.role = roles(w)]
    BY <1>1, <1>3
  <2> HIDE DEF roles, moved
  <2> QED BY <2>1, <2>2, RowsChange
<1>4. DOMAIN moved = vs /\ moved = [w \in vs |-> moved[w]] /\ DOMAIN t = vs
  BY <1>1
<1>5. \A w \in vs, p \in Ports : roles(w)[p] = Moved(t, sel, vid)[w][p]
  BY <1>4 DEF Moved
<1> HIDE DEF moved, roles
<1> QED BY <1>2, <1>3, <1>4, <1>5 DEF Tables, Reroled

\* T on a row: it gives nobody a native VLAN.
LEMMA TaggedIsSound ==
  ASSUME NEW t, SoundTable(t), NEW sel \in SUBSET Ports, NEW vid \in DOMAIN t
  PROVE  SoundTable(Table!AfterTagged(t, sel, vid))
<1>1. ASSUME NEW ps, NEW r \in {"-", "t"}
      PROVE  SoundTable(Table!SetRole(t, vid, ps, r))
  BY <1>1, SetRoleSteps DEF SoundTable, Table!OneNative, Reroled, OneRole
<1> QED BY <1>1 DEF Table!AfterTagged

\* U on a row: a port that gets a native VLAN loses the one it had.
LEMMA UntaggedIsSound ==
  ASSUME NEW t, SoundTable(t), NEW sel \in SUBSET Ports, NEW vid \in DOMAIN t
  PROVE  SoundTable(Table!AfterUntagged(t, sel, vid))
<1>1. SoundTable(Table!SetRole(t, vid, Table!Having(t, sel, vid, "u"), "-"))
  BY SetRoleSteps DEF SoundTable, Table!OneNative, Reroled, OneRole
<1>2. ASSUME Table!Having(t, sel, vid, "u") = {}, Table!Having(t, sel, vid, "t") = {}
      PROVE  SoundTable(Table!AfterUntagged(t, sel, vid))
  <2> DEFINE u == Table!AfterUntagged(t, sel, vid)
  <2>1. Reroled(t, u, Moved(t, sel, vid))
    BY <1>2, MoveSteps DEF SoundTable
  <2>2. \A w \in DOMAIN t, p \in Ports : Moved(t, sel, vid)[w][p] = "u" =>
          IF p \in sel THEN w = vid ELSE t[w].role[p] = "u"
    BY DEF Moved
  <2> HIDE DEF u
  <2>3. Table!OneNative(u)
    BY <2>1, <2>2 DEF Reroled, Table!OneNative, SoundTable
  <2> QED BY <2>1, <2>3 DEF SoundTable, Reroled, u
<1> QED BY <1>1, <1>2 DEF Table!AfterUntagged

\* A VLAN added, removed, labelled or made local: no port's role changes.
LEMMA RowsAreSound ==
  ASSUME NEW t, SoundTable(t), NEW vid \in Vids, NEW b \in BOOLEAN, NEW c \in BOOLEAN
  PROVE  /\ SoundTable(Table!AfterAdd(t, vid, b, c)) /\ SoundTable(Table!AfterRemove(t, vid))
         /\ vid \in DOMAIN t => SoundTable(Table!AfterLocal(t, vid, b)) /\ SoundTable(Table!AfterLabel(t, vid, b))
<1>1. PICK vs \in SUBSET Vids : t \in [vs -> Table!Row]
  BY DEF SoundTable, Tables
<1>2. SoundTable(Table!AfterAdd(t, vid, b, c))
  <2> DEFINE new == [local |-> b, label |-> c, role |-> [p \in Ports |-> "-"]]
             u == [w \in vs \cup {vid} |-> IF w \in vs THEN t[w] ELSE new]
  <2>1. new \in Table!Row
    BY DEF Table!Row
  <2>2. u \in [vs \cup {vid} -> Table!Row]
    BY <1>1, <2>1
  <2>3. \A w \in vs \cup {vid}, p \in Ports : u[w].role[p] = "u" => w \in vs /\ t[w].role[p] = "u"
    BY <1>1
  <2>4. u = Table!AfterAdd(t, vid, b, c) \/ Table!AfterAdd(t, vid, b, c) = t
    BY <1>1 DEF Table!AfterAdd
  <2> HIDE DEF u
  <2>5. Table!OneNative(u)
    BY <1>1, <2>2, <2>3 DEF SoundTable, Table!OneNative
  <2> QED BY <2>2, <2>4, <2>5 DEF SoundTable, Tables
<1>3. SoundTable(Table!AfterRemove(t, vid))
  <2> DEFINE u == [w \in vs \ {vid} |-> t[w]]
  <2>1. u \in [vs \ {vid} -> Table!Row] /\ Table!AfterRemove(t, vid) = u
    BY <1>1 DEF Table!AfterRemove
  <2> QED BY <1>1, <2>1 DEF SoundTable, Tables, Table!OneNative
<1>4. ASSUME vid \in DOMAIN t
      PROVE  SoundTable(Table!AfterLocal(t, vid, b)) /\ SoundTable(Table!AfterLabel(t, vid, b))
  <2>1. /\ [t[vid] EXCEPT !.local = b] \in Table!Row /\ [t[vid] EXCEPT !.local = b].role = t[vid].role
        /\ [t[vid] EXCEPT !.label = b] \in Table!Row /\ [t[vid] EXCEPT !.label = b].role = t[vid].role
    BY <1>1, <1>4 DEF Table!Row
  <2>2. /\ Table!AfterLocal(t, vid, b) \in [vs -> Table!Row]
        /\ \A w \in vs : Table!AfterLocal(t, vid, b)[w].role = t[w].role
    BY <1>1, <1>4, <2>1 DEF Table!AfterLocal
  <2>3. /\ Table!AfterLabel(t, vid, b) \in [vs -> Table!Row]
        /\ \A w \in vs : Table!AfterLabel(t, vid, b)[w].role = t[w].role
    BY <1>1, <1>4, <2>1 DEF Table!AfterLabel
  <2>4. \A u \in [vs -> Table!Row] : (\A w \in vs : u[w].role = t[w].role) => SoundTable(u)
    BY <1>1 DEF SoundTable, Tables, Table!OneNative
  <2> QED BY <2>2, <2>3, <2>4
<1> QED BY <1>2, <1>3, <1>4

\* Whatever the user does, the table keeps its type and no port is ever native in
\* two VLANs: what checkUnsupportedConfig refuses cannot be reached by editing.
THEOREM TableStaysSound == Table!Spec => [](Seen \in Tables /\ Table!OneNative(Seen))
<1>1. Table!Init => SoundTable(Seen)
  BY DEF Table!Init, SoundTable, Tables
<1>2. SoundTable(Seen) /\ [Table!Next]_Seen => SoundTable(Seen)'
  <2> SUFFICES ASSUME SoundTable(Seen), [Table!Next]_Seen PROVE SoundTable(Seen')
    BY DEF SoundTable, Tables, Table!OneNative
  <2>0. DOMAIN Seen \subseteq Vids
    BY DEF SoundTable, Tables
  <2>1. CASE UNCHANGED Seen
    BY <2>1
  <2>2. CASE Table!Next
    <3>1. Seen' \in Table!Changed(Seen)
      BY <2>2 DEF Table!Next
    <3>2. CASE \E sel \in SUBSET Ports, vid \in DOMAIN Seen, r \in {"t", "u"} :
                 Seen' = Table!AfterAssign(Seen, sel, vid, r)
      BY <3>2, TaggedIsSound, UntaggedIsSound DEF Table!AfterAssign
    <3>3. CASE \E vid \in Vids, b \in BOOLEAN, c \in BOOLEAN : Seen' = Table!AfterAdd(Seen, vid, b, c)
      BY <3>3, RowsAreSound
    <3>4. CASE \E vid \in DOMAIN Seen : Seen' = Table!AfterRemove(Seen, vid)
      BY <2>0, <3>4, RowsAreSound
    <3>5. CASE \E vid \in DOMAIN Seen, b \in BOOLEAN : Seen' = Table!AfterLocal(Seen, vid, b)
      BY <2>0, <3>5, RowsAreSound
    <3>6. CASE \E vid \in DOMAIN Seen, b \in BOOLEAN : Seen' = Table!AfterLabel(Seen, vid, b)
      BY <2>0, <3>6, RowsAreSound
    <3> QED BY <3>1, <3>2, <3>3, <3>4, <3>5, <3>6 DEF Table!Changed
  <2> QED BY <2>1, <2>2
<1>3. SoundTable(Seen) => Seen \in Tables /\ Table!OneNative(Seen)
  BY DEF SoundTable
<1> QED BY <1>1, <1>2, <1>3, PTL DEF Table!Spec
-----------------------------------------------------------------------------
(***************************************************************************)
(* The invariant.                                                           *)
(***************************************************************************)
PortLists == [Ports -> Flags]
Edits == [del : BOOLEAN, ports : PortLists \cup {Keep}, local : BOOLEAN \cup {Keep}]
Labels == {Keep, "set", "unset"}

\* Sections, as the session and the copy hold them.
IsNet(net) == /\ net \in [DOMAIN net -> BridgeVlan]
              /\ IsFiniteSet(DOMAIN net) /\ DOMAIN net \subseteq Nat \ {0}

\* Sections that the page opens on, with each VLAN once.
Accepted == {"-", "", "u", "u*", "t"}
Sound(net) ==
  /\ \A i \in DOMAIN net : net[i].vid \in Vids /\ \A p \in Ports : net[i].ports[p] \in Accepted
  /\ \A i, j \in DOMAIN net : net[i].vid = net[j].vid => i = j
  /\ \A i, j \in DOMAIN net, p \in Ports :
       Untagged(net[i].ports[p]) /\ Untagged(net[j].ports[p]) => i = j

VidsOf(net) == {net[i].vid : i \in DOMAIN net}

RoleOf(s) == IF Untagged(s) THEN "u" ELSE IF Tagged(s) THEN "t" ELSE "-"

\* The sections and labels say what table t says, and no label is an orphan.
Means(t, net, labels) ==
  /\ t \in [VidsOf(net) -> Table!Row]
  /\ \A i \in DOMAIN net :
       LET row == t[net[i].vid] IN
       /\ row.local = net[i].local /\ (row.label <=> net[i].vid \in labels)
       /\ \A p \in Ports : row.role[p] = RoleOf(net[i].ports[p])
  /\ labels \subseteq VidsOf(net)

Net == [i \in Sections |-> Section(i)]
NetPending == DOMAIN crt # {} \/ \E i \in DOMAIN edit : edit[i] # NoEdit
LabPending == \E v \in Vids : lab[v] # Keep

TypeInv ==
  /\ session = [net |-> session.net, luci |-> session.luci]
  /\ IsNet(session.net) /\ session.luci \subseteq Vids
  /\ loaded \subseteq Packages /\ sent \subseteq Packages
  /\ edit \in [DOMAIN session.net -> Edits]
  /\ IsNet(crt) /\ DOMAIN crt \cap DOMAIN edit = {}
  /\ lab \in [Vids -> Labels]
  /\ selection \subseteq Ports /\ modal \in Vids \cup {None}
  /\ page \in {"open", "blocked"} /\ failed \in BOOLEAN
  /\ queue \in Nat /\ edits \in Nat /\ phase \in {"idle", "save", "load", "resync", "count"}

BlockedInv ==
  page = "blocked" => queue = 0 /\ phase = "idle" /\ edits = 0 /\ modal = None

\* The table asked for is what stands once everything pending is saved.  A package
\* that LuCI has no copy of has no pending edits: who waits makes none then.
PageInv ==
  page = "open" =>
    /\ Sound(session.net) /\ Sound(Net) /\ Means(want, Net, LabelsSaved)
    /\ rows = DOMAIN want /\ ("network" \in loaded \cup sent => vlans = DOMAIN want)
    /\ "network" \notin loaded => ~NetPending
    /\ "luci" \notin loaded => ~LabPending

\* A save in flight carries its packages as they are, for who waits edits others
\* only; and a stash that is the only one has, or will have, saved everything.
StashInv ==
  /\ phase # "idle" => queue > 0
  /\ phase \notin {"save", "load"} => sent = {}
  /\ phase = "save" =>
       flying = [net |-> IF "network" \in sent THEN Net ELSE session.net,
                 luci |-> IF "luci" \in sent THEN LabelsSaved ELSE session.luci]
  /\ queue = 1 /\ phase = "save" =>
       (NetPending => "network" \in sent) /\ (LabPending => "luci" \in sent)
  /\ queue = 1 /\ phase \in {"load", "resync", "count"} => ~NetPending /\ ~LabPending
  /\ queue = 0 /\ ~failed /\ edits > 0 => ~NetPending /\ ~LabPending

SwitchInv == TypeInv /\ BlockedInv /\ PageInv /\ StashInv

-----------------------------------------------------------------------------
(***************************************************************************)
(* Entries, sections and what they mean.                                     *)
(***************************************************************************)
LEMMA AcceptedFlags ==
  ASSUME NEW s \in Accepted
  PROVE  /\ s \in Flags /\ RoleOf(s) \in {"-", "t", "u"}
         /\ (Tagged(s) <=> s = "t") /\ (Tagged(s) <=> RoleOf(s) = "t")
         /\ (Untagged(s) <=> RoleOf(s) = "u") /\ (s = "-" <=> RoleOf(s) = "-")
         /\ Written(s) \in Accepted /\ RoleOf(Written(s)) = RoleOf(s)
BY DEF Accepted, Flags, RoleOf, Tagged, Untagged, Written

LEMMA NewFlags ==
  /\ \A s \in {"-", "t", ""} : s \in Accepted /\ s \in Flags
  /\ RoleOf("-") = "-" /\ RoleOf("t") = "t" /\ RoleOf("") = "u"
BY DEF Accepted, Flags, RoleOf, Tagged, Untagged

LEMMA FlagsWritten ==
  ASSUME NEW s \in Flags
  PROVE  Written(s) \in Flags
BY DEF Flags, Written, Tagged

\* What checkUnsupportedConfig lets through, and what it does not.
LEMMA Supported ==
  ASSUME NEW net, IsNet(net), \A i, j \in DOMAIN net : net[i].vid = net[j].vid => i = j
  PROVE  /\ ~Unsupported(net) /\ (\A i \in DOMAIN net : net[i].vid \in Vids) => Sound(net)
         /\ Sound(net) => ~Unsupported(net)
<1>1. \A i \in DOMAIN net, p \in Ports : net[i].ports[p] \in Flags
  BY DEF IsNet, BridgeVlan
<1>2. \A s \in Flags :
        s \in Accepted <=> ~((Tagged(s) /\ Pvid(s)) \/ (Tagged(s) /\ Untagged(s)) \/ (Pvid(s) /\ ~Untagged(s)))
  BY DEF Flags, Accepted, Tagged, Untagged, Pvid
<1>3. ASSUME ~Unsupported(net), \A i \in DOMAIN net : net[i].vid \in Vids
      PROVE  Sound(net)
  <2>1. \A i \in DOMAIN net, p \in Ports : net[i].ports[p] \in Accepted
    BY <1>1, <1>2, <1>3 DEF Unsupported
  <2>2. ASSUME NEW i \in DOMAIN net, NEW j \in DOMAIN net, NEW p \in Ports,
               Untagged(net[i].ports[p]), Untagged(net[j].ports[p])
        PROVE  i = j
    BY <1>3, <2>2 DEF Unsupported
  <2> QED BY <1>3, <2>1, <2>2 DEF Sound
<1>4. ASSUME Sound(net) PROVE ~Unsupported(net)
  <2>1. \A i \in DOMAIN net : net[i].vid \in MIN_VLAN_ID..MAX_VLAN_ID
    BY <1>4, SwitchVlanAssumption DEF Sound
  <2>2. \A i \in DOMAIN net, p \in Ports :
          LET s == net[i].ports[p] IN
          ~((Tagged(s) /\ Pvid(s)) \/ (Tagged(s) /\ Untagged(s)) \/ (Pvid(s) /\ ~Untagged(s)))
    BY <1>1, <1>2, <1>4 DEF Sound
  <2>3. \A i, j \in DOMAIN net, p \in Ports :
          Untagged(net[i].ports[p]) /\ Untagged(net[j].ports[p]) => net[i].vid = net[j].vid
    BY <1>4 DEF Sound
  <2> QED BY <2>1, <2>2, <2>3 DEF Unsupported
<1> QED BY <1>3, <1>4

\* A row of the page, and its fields.
LEMMA RowIs ==
  ASSUME NEW s \in BridgeVlan, NEW v, NEW L
  PROVE  /\ Row(s, v \in L) \in Table!Row /\ Row(s, v \in L).local = s.local
         /\ (Row(s, v \in L).label <=> v \in L)
         /\ \A p \in Ports : Row(s, v \in L).role[p] = RoleOf(s.ports[p])
<1> DEFINE f == [p \in Ports |-> RoleOf(s.ports[p])]
           F(x, b) == [local |-> x, label |-> b, role |-> f]
<1>1. f \in [Ports -> {"-", "t", "u"}] /\ \A p \in Ports : f[p] = RoleOf(s.ports[p])
  BY DEF RoleOf
<1>2. s.local \in BOOLEAN
  BY DEF BridgeVlan
<1>3. Row(s, v \in L) = F(s.local, v \in L)
  BY DEF Row, RoleOf
<1> HIDE DEF f
<1>4. \A x \in BOOLEAN, b \in BOOLEAN : F(x, b) \in Table!Row
  BY <1>1 DEF Table!Row
<1>5. F(s.local, v \in L) \in Table!Row
  <2>1. CASE v \in L
    <3>1. F(s.local, v \in L) = F(s.local, TRUE)
      BY <2>1
    <3> QED BY <1>2, <1>4, <3>1
  <2>2. CASE v \notin L
    <3>1. (v \in L) = FALSE
      BY <2>2
    <3>2. F(s.local, v \in L) = F(s.local, FALSE)
      BY <3>1
    <3> QED BY <1>2, <1>4, <3>2
  <2> QED BY <2>1, <2>2
<1>6. F(s.local, v \in L).local = s.local /\ (F(s.local, v \in L).label <=> v \in L)
      /\ F(s.local, v \in L).role = f
  OBVIOUS
<1> QED BY <1>1, <1>3, <1>5, <1>6

\* A row is its fields.
LEMMA SameRow ==
  ASSUME NEW x \in Table!Row, NEW y \in Table!Row, x.local = y.local, x.label <=> y.label,
         \A p \in Ports : x.role[p] = y.role[p]
  PROVE  x = y
<1>1. x.label = y.label
  BY DEF Table!Row
<1>2. x.role = y.role
  BY DEF Table!Row
<1> QED BY <1>1, <1>2 DEF Table!Row

LEMMA EmptyTable ==
  ASSUME NEW x, x = <<>>
  PROVE  DOMAIN x = {}
OBVIOUS

LEMMA OnlyOne ==
  ASSUME NEW i \in Nat, NEW S, S = {i}
  PROVE  Max(S) = i
BY DEF Max

\* The table of some sections is the one that they mean.
LEMMA TableIs ==
  ASSUME NEW N, IsNet(N), NEW L, \A i, j \in DOMAIN N : N[i].vid = N[j].vid => i = j
  PROVE  /\ Means(TableOf(N, L), N, L \cap VidsOf(N))
         /\ \A t : Means(t, N, L) => t = TableOf(N, L)
<1> DEFINE u == TableOf(N, L)
<1>1. u = [v \in VidsOf(N) |-> Row(N[Max({i \in DOMAIN N : N[i].vid = v})], v \in L)]
  BY DEF TableOf, VidsOf
<1>2. ASSUME NEW i \in DOMAIN N
      PROVE  /\ N[i].vid \in VidsOf(N) /\ N[i] \in BridgeVlan
             /\ Max({j \in DOMAIN N : N[j].vid = N[i].vid}) = i
  <2>1. {j \in DOMAIN N : N[j].vid = N[i].vid} = {i}
    OBVIOUS
  <2> QED BY <2>1, OnlyOne DEF IsNet, VidsOf
<1> HIDE DEF u
<1>3. \A i \in DOMAIN N : u[N[i].vid] = Row(N[i], N[i].vid \in L)
  BY <1>1, <1>2
<1>4. ASSUME NEW i \in DOMAIN N
      PROVE  LET row == u[N[i].vid] IN
             /\ row \in Table!Row /\ row.local = N[i].local /\ (row.label <=> N[i].vid \in L)
             /\ \A p \in Ports : row.role[p] = RoleOf(N[i].ports[p])
  <2>1. PICK s \in BridgeVlan : s = N[i]
    BY <1>2
  <2>2. PICK v : v = s.vid
    OBVIOUS
  <2>3. u[v] = Row(s, v \in L)
    BY <1>3, <2>1, <2>2
  <2>4. /\ u[v] \in Table!Row /\ u[v].local = s.local /\ (u[v].label <=> v \in L)
        /\ \A p \in Ports : u[v].role[p] = RoleOf(s.ports[p])
    BY <2>3, RowIs
  <2> QED BY <2>1, <2>2, <2>4
<1>5. u \in [VidsOf(N) -> Table!Row]
  <2>1. \A v \in VidsOf(N) : u[v] \in Table!Row
    BY <1>4 DEF VidsOf
  <2> QED BY <1>1, <2>1
<1>6. Means(u, N, L \cap VidsOf(N))
  BY <1>2, <1>4, <1>5 DEF Means
<1>7. ASSUME NEW t, Means(t, N, L) PROVE t = u
  <2>1. \A i \in DOMAIN N : t[N[i].vid] = u[N[i].vid]
    <3> TAKE i \in DOMAIN N
    <3>1. t[N[i].vid] \in Table!Row /\ u[N[i].vid] \in Table!Row
      BY <1>2, <1>5, <1>7 DEF Means
    <3>2. t[N[i].vid].local = N[i].local /\ (t[N[i].vid].label <=> N[i].vid \in L)
          /\ \A p \in Ports : t[N[i].vid].role[p] = RoleOf(N[i].ports[p])
      BY <1>7 DEF Means
    <3> QED BY <1>4, <3>1, <3>2, SameRow
  <2>2. \A v \in VidsOf(N) : t[v] = u[v]
    BY <2>1 DEF VidsOf
  <2> QED BY <1>5, <1>7, <2>2 DEF Means
<1> QED BY <1>6, <1>7 DEF u

\* A table that sound sections mean is one a bridge can carry.
LEMMA MeansSound ==
  ASSUME NEW N, Sound(N), NEW L, NEW t, Means(t, N, L)
  PROVE  SoundTable(t)
<1>1. VidsOf(N) \in SUBSET Vids /\ t \in [VidsOf(N) -> Table!Row]
  BY DEF Sound, VidsOf, Means
<1>2. ASSUME NEW p \in Ports, NEW v \in DOMAIN t, NEW w \in DOMAIN t,
             t[v].role[p] = "u", t[w].role[p] = "u"
      PROVE  v = w
  <2>1. PICK i \in DOMAIN N, j \in DOMAIN N : N[i].vid = v /\ N[j].vid = w
    BY <1>1 DEF VidsOf
  <2>2. RoleOf(N[i].ports[p]) = "u" /\ RoleOf(N[j].ports[p]) = "u"
    BY <1>2, <2>1 DEF Means
  <2>3. Untagged(N[i].ports[p]) /\ Untagged(N[j].ports[p])
    BY <2>2 DEF RoleOf
  <2> QED BY <2>1, <2>3 DEF Sound
<1> QED BY <1>1, <1>2 DEF SoundTable, Table!OneNative, Tables

\* Sections that mean a sound table are sound.
LEMMA Says ==
  ASSUME NEW M, NEW L, NEW u, SoundTable(u), Means(u, M, L),
         \A i, j \in DOMAIN M : M[i].vid = M[j].vid => i = j,
         \A i \in DOMAIN M, p \in Ports : M[i].ports[p] \in Accepted
  PROVE  Sound(M)
<1>1. \A i \in DOMAIN M : M[i].vid \in Vids /\ M[i].vid \in DOMAIN u
  BY DEF SoundTable, Tables, VidsOf, Means
<1>2. ASSUME NEW i \in DOMAIN M, NEW j \in DOMAIN M, NEW p \in Ports,
             Untagged(M[i].ports[p]), Untagged(M[j].ports[p])
      PROVE  i = j
  <2>1. u[M[i].vid].role[p] = "u" /\ u[M[j].vid].role[p] = "u"
    BY <1>2, AcceptedFlags DEF Means
  <2> QED BY <1>1, <2>1 DEF SoundTable, Table!OneNative
<1> QED BY <1>1, <1>2 DEF Sound

-----------------------------------------------------------------------------
(***************************************************************************)
(* The copy, and what the page reads in it.                                   *)
(***************************************************************************)

\* The copy is made of sections.
LEMMA NetIs ==
  TypeInv => /\ IsNet(Net) /\ DOMAIN Net = Sections /\ \A i \in Sections : Net[i] = Section(i)
             /\ Saved.net = Net /\ Saved.luci = LabelsSaved /\ Shown = TableOf(Net, LabelsSaved)
             /\ LabelsSaved \subseteq Vids
<1> SUFFICES ASSUME TypeInv PROVE IsNet(Net)
  BY DEF Net, Saved, Shown, LabelsSaved
<1>1. ASSUME NEW i \in DOMAIN edit PROVE Edited(i) \in BridgeVlan
  <2>1. PICK s \in BridgeVlan : s = session.net[i]
    BY DEF TypeInv, IsNet
  <2>2. PICK e \in Edits : e = edit[i]
    BY DEF TypeInv
  <2> DEFINE ps == IF e.ports = Keep THEN s.ports ELSE e.ports
             lo == IF e.local = Keep THEN s.local ELSE e.local
  <2>3. ps \in PortLists /\ lo \in BOOLEAN
    BY DEF Edits, BridgeVlan, PortLists
  <2>4. Edited(i) = [s EXCEPT !.ports = ps, !.local = lo]
    BY <2>1, <2>2 DEF Edited
  <2> HIDE DEF ps, lo
  <2> QED BY <2>3, <2>4 DEF BridgeVlan, PortLists
<1>2. \A i \in Sections : Section(i) \in BridgeVlan
  BY <1>1 DEF Section, Sections, TypeInv, IsNet
<1>3. DOMAIN edit = DOMAIN session.net /\ Sections \subseteq DOMAIN edit \cup DOMAIN crt
  BY DEF TypeInv, Sections
<1>4. IsFiniteSet(DOMAIN edit \cup DOMAIN crt)
  BY <1>3, FS_Union DEF TypeInv, IsNet
<1>5. IsFiniteSet(Sections) /\ Sections \subseteq Nat \ {0}
  BY <1>3, <1>4, FS_Subset DEF TypeInv, IsNet
<1> QED BY <1>2, <1>5 DEF Net, IsNet

\* Without pending edits the copy is the session.
LEMMA NothingPending ==
  TypeInv => /\ (~NetPending => Net = session.net)
             /\ (~LabPending => LabelsSaved = session.luci)
<1> SUFFICES ASSUME TypeInv PROVE (~NetPending => Net = session.net) /\ (~LabPending => LabelsSaved = session.luci)
  OBVIOUS
<1>1. ASSUME ~NetPending PROVE Net = session.net
  <2>1. DOMAIN crt = {} /\ \A i \in DOMAIN edit : edit[i] = NoEdit
    BY <1>1 DEF NetPending
  <2>2. Sections = DOMAIN session.net
    BY <2>1 DEF Sections, NoEdit, TypeInv
  <2>3. ASSUME NEW i \in DOMAIN session.net PROVE Section(i) = session.net[i]
    <3>1. PICK s \in BridgeVlan : s = session.net[i]
      BY DEF TypeInv, IsNet
    <3>2. i \in DOMAIN edit /\ edit[i].ports = Keep /\ edit[i].local = Keep
      BY <2>1 DEF NoEdit, TypeInv
    <3>3. Section(i) = [s EXCEPT !.ports = s.ports, !.local = s.local]
      BY <3>1, <3>2 DEF Section, Edited
    <3> QED BY <3>1, <3>3 DEF BridgeVlan
  <2> QED BY <2>2, <2>3 DEF Net, TypeInv, IsNet
<1>2. ASSUME ~LabPending PROVE LabelsSaved = session.luci
  BY <1>2 DEF LabPending, LabelsSaved, TypeInv
<1> QED BY <1>1, <1>2

\* findVlanSection finds the section of a VLAN, if there is one.
LEMMA FindIs ==
  ASSUME TypeInv, Sound(Net), "network" \in loaded, NEW vid
  PROVE  /\ vid \in VidsOf(Net) <=> Find(vid) # 0
         /\ vid \in VidsOf(Net) => /\ Find(vid) \in Sections /\ Find(vid) \in DOMAIN Net
                                   /\ \A i \in Sections : Section(i).vid = vid <=> i = Find(vid)
                                   /\ \A i \in DOMAIN Net : Net[i].vid = vid <=> i = Find(vid)
<1> DEFINE on == {i \in Sections : Section(i).vid = vid}
<1>1. IsNet(Net) /\ DOMAIN Net = Sections /\ \A i \in Sections : Net[i] = Section(i)
  BY NetIs
<1>2. Find(vid) = IF on = {} THEN 0 ELSE Max(on)
  BY DEF Find, Live
<1>3. CASE on = {}
  BY <1>1, <1>2, <1>3 DEF VidsOf
<1>4. ASSUME NEW j \in on PROVE on = {j} /\ Find(vid) = j /\ j # 0
  <2>1. j \in Nat \ {0}
    BY <1>1 DEF IsNet
  <2>2. on = {j}
    BY <1>1 DEF Sound
  <2> HIDE DEF on
  <2> QED BY <1>2, <2>1, <2>2, OnlyOne
<1>5. CASE on # {}
  <2>1. PICK j \in on : TRUE
    BY <1>5
  <2>2. on = {j} /\ Find(vid) = j /\ j # 0
    BY <1>4
  <2>3. j \in Sections /\ \A i \in Sections : Section(i).vid = vid <=> i = j
    BY <2>2
  <2>4. vid \in VidsOf(Net)
    BY <1>1, <2>3 DEF VidsOf
  <2> QED BY <1>1, <2>2, <2>3, <2>4
<1> QED BY <1>3, <1>5

LEMMA BridgeVlansAre ==
  TypeInv /\ Sound(Net) /\ "network" \in loaded => BridgeVlans = VidsOf(Net)
<1> SUFFICES ASSUME TypeInv, Sound(Net), "network" \in loaded PROVE BridgeVlans = VidsOf(Net)
  OBVIOUS
<1>1. DOMAIN Net = Sections /\ \A i \in Sections : Net[i] = Section(i)
  BY NetIs
<1>2. BridgeVlans = VidsOf(Net) \cap (MIN_VLAN_ID..MAX_VLAN_ID)
  BY <1>1 DEF BridgeVlans, Live, VidsOf
<1>3. VidsOf(Net) \subseteq Vids
  BY DEF Sound, VidsOf
<1> QED BY <1>2, <1>3, SwitchVlanAssumption

\* buildPortState tells a port's roles.
LEMMA CarriesIs ==
  ASSUME TypeInv, Sound(Net), "network" \in loaded, NEW vid \in VidsOf(Net), NEW p \in Ports
  PROVE  /\ Native(p) = vid <=> Untagged(Net[Find(vid)].ports[p])
         /\ vid \in TaggedOn(p) <=> Tagged(Net[Find(vid)].ports[p])
         /\ Native(p) # None => Native(p) \in VidsOf(Net)
<1> DEFINE on == {i \in Sections : Untagged(Section(i).ports[p])}
           k == Find(vid)
<1>1. IsNet(Net) /\ DOMAIN Net = Sections /\ \A i \in Sections : Net[i] = Section(i)
  BY NetIs
<1>2. k \in Sections /\ \A i \in Sections : Section(i).vid = vid <=> i = k
  BY FindIs
<1>3. Native(p) = IF on = {} THEN None ELSE Section(Max(on)).vid
  BY DEF Native, Live
<1>4. ASSUME NEW j \in on PROVE on = {j} /\ Native(p) = Section(j).vid
  <2>1. j \in Nat
    BY <1>1 DEF IsNet
  <2>2. on = {j}
    BY <1>1 DEF Sound
  <2>3. on # {}
    OBVIOUS
  <2> HIDE DEF on
  <2>4. Max(on) = j
    BY <2>1, <2>2, OnlyOne
  <2> QED BY <1>3, <2>2, <2>3, <2>4
<1>5. vid # None
  BY <1>1, SwitchVlanAssumption DEF Sound, VidsOf, None, MIN_VLAN_ID, MAX_VLAN_ID
<1>6. Native(p) = vid <=> k \in on
  <2>1. CASE on = {}
    BY <1>3, <1>5, <2>1
  <2>2. CASE on # {}
    <3>1. PICK j \in on : TRUE
      BY <2>2
    <3>2. on = {j} /\ Native(p) = Section(j).vid /\ j \in Sections
      BY <1>4
    <3> HIDE DEF on, k
    <3> QED BY <1>2, <3>2
  <2> QED BY <2>1, <2>2
<1>7. \A i \in Sections : Section(i).ports[p] \in Accepted
  BY <1>1 DEF Sound
<1>8. vid \in TaggedOn(p) <=> Tagged(Section(k).ports[p])
  <2>1. \A i \in Sections : Tagged(Section(i).ports[p]) => ~Untagged(Section(i).ports[p])
    BY <1>7 DEF Accepted, Tagged, Untagged
  <2>2. vid \in TaggedOn(p) <=> \E i \in Sections : Section(i).vid = vid /\ Tagged(Section(i).ports[p])
    BY <2>1 DEF TaggedOn, Live
  <2> HIDE DEF k
  <2> QED BY <1>2, <2>2
<1>9. Native(p) # None => Native(p) \in VidsOf(Net)
  <2>1. CASE on = {}
    BY <1>3, <2>1
  <2>2. CASE on # {}
    <3>1. PICK j \in on : TRUE
      BY <2>2
    <3>2. Native(p) = Section(j).vid /\ j \in Sections
      BY <1>4
    <3> QED BY <1>1, <3>2 DEF VidsOf
  <2> QED BY <2>1, <2>2
<1>10. k \in on <=> Untagged(Net[k].ports[p])
  BY <1>1, <1>2
<1> QED BY <1>1, <1>2, <1>6, <1>8, <1>9, <1>10

-----------------------------------------------------------------------------
(***************************************************************************)
(* The edits.                                                               *)
(***************************************************************************)

\* What every edit leaves, of the packages it touched and of the table it asks for.
EditTypes ==
  /\ edit' \in [DOMAIN session.net -> Edits]
  /\ IsNet(crt') /\ DOMAIN crt' \cap DOMAIN edit' = {}
  /\ lab' \in [Vids -> Labels]
  /\ selection' = selection /\ modal' \in {modal, None}

EditMeans(u) ==
  /\ SoundTable(u) /\ Means(u, Net', LabelsSaved')
  /\ \A i, j \in DOMAIN Net' : (Net')[i].vid = (Net')[j].vid => i = j
  /\ \A i \in DOMAIN Net', p \in Ports : (Net')[i].ports[p] \in Accepted
  /\ rows' = DOMAIN u /\ ("network" \in loaded \cup sent => vlans' = DOMAIN u)

EditKeeps(touched) ==
  /\ "network" \notin touched => Net' = Net /\ NetPending' = NetPending
  /\ "luci" \notin touched => LabelsSaved' = LabelsSaved /\ LabPending' = LabPending

LEMMA EditIs ==
  ASSUME SwitchInv, Patient, page = "open", NEW touched, touched \subseteq Packages, NEW u,
         Edit(touched, u), EditTypes, EditMeans(u), EditKeeps(touched)
  PROVE  SwitchInv'
<1>1. touched \subseteq loaded /\ touched \cap sent = {}
  BY DEF Edit
<1>2. TypeInv'
  BY DEF SwitchInv, TypeInv, Edit, EditTypes
<1>3. BlockedInv'
  BY DEF BlockedInv, Edit
<1>4. PageInv'
  <2>1. Sound(session'.net)
    BY DEF SwitchInv, PageInv, Edit
  <2>2. PICK N, L : N = Net' /\ L = LabelsSaved'
    OBVIOUS
  <2>3. Sound(N)
    BY <2>2, Says DEF EditMeans
  <2>4. want' = u /\ loaded' = loaded /\ sent' = sent
    BY DEF Edit
  <2>5. "network" \notin loaded' => ~NetPending'
    BY <1>1, <2>4 DEF EditKeeps, SwitchInv, PageInv
  <2>6. "luci" \notin loaded' => ~LabPending'
    BY <1>1, <2>4 DEF EditKeeps, SwitchInv, PageInv
  <2>7. Means(want, Net, LabelsSaved)' /\ Sound(Net)'
    BY <2>2, <2>3, <2>4 DEF EditMeans
  <2> QED BY <2>1, <2>4, <2>5, <2>6, <2>7 DEF PageInv, EditMeans
<1>5. StashInv'
  <2>1. /\ session' = session /\ phase' = phase /\ sent' = sent /\ flying' = flying
        /\ failed' = failed /\ queue' = queue + 1 /\ queue \in Nat
    BY DEF Edit, SwitchInv, TypeInv
  <2>2. queue' # 0 /\ (queue' = 1 => phase = "idle")
    BY <2>1 DEF SwitchInv, StashInv
  <2>3. "network" \in sent => Net' = Net
    BY <1>1 DEF EditKeeps
  <2>4. "luci" \in sent => LabelsSaved' = LabelsSaved
    BY <1>1 DEF EditKeeps
  <2>5. phase = "save" =>
          flying' = [net |-> IF "network" \in sent THEN Net' ELSE session'.net,
                     luci |-> IF "luci" \in sent THEN LabelsSaved' ELSE session'.luci]
    BY <2>1, <2>3, <2>4 DEF SwitchInv, StashInv
  <2>6. phase \notin {"save", "load"} => sent = {}
    BY DEF SwitchInv, StashInv
  <2> QED BY <2>1, <2>2, <2>5, <2>6 DEF StashInv
<1> QED BY <1>2, <1>3, <1>4, <1>5 DEF SwitchInv

\* setBridgeVlanPorts changes the lists of the sections it is given.
Lists(W) == DOMAIN W \subseteq Sections /\ \A i \in DOMAIN W : W[i] \in PortLists

LEMMA WriteIs ==
  ASSUME TypeInv, NEW W, Lists(W), SetBridgeVlanPorts(W), session' = session
  PROVE  /\ edit' \in [DOMAIN session.net -> Edits] /\ IsNet(crt') /\ DOMAIN crt' = DOMAIN crt
         /\ Sections' = Sections
         /\ \A i \in Sections :
              /\ Section(i)'.vid = Section(i).vid /\ Section(i)'.local = Section(i).local
              /\ Section(i)'.ports = IF i \in DOMAIN W THEN W[i] ELSE Section(i).ports
<1>1. \A i \in DOMAIN edit : /\ edit[i] \in Edits /\ session.net[i] \in BridgeVlan
  BY DEF TypeInv, IsNet
<1>2. ASSUME NEW i \in DOMAIN edit
      PROVE  /\ edit'[i] \in Edits /\ edit'[i].del = edit[i].del /\ edit'[i].local = edit[i].local
             /\ edit'[i].ports = IF i \in DOMAIN W THEN IF W[i] = session.net[i].ports THEN Keep ELSE W[i]
                                 ELSE edit[i].ports
  <2>1. PICK e \in Edits : e = edit[i]
    BY <1>1
  <2> DEFINE ps == IF W[i] = session.net[i].ports THEN Keep ELSE W[i]
  <2>2. i \in DOMAIN W => ps \in PortLists \cup {Keep}
    BY DEF Lists
  <2>3. edit'[i] = IF i \in DOMAIN W THEN [e EXCEPT !.ports = ps] ELSE e
    BY <2>1 DEF SetBridgeVlanPorts
  <2> HIDE DEF ps
  <2>4. edit'[i] \in Edits /\ edit'[i].del = e.del /\ edit'[i].local = e.local
        /\ edit'[i].ports = IF i \in DOMAIN W THEN ps ELSE e.ports
    BY <2>2, <2>3 DEF Edits
  <2> QED BY <2>1, <2>4 DEF ps
<1>3. ASSUME NEW j \in DOMAIN crt
      PROVE  /\ crt'[j] \in BridgeVlan /\ crt'[j].vid = crt[j].vid /\ crt'[j].local = crt[j].local
             /\ crt'[j].ports = IF j \in DOMAIN W THEN W[j] ELSE crt[j].ports
  <2>1. PICK s \in BridgeVlan : s = crt[j]
    BY DEF TypeInv, IsNet
  <2>2. crt'[j] = IF j \in DOMAIN W THEN [s EXCEPT !.ports = W[j]] ELSE s
    BY <2>1 DEF SetBridgeVlanPorts
  <2>3. j \in DOMAIN W => W[j] \in PortLists
    BY DEF Lists
  <2> QED BY <2>1, <2>2, <2>3 DEF BridgeVlan, PortLists
<1>4. /\ DOMAIN edit = DOMAIN session.net /\ DOMAIN edit' = DOMAIN edit /\ DOMAIN crt' = DOMAIN crt
      /\ edit' = [i \in DOMAIN edit |-> edit'[i]] /\ crt' = [j \in DOMAIN crt |-> crt'[j]]
  BY DEF SetBridgeVlanPorts, TypeInv
<1>5. edit' \in [DOMAIN session.net -> Edits]
  BY <1>2, <1>4
<1>6. IsNet(crt')
  BY <1>3, <1>4 DEF IsNet, TypeInv
<1>7. Sections' = Sections
  BY <1>2, <1>4 DEF Sections
<1>8. ASSUME NEW i \in Sections
      PROVE  /\ Section(i)'.vid = Section(i).vid /\ Section(i)'.local = Section(i).local
             /\ Section(i)'.ports = IF i \in DOMAIN W THEN W[i] ELSE Section(i).ports
  <2>1. CASE i \in DOMAIN edit
    <3>1. PICK s \in BridgeVlan : s = session.net[i]
      BY <1>1, <2>1
    <3>2. PICK e, f : e = edit[i] /\ f = edit'[i]
      OBVIOUS
    <3>3. Section(i) = [s EXCEPT !.ports = IF e.ports = Keep THEN s.ports ELSE e.ports,
                                 !.local = IF e.local = Keep THEN s.local ELSE e.local]
      BY <2>1, <3>1, <3>2 DEF Section, Edited
    <3>4. Section(i)' = [s EXCEPT !.ports = IF f.ports = Keep THEN s.ports ELSE f.ports,
                                  !.local = IF f.local = Keep THEN s.local ELSE f.local]
      BY <1>4, <2>1, <3>1, <3>2 DEF Section, Edited
    <3>5. f.local = e.local /\ f.ports = IF i \in DOMAIN W THEN IF W[i] = s.ports THEN Keep ELSE W[i] ELSE e.ports
      BY <1>2, <2>1, <3>1, <3>2
    <3>6. i \in DOMAIN W => W[i] # Keep
      BY StoredAssumption DEF Lists, PortLists
    <3> QED BY <3>1, <3>3, <3>4, <3>5, <3>6 DEF BridgeVlan
  <2>2. CASE i \notin DOMAIN edit
    <3>1. i \in DOMAIN crt /\ Section(i) = crt[i] /\ Section(i)' = crt'[i]
      BY <1>4, <2>2 DEF Section, Sections
    <3> QED BY <1>3, <3>1
  <2> QED BY <2>1, <2>2
<1> QED BY <1>4, <1>5, <1>6, <1>7, <1>8

\* The lists that W makes give the ports the roles of table u.
NewList(W, i) == IF i \in DOMAIN W THEN W[i] ELSE Net[i].ports
RolesTo(W, u) ==
  /\ SoundTable(u) /\ DOMAIN u = DOMAIN want
  /\ \A v \in DOMAIN u : u[v].local = want[v].local /\ u[v].label = want[v].label
  /\ \A i \in DOMAIN Net, p \in Ports :
       NewList(W, i)[p] \in Accepted /\ u[Net[i].vid].role[p] = RoleOf(NewList(W, i)[p])

LEMMA Rewrite ==
  ASSUME SwitchInv, Patient, page = "open", NEW W, Lists(W), NEW u, RolesTo(W, u),
         SetBridgeVlanPorts(W), Edit({"network"}, u), Refreshed(BridgeVlans),
         UNCHANGED <<lab, selection, modal>>
  PROVE  SwitchInv'
<1>1. TypeInv /\ TypeInv' /\ session' = session /\ "network" \in loaded
  <2>1. TypeInv /\ session' = session /\ "network" \in loaded
    BY DEF SwitchInv, Edit, Packages
  <2>2. edit' \in [DOMAIN session.net -> Edits] /\ IsNet(crt') /\ DOMAIN crt' = DOMAIN crt
    BY <2>1, WriteIs
  <2> QED BY <2>1, <2>2 DEF TypeInv, Edit
<1>2. /\ edit' \in [DOMAIN session.net -> Edits] /\ IsNet(crt') /\ DOMAIN crt' = DOMAIN crt
      /\ Sections' = Sections
      /\ \A i \in Sections :
              /\ Section(i)'.vid = Section(i).vid /\ Section(i)'.local = Section(i).local
              /\ Section(i)'.ports = IF i \in DOMAIN W THEN W[i] ELSE Section(i).ports
  BY <1>1, WriteIs
<1>3. IsNet(Net) /\ DOMAIN Net = Sections /\ \A i \in Sections : Net[i] = Section(i)
  BY <1>1, NetIs
<1>4. (IsNet(Net) /\ DOMAIN Net = Sections /\ \A i \in Sections : Net[i] = Section(i))'
  <2>1. (TypeInv => IsNet(Net) /\ DOMAIN Net = Sections /\ \A i \in Sections : Net[i] = Section(i))'
    BY NetIs, PTL
  <2> QED BY <1>1, <2>1
<1>5. PICK N : N = Net'
  OBVIOUS
<1>6. /\ DOMAIN N = DOMAIN Net
      /\ \A i \in DOMAIN Net : N[i].vid = Net[i].vid /\ N[i].local = Net[i].local /\ N[i].ports = NewList(W, i)
  <2>1. DOMAIN N = Sections /\ \A i \in Sections : N[i] = Section(i)'
    BY <1>2, <1>4, <1>5
  <2> QED BY <1>2, <1>3, <2>1 DEF NewList
<1>7. LabelsSaved' = LabelsSaved /\ LabPending' = LabPending
  BY <1>1 DEF LabelsSaved, LabPending
<1>8. Sound(Net) /\ Means(want, Net, LabelsSaved) /\ rows = DOMAIN want /\ DOMAIN want = VidsOf(Net)
  BY DEF SwitchInv, PageInv, Means
<1>9. VidsOf(N) = VidsOf(Net)
  BY <1>6 DEF VidsOf
<1>10. Means(u, N, LabelsSaved)
  <2>1. u \in [VidsOf(N) -> Table!Row]
    <3>1. PICK vs \in SUBSET Vids : u \in [vs -> Table!Row]
      BY DEF RolesTo, SoundTable, Tables
    <3>2. vs = VidsOf(N)
      BY <1>8, <1>9, <3>1 DEF RolesTo
    <3> QED BY <3>1, <3>2
  <2>2. ASSUME NEW i \in DOMAIN N
        PROVE  LET row == u[N[i].vid] IN
               /\ row.local = N[i].local /\ (row.label <=> N[i].vid \in LabelsSaved)
               /\ \A p \in Ports : row.role[p] = RoleOf(N[i].ports[p])
    <3>1. i \in DOMAIN Net /\ N[i].vid = Net[i].vid /\ N[i].local = Net[i].local /\ N[i].ports = NewList(W, i)
      BY <1>6, <2>2
    <3>2. Net[i].vid \in DOMAIN u
      BY <1>8, <3>1 DEF RolesTo, VidsOf
    <3>3. /\ want[Net[i].vid].local = Net[i].local
          /\ (want[Net[i].vid].label <=> Net[i].vid \in LabelsSaved)
      BY <1>8, <3>1 DEF Means
    <3>4. u[Net[i].vid].local = want[Net[i].vid].local /\ u[Net[i].vid].label = want[Net[i].vid].label
          /\ \A p \in Ports : u[Net[i].vid].role[p] = RoleOf(NewList(W, i)[p])
      BY <3>1, <3>2 DEF RolesTo
    <3> QED BY <3>1, <3>3, <3>4
  <2>3. LabelsSaved \subseteq VidsOf(N)
    BY <1>8, <1>9 DEF Means
  <2> QED BY <2>1, <2>2, <2>3 DEF Means
<1>11. BridgeVlans = DOMAIN u
  BY <1>1, <1>8, BridgeVlansAre DEF RolesTo
<1>12. EditMeans(u)
  <2>1. \A i, j \in DOMAIN N : N[i].vid = N[j].vid => i = j
    BY <1>6, <1>8 DEF Sound
  <2>2. \A i \in DOMAIN N, p \in Ports : N[i].ports[p] \in Accepted
    BY <1>6 DEF RolesTo
  <2> QED BY <1>5, <1>7, <1>10, <1>11, <2>1, <2>2 DEF EditMeans, RolesTo, Refreshed
<1>13. EditTypes
  BY <1>1, <1>2 DEF EditTypes, TypeInv
<1>14. EditKeeps({"network"})
  BY <1>7 DEF EditKeeps
<1> QED BY <1>12, <1>13, <1>14, EditIs DEF Packages

\* What a click on a row finds: the VLAN's section and the roles of the ports in it.
Clicked(vid) ==
  LET k == Find(vid) IN
  /\ IsNet(Net) /\ Sound(Net) /\ SoundTable(want) /\ DOMAIN want = VidsOf(Net)
  /\ k # 0 /\ k \in DOMAIN Net /\ DOMAIN Net = Sections
  /\ \A i \in Sections : Net[i] = Section(i)
  /\ \A i \in DOMAIN Net : Net[i].vid = vid <=> i = k
  /\ \A i \in DOMAIN Net : Net[i].vid \in DOMAIN want /\ Net[i].ports \in PortLists
  /\ \A i \in DOMAIN Net, p \in Ports :
       Net[i].ports[p] \in Accepted /\ want[Net[i].vid].role[p] = RoleOf(Net[i].ports[p])
  /\ \A p \in Ports : /\ Native(p) = vid <=> want[vid].role[p] = "u"
                      /\ vid \in TaggedOn(p) <=> want[vid].role[p] = "t"
                      /\ Untagged(Net[k].ports[p]) <=> want[vid].role[p] = "u"
                      /\ Tagged(Net[k].ports[p]) <=> want[vid].role[p] = "t"
                      /\ Net[k].ports[p] = "-" <=> want[vid].role[p] \notin {"t", "u"}
  /\ \A p \in Ports : Native(p) # None =>
       Find(Native(p)) \in DOMAIN Net /\ Net[Find(Native(p))].vid = Native(p)
  /\ \A i \in DOMAIN Net, p \in Ports : Untagged(Net[i].ports[p]) =>
       Native(p) = Net[i].vid /\ Find(Net[i].vid) = i /\ Net[i].vid # None
  /\ vid \in Vids /\ vid \in DOMAIN want /\ selection \subseteq Ports

LEMMA ClickIs ==
  ASSUME SwitchInv, page = "open", "network" \in loaded, NEW vid \in DOMAIN want
  PROVE  Clicked(vid)
<1>1. TypeInv /\ Sound(Net) /\ Means(want, Net, LabelsSaved) /\ DOMAIN want = VidsOf(Net)
  BY DEF SwitchInv, PageInv, Means
<1>2. SoundTable(want)
  BY <1>1, MeansSound
<1>3. IsNet(Net) /\ DOMAIN Net = Sections /\ \A i \in Sections : Net[i] = Section(i)
  BY <1>1, NetIs
<1>4. /\ Find(vid) # 0 /\ Find(vid) \in DOMAIN Net
      /\ \A i \in DOMAIN Net : Net[i].vid = vid <=> i = Find(vid)
  BY <1>1, FindIs
<1>5. \A i \in DOMAIN Net : Net[i].vid \in DOMAIN want /\ Net[i].ports \in PortLists
  BY <1>1, <1>3 DEF VidsOf, IsNet, BridgeVlan, PortLists
<1>6. \A i \in DOMAIN Net, p \in Ports :
        Net[i].ports[p] \in Accepted /\ want[Net[i].vid].role[p] = RoleOf(Net[i].ports[p])
  BY <1>1 DEF Sound, Means
<1>7. ASSUME NEW p \in Ports
      PROVE  /\ Native(p) = vid <=> want[vid].role[p] = "u"
             /\ vid \in TaggedOn(p) <=> want[vid].role[p] = "t"
             /\ Untagged(Net[Find(vid)].ports[p]) <=> want[vid].role[p] = "u"
             /\ Tagged(Net[Find(vid)].ports[p]) <=> want[vid].role[p] = "t"
             /\ Net[Find(vid)].ports[p] = "-" <=> want[vid].role[p] \notin {"t", "u"}
  <2>1. /\ Native(p) = vid <=> Untagged(Net[Find(vid)].ports[p])
        /\ vid \in TaggedOn(p) <=> Tagged(Net[Find(vid)].ports[p])
    BY <1>1, CarriesIs
  <2>2. PICK s \in Accepted : s = Net[Find(vid)].ports[p] /\ want[vid].role[p] = RoleOf(s)
    BY <1>4, <1>6
  <2>3. /\ Untagged(s) <=> RoleOf(s) = "u"
        /\ Tagged(s) <=> RoleOf(s) = "t"
        /\ s = "-" <=> RoleOf(s) \notin {"t", "u"}
    BY AcceptedFlags
  <2> QED BY <2>1, <2>2, <2>3
<1>8. vid \in Vids
  BY <1>1 DEF Sound, VidsOf
<1>9. ASSUME NEW p \in Ports, Native(p) # None
      PROVE  Find(Native(p)) \in DOMAIN Net /\ Net[Find(Native(p))].vid = Native(p)
  <2>1. PICK w \in VidsOf(Net) : w = Native(p)
    BY <1>1, <1>9, CarriesIs
  <2> QED BY <1>1, <2>1, FindIs
<1>10. ASSUME NEW i \in DOMAIN Net, NEW p \in Ports, Untagged(Net[i].ports[p])
      PROVE  Native(p) = Net[i].vid /\ Find(Net[i].vid) = i /\ Net[i].vid # None
  <2>1. PICK w \in VidsOf(Net) : w = Net[i].vid
    BY DEF VidsOf
  <2>2. Find(w) = i
    BY <1>1, <2>1, FindIs
  <2>3. Native(p) = w
    BY <1>1, <1>10, <2>2, CarriesIs
  <2>4. w # None
    BY <1>1, <2>1, SwitchVlanAssumption DEF Sound, None, MIN_VLAN_ID, MAX_VLAN_ID
  <2> QED BY <2>1, <2>2, <2>3, <2>4
<1> QED BY <1>1, <1>2, <1>3, <1>4, <1>5, <1>6, <1>7, <1>8, <1>9, <1>10 DEF Clicked, SwitchInv, TypeInv

\* One role of some ports in one section.
LEMMA ChangeIs ==
  ASSUME NEW vid, Clicked(vid), NEW ps \in SUBSET Ports, NEW s \in {"-", "t", ""}, NEW u,
         SoundTable(u), Reroled(want, u, OneRole(want, vid, ps, RoleOf(s)))
  PROVE  Lists(Change(Find(vid), ps, s)) /\ RolesTo(Change(Find(vid), ps, s), u)
<1>1. PICK k : k = Find(vid)
  OBVIOUS
<1> DEFINE W == Change(k, ps, s)
<1>2. /\ k # 0 /\ k \in DOMAIN Net /\ DOMAIN Net = Sections
      /\ \A i \in Sections : Net[i] = Section(i)
      /\ \A i \in DOMAIN Net : Net[i].vid = vid <=> i = k
      /\ \A i \in DOMAIN Net : Net[i].vid \in DOMAIN want /\ Net[i].ports \in PortLists
      /\ \A i \in DOMAIN Net, p \in Ports :
           Net[i].ports[p] \in Accepted /\ want[Net[i].vid].role[p] = RoleOf(Net[i].ports[p])
  BY <1>1 DEF Clicked
<1>3. s \in Accepted /\ s \in Flags
  BY NewFlags
<1>4. ASSUME NEW p \in Ports
      PROVE  /\ Written(Net[k].ports[p]) \in Accepted /\ Written(Net[k].ports[p]) \in Flags
             /\ RoleOf(Written(Net[k].ports[p])) = RoleOf(Net[k].ports[p])
  BY <1>2, AcceptedFlags
<1>5. CASE ps = {}
  <2>0. W = <<>>
    BY <1>5 DEF Change
  <2>1. DOMAIN W = {}
    <3> HIDE DEF W
    <3> QED BY <2>0, EmptyTable
  <2>2. Lists(W)
    BY <2>1 DEF Lists
  <2>3. \A i \in DOMAIN Net : NewList(W, i) = Net[i].ports
    BY <2>1 DEF NewList
  <2>4. ASSUME NEW i \in DOMAIN Net, NEW p \in Ports
        PROVE  NewList(W, i)[p] \in Accepted /\ u[Net[i].vid].role[p] = RoleOf(NewList(W, i)[p])
    <3>1. PICK v \in DOMAIN want : v = Net[i].vid
      BY <1>2
    <3>2. u[v].role[p] = want[v].role[p]
      BY <1>5 DEF Reroled, OneRole
    <3> QED BY <1>2, <2>3, <3>1, <3>2
  <2> HIDE DEF W
  <2>5. RolesTo(W, u)
    BY <2>4 DEF RolesTo, Reroled
  <2> QED BY <1>1, <2>2, <2>5 DEF W
<1>6. CASE ps # {}
  <2> DEFINE R == Rewritten(k, ps, s)
  <2>1. W = [j \in {k} |-> R]
    BY <1>2, <1>6 DEF Change
  <2>2. R = [p \in Ports |-> IF p \in ps THEN s ELSE Written(Net[k].ports[p])]
    BY <1>2 DEF Rewritten
  <2> HIDE DEF R, W
  <2>3. R \in PortLists
    BY <1>3, <1>4, <2>2 DEF PortLists
  <2>4. Lists(W)
    BY <1>2, <2>1, <2>3 DEF Lists
  <2>5. \A i \in DOMAIN Net : NewList(W, i) = IF i = k THEN R ELSE Net[i].ports
    BY <2>1 DEF NewList
  <2>6. ASSUME NEW i \in DOMAIN Net, NEW p \in Ports
        PROVE  NewList(W, i)[p] \in Accepted /\ u[Net[i].vid].role[p] = RoleOf(NewList(W, i)[p])
    <3>1. u[Net[i].vid].role[p] = IF i = k /\ p \in ps THEN RoleOf(s) ELSE RoleOf(Net[i].ports[p])
      <4>1. PICK v \in DOMAIN want : v = Net[i].vid
        BY <1>2
      <4>2. u[v].role[p] = IF v = vid /\ p \in ps THEN RoleOf(s) ELSE want[v].role[p]
        BY DEF Reroled, OneRole
      <4> QED BY <1>2, <4>1, <4>2
    <3>2. CASE i = k
      <4>1. NewList(W, i)[p] = IF p \in ps THEN s ELSE Written(Net[k].ports[p])
        BY <2>2, <2>5, <3>2
      <4> QED BY <1>3, <1>4, <3>1, <3>2, <4>1
    <3>3. CASE i # k
      BY <1>2, <2>5, <3>1, <3>3
    <3> QED BY <3>2, <3>3
  <2>7. RolesTo(W, u)
    BY <2>6 DEF RolesTo, Reroled
  <2> QED BY <1>1, <2>4, <2>7 DEF W
<1> QED BY <1>5, <1>6

\* The button tells whether one of the selected ports has the role.
LEMMA StateIs ==
  ASSUME NEW vid, Clicked(vid), NEW role \in {"t", "u"}, IsFiniteSet(Ports)
  PROVE  /\ \A p \in selection : Carries(p, vid, role) <=> want[vid].role[p] = role
         /\ RoleState(vid, role) = "unchecked" <=> Table!Having(want, selection, vid, role) = {}
         /\ Conflicts(vid, role) = Table!Having(want, selection, vid, IF role = "t" THEN "u" ELSE "t")
<1>1. \A p \in selection : Carries(p, vid, role) <=> want[vid].role[p] = role
  BY DEF Carries, Clicked
<1> DEFINE on == {p \in selection : Carries(p, vid, role)}
<1>2. on = Table!Having(want, selection, vid, role)
  BY <1>1 DEF Table!Having
<1>3. IsFiniteSet(on)
  BY FS_Subset DEF Clicked
<1>4. RoleState(vid, role) = "unchecked" <=> Cardinality(on) = 0
  BY DEF RoleState
<1>5. Cardinality(on) = 0 <=> on = {}
  <2> HIDE DEF on
  <2> QED BY <1>3, FS_EmptySet
<1>6. Conflicts(vid, role) = Table!Having(want, selection, vid, IF role = "t" THEN "u" ELSE "t")
  BY DEF Conflicts, Table!Having, Clicked
<1> HIDE DEF on
<1> QED BY <1>1, <1>2, <1>4, <1>5, <1>6

\* What leaves the copy alone leaves what it says.
LEMMA CopyStill ==
  /\ UNCHANGED <<session, edit, crt>> => Net' = Net /\ NetPending' = NetPending
  /\ UNCHANGED <<session, lab>> => LabelsSaved' = LabelsSaved /\ LabPending' = LabPending
<1>1. ASSUME UNCHANGED <<session, edit, crt>>
      PROVE  Net' = Net /\ NetPending' = NetPending
  BY <1>1 DEF Net, NetPending, Sections, Section, Edited
<1>2. ASSUME UNCHANGED <<session, lab>>
      PROVE  LabelsSaved' = LabelsSaved /\ LabPending' = LabPending
  BY <1>2 DEF LabelsSaved, LabPending
<1> QED BY <1>1, <1>2

\* A selection and a dialog are no edit.
LEMMA Still ==
  ASSUME SwitchInv, UNCHANGED <<session, copy, page, vlans, rows, chain, history, failed>>,
         selection' \subseteq Ports, modal' \in Vids \cup {None}, page = "blocked" => modal' = None
  PROVE  SwitchInv' /\ want' = want
<1>1. /\ UNCHANGED <<session, loaded, edit, crt, lab, page, vlans, rows, queue, phase, sent, flying, edits, want, failed>>
      /\ TypeInv /\ BlockedInv /\ PageInv /\ StashInv
  BY DEF copy, chain, history, SwitchInv
<1>2. Net' = Net /\ NetPending' = NetPending /\ LabelsSaved' = LabelsSaved /\ LabPending' = LabPending
  BY <1>1, CopyStill
<1>3. TypeInv'
  BY <1>1 DEF TypeInv
<1>4. BlockedInv'
  BY <1>1 DEF BlockedInv
<1>5. PageInv'
  BY <1>1, <1>2 DEF PageInv
<1>6. StashInv'
  BY <1>1, <1>2 DEF StashInv
<1> QED BY <1>1, <1>3, <1>4, <1>5, <1>6 DEF SwitchInv

\* The native VLAN of the selected ports moves.
LEMMA MoveIs ==
  ASSUME NEW vid, Clicked(vid), NEW u, SoundTable(u), Reroled(want, u, Moved(want, selection, vid)),
         Table!Having(want, selection, vid, "u") = {}, Table!Having(want, selection, vid, "t") = {}
  PROVE  Lists(AddUntagged(vid)) /\ RolesTo(AddUntagged(vid), u)
<1>1. PICK k : k = Find(vid)
  OBVIOUS
<1>2. /\ k # 0 /\ k \in DOMAIN Net /\ DOMAIN Net = Sections
      /\ \A i \in Sections : Net[i] = Section(i)
      /\ \A i \in DOMAIN Net : Net[i].vid = vid <=> i = k
      /\ \A i \in DOMAIN Net : Net[i].vid \in DOMAIN want /\ Net[i].ports \in PortLists
      /\ \A i \in DOMAIN Net, p \in Ports :
           Net[i].ports[p] \in Accepted /\ want[Net[i].vid].role[p] = RoleOf(Net[i].ports[p])
      /\ selection \subseteq Ports
  BY <1>1 DEF Clicked
<1> DEFINE old == {Find(w) : w \in OldNatives(vid)} \ {0}
           Out(i) == [p \in Ports |->
                       IF p \in selection /\ ~(Tagged(Section(i).ports[p]) /\ ~Untagged(Section(i).ports[p]))
                       THEN "-" ELSE Section(i).ports[p]]
           left == {i \in old : Out(i) # Section(i).ports}
           into == Change(k, {p \in selection : k # 0 /\ ~Untagged(Section(k).ports[p])}, "")
           W == [j \in left \cup DOMAIN into |-> IF j \in DOMAIN into THEN into[j] ELSE Out(j)]
<1>3. AddUntagged(vid) = W
  BY <1>1 DEF AddUntagged
<1>4. \A p \in selection : want[vid].role[p] \notin {"u", "t"}
  BY DEF Table!Having
<1>5. {p \in selection : k # 0 /\ ~Untagged(Section(k).ports[p])} = selection
  BY <1>1, <1>2, <1>4 DEF Clicked
<1>6. old \subseteq Sections /\ k \notin old
  <2>1. ASSUME NEW w \in OldNatives(vid) PROVE Find(w) \in Sections \cup {0} /\ Find(w) # k
    <3>1. PICK p \in selection : w = Native(p) /\ w # None /\ w # vid
      BY DEF OldNatives
    <3>2. Find(w) \in DOMAIN Net /\ Net[Find(w)].vid = w
      BY <1>2, <3>1 DEF Clicked
    <3> QED BY <1>2, <3>1, <3>2
  <2> QED BY <2>1
<1>7. CASE selection = {}
  <2>1. OldNatives(vid) = {}
    BY <1>7 DEF OldNatives
  <2>2. into = <<>>
    BY <1>5, <1>7 DEF Change
  <2>3. DOMAIN into = {}
    <3> HIDE DEF into
    <3> QED BY <2>2, EmptyTable
  <2>4. DOMAIN W = {}
    <3> HIDE DEF into
    <3> QED BY <2>1, <2>3
  <2> HIDE DEF W
  <2>5. Lists(W)
    BY <2>4 DEF Lists
  <2>6. ASSUME NEW i \in DOMAIN Net, NEW p \in Ports
        PROVE  NewList(W, i)[p] \in Accepted /\ u[Net[i].vid].role[p] = RoleOf(NewList(W, i)[p])
    <3>1. PICK v \in DOMAIN want : v = Net[i].vid
      BY <1>2
    <3>2. u[v].role[p] = want[v].role[p]
      BY <1>7 DEF Reroled, Moved
    <3> QED BY <1>2, <2>4, <3>1, <3>2 DEF NewList
  <2>7. RolesTo(W, u)
    BY <2>6 DEF RolesTo, Reroled
  <2> QED BY <1>3, <2>5, <2>7
<1>8. CASE selection # {}
  <2> DEFINE R == Rewritten(k, selection, "")
  <2>1. into = [j \in {k} |-> R]
    BY <1>2, <1>5, <1>8 DEF Change
  <2>2. R = [p \in Ports |-> IF p \in selection THEN "" ELSE Written(Net[k].ports[p])]
    BY <1>2 DEF Rewritten
  <2>3. W = [j \in left \cup {k} |-> IF j = k THEN R ELSE Out(j)]
    <3> HIDE DEF into, R, left
    <3> QED BY <2>1
  <2> HIDE DEF R, W, into
  <2>4. ASSUME NEW p \in Ports
        PROVE  /\ R[p] \in Accepted /\ R[p] \in Flags
               /\ RoleOf(R[p]) = IF p \in selection THEN "u" ELSE RoleOf(Net[k].ports[p])
    BY <1>2, <2>2, AcceptedFlags, NewFlags
  <2>5. ASSUME NEW i \in Sections, NEW p \in Ports
        PROVE  /\ Out(i)[p] \in Accepted /\ Out(i)[p] \in Flags
               /\ RoleOf(Out(i)[p]) = IF p \in selection /\ RoleOf(Net[i].ports[p]) = "u" THEN "-"
                                      ELSE RoleOf(Net[i].ports[p])
    <3>1. PICK s \in Accepted : s = Section(i).ports[p] /\ s = Net[i].ports[p]
      BY <1>2
    <3>2. Out(i)[p] = IF p \in selection /\ ~(Tagged(s) /\ ~Untagged(s)) THEN "-" ELSE s
      BY <3>1
    <3> HIDE DEF Out
    <3> QED BY <3>1, <3>2, AcceptedFlags, NewFlags DEF Accepted, Tagged, Untagged, RoleOf
  <2>6. \A i \in Sections : Out(i) \in PortLists
    BY <2>5 DEF PortLists
  <2>7. R \in PortLists
    <3>1. R = [p \in Ports |-> R[p]]
      BY <2>2
    <3> QED BY <2>4, <3>1 DEF PortLists
  <2>8. ASSUME NEW i \in Sections, i # k, i \notin left
        PROVE  \A p \in Ports : RoleOf(Net[i].ports[p]) =
                 IF p \in selection /\ RoleOf(Net[i].ports[p]) = "u" THEN "-" ELSE RoleOf(Net[i].ports[p])
    <3>1. CASE i \in old
      <4>1. Out(i) = Net[i].ports
        BY <1>2, <2>8, <3>1
      <4> HIDE DEF Out
      <4> QED BY <2>5, <4>1
    <3>2. CASE i \notin old
      <4> SUFFICES ASSUME NEW p \in selection, RoleOf(Net[i].ports[p]) = "u" PROVE FALSE
        OBVIOUS
      <4>1. p \in Ports /\ Untagged(Net[i].ports[p])
        BY <1>2, AcceptedFlags
      <4>2. Native(p) = Net[i].vid /\ Find(Native(p)) = i /\ Native(p) # None
        BY <1>2, <4>1 DEF Clicked
      <4>3. Native(p) # vid /\ i # 0
        BY <1>2, <2>8, <4>2 DEF Clicked, IsNet
      <4>4. Native(p) \in OldNatives(vid)
        BY <4>2, <4>3 DEF OldNatives
      <4> QED BY <3>2, <4>2, <4>3, <4>4
    <3> QED BY <3>1, <3>2
  <2>9. left \subseteq Sections /\ k \notin left
    BY <1>6
  <2> HIDE DEF Out, left
  <2>10. Lists(W)
    BY <1>2, <2>3, <2>6, <2>7, <2>9 DEF Lists
  <2>11. \A i \in DOMAIN Net : NewList(W, i) = IF i = k THEN R ELSE IF i \in left THEN Out(i) ELSE Net[i].ports
    BY <2>3 DEF NewList
  <2>12. ASSUME NEW i \in DOMAIN Net, NEW p \in Ports
        PROVE  NewList(W, i)[p] \in Accepted /\ u[Net[i].vid].role[p] = RoleOf(NewList(W, i)[p])
    <3>1. PICK v \in DOMAIN want : v = Net[i].vid
      BY <1>2
    <3>2. u[v].role[p] = IF p \in selection /\ v = vid THEN "u"
                         ELSE IF p \in selection /\ want[v].role[p] = "u" THEN "-" ELSE want[v].role[p]
      BY DEF Reroled, Moved
    <3>3. u[v].role[p] = IF p \in selection /\ i = k THEN "u"
                         ELSE IF p \in selection /\ RoleOf(Net[i].ports[p]) = "u" THEN "-"
                         ELSE RoleOf(Net[i].ports[p])
      BY <1>2, <3>1, <3>2
    <3>4. CASE i = k
      <4>1. p \in selection \/ RoleOf(Net[k].ports[p]) = want[vid].role[p]
        BY <1>2, <3>4
      <4>2. u[v].role[p] = IF p \in selection THEN "u" ELSE RoleOf(Net[k].ports[p])
        BY <3>3, <3>4
      <4> QED BY <2>4, <2>11, <3>1, <3>4, <4>2
    <3>5. CASE i # k /\ i \in left
      BY <1>2, <2>5, <2>11, <3>1, <3>3, <3>5
    <3>6. CASE i # k /\ i \notin left
      BY <1>2, <2>8, <2>11, <3>1, <3>3, <3>6
    <3> QED BY <3>4, <3>5, <3>6
  <2>13. RolesTo(W, u)
    BY <2>12 DEF RolesTo, Reroled
  <2> QED BY <1>3, <2>10, <2>13 DEF W
<1> QED BY <1>7, <1>8

\* The click: what the page writes is what the table is to say.
LEMMA AssignWrites ==
  ASSUME NEW vid, Clicked(vid), NEW role \in {"t", "u"}, IsFiniteSet(Ports),
         ~(RoleState(vid, role) = "unchecked" /\ Conflicts(vid, role) # {}),
         NEW W, W = IF RoleState(vid, role) = "unchecked"
                    THEN IF role = "t" THEN AddTagged(vid) ELSE AddUntagged(vid)
                    ELSE IF role = "t" THEN RemoveTagged(vid) ELSE RemoveUntagged(vid)
  PROVE  /\ Lists(W) /\ RolesTo(W, Table!AfterAssign(want, selection, vid, role))
         /\ Table!AfterAssign(want, selection, vid, role) \in Table!Changed(want)
<1> DEFINE u == Table!AfterAssign(want, selection, vid, role)
           has(r) == Table!Having(want, selection, vid, r)
<1>1. PICK k : k = Find(vid)
  OBVIOUS
<1>2. /\ k # 0 /\ k \in DOMAIN Net /\ DOMAIN Net = Sections
      /\ \A i \in Sections : Net[i] = Section(i)
      /\ selection \subseteq Ports /\ vid \in DOMAIN want /\ SoundTable(want)
      /\ \A p \in Ports :
           /\ Untagged(Net[k].ports[p]) <=> want[vid].role[p] = "u"
           /\ Tagged(Net[k].ports[p]) <=> want[vid].role[p] = "t"
           /\ Net[k].ports[p] = "-" <=> want[vid].role[p] \notin {"t", "u"}
  BY <1>1 DEF Clicked
<1>3. /\ RoleState(vid, role) = "unchecked" <=> has(role) = {}
      /\ Conflicts(vid, role) = has(IF role = "t" THEN "u" ELSE "t")
  BY StateIs
<1>4. u \in Table!Changed(want)
  BY <1>2 DEF Table!Changed
<1>5. SoundTable(u)
  BY <1>2, TaggedIsSound, UntaggedIsSound DEF Table!AfterAssign
<1>6. want \in Tables
  BY <1>2 DEF SoundTable
<1>7. ASSUME NEW ps \in SUBSET Ports, NEW s \in {"-", "t"}, u = Table!SetRole(want, vid, ps, s),
             W = Change(k, ps, s)
      PROVE  Lists(W) /\ RolesTo(W, u)
  <2>1. Reroled(want, u, OneRole(want, vid, ps, RoleOf(s)))
    BY <1>2, <1>6, <1>7, SetRoleSteps, NewFlags
  <2> HIDE DEF u
  <2> QED BY <1>1, <1>5, <1>7, <2>1, ChangeIs
<1>8. CASE role = "t" /\ has("t") = {}
  <2>1. has("u") = {} /\ u = Table!SetRole(want, vid, selection, "t")
    BY <1>3, <1>8 DEF Table!AfterAssign, Table!AfterTagged
  <2>2. \A p \in selection : want[vid].role[p] \notin {"t", "u"}
    BY <1>8, <2>1 DEF Table!Having
  <2>3. {p \in selection : k # 0 /\ (Section(k).ports[p] = "-" \/
            (~Tagged(Section(k).ports[p]) /\ Untagged(Section(k).ports[p])))} = selection
    BY <1>2, <2>2
  <2>4. W = Change(k, selection, "t")
    BY <1>1, <1>3, <1>8, <2>3 DEF AddTagged
  <2> QED BY <1>2, <1>4, <1>7, <2>1, <2>4
<1>9. CASE role = "t" /\ has("t") # {}
  <2>1. u = Table!SetRole(want, vid, has("t"), "-")
    BY <1>9 DEF Table!AfterAssign, Table!AfterTagged
  <2>2. {p \in selection : k # 0 /\ Tagged(Section(k).ports[p])} = has("t")
    BY <1>2 DEF Table!Having
  <2>3. W = Change(k, has("t"), "-")
    BY <1>1, <1>3, <1>9, <2>2 DEF RemoveTagged
  <2>4. has("t") \in SUBSET Ports
    BY <1>2 DEF Table!Having
  <2> QED BY <1>4, <1>7, <2>1, <2>3, <2>4
<1>10. CASE role = "u" /\ has("u") # {}
  <2>1. u = Table!SetRole(want, vid, has("u"), "-")
    BY <1>10 DEF Table!AfterAssign, Table!AfterUntagged
  <2>2. {p \in selection : k # 0 /\ Untagged(Section(k).ports[p])} = has("u")
    BY <1>2 DEF Table!Having
  <2>3. W = Change(k, has("u"), "-")
    BY <1>1, <1>3, <1>10, <2>2 DEF RemoveUntagged
  <2>4. has("u") \in SUBSET Ports
    BY <1>2 DEF Table!Having
  <2> QED BY <1>4, <1>7, <2>1, <2>3, <2>4
<1>11. CASE role = "u" /\ has("u") = {}
  <2>1. has("t") = {} /\ u = Table!AfterUntagged(want, selection, vid)
    BY <1>3, <1>11 DEF Table!AfterAssign
  <2>2. W = AddUntagged(vid)
    BY <1>3, <1>11
  <2>3. Reroled(want, u, Moved(want, selection, vid))
    BY <1>6, <1>11, <2>1, MoveSteps
  <2> HIDE DEF u
  <2>4. Lists(W) /\ RolesTo(W, u)
    BY <1>5, <1>11, <2>1, <2>2, <2>3, MoveIs
  <2> QED BY <1>4, <2>4 DEF u
<1> QED BY <1>8, <1>9, <1>10, <1>11

\* One action of the table, or none.
Steps(t, u) == u = t \/ u \in Table!Changed(t)

LEMMA AssignIs ==
  ASSUME SwitchInv, Patient, NEW vid, NEW role \in {"t", "u"}, Assign(vid, role)
  PROVE  SwitchInv' /\ page' = page /\ Steps(want, want')
<1>1. page = "open" /\ vid \in DOMAIN want
  BY DEF Assign, Reach, SwitchInv, PageInv
<1>2. CASE RoleState(vid, role) = "unchecked" /\ Conflicts(vid, role) # {}
  <2>1. UNCHANGED <<session, copy, screen, chain, history, faults, failed>>
    BY <1>2 DEF Assign
  <2>2. UNCHANGED <<session, copy, page, vlans, rows, chain, history, failed>>
        /\ selection' = selection /\ modal' = modal
    BY <2>1 DEF screen
  <2>3. selection' \subseteq Ports /\ modal' \in Vids \cup {None}
    BY <2>2 DEF SwitchInv, TypeInv
  <2> QED BY <1>1, <2>2, <2>3, Still DEF Steps
<1>3. CASE ~(RoleState(vid, role) = "unchecked" /\ Conflicts(vid, role) # {})
  <2>1. PICK W : W = IF RoleState(vid, role) = "unchecked"
                     THEN IF role = "t" THEN AddTagged(vid) ELSE AddUntagged(vid)
                     ELSE IF role = "t" THEN RemoveTagged(vid) ELSE RemoveUntagged(vid)
    OBVIOUS
  <2>2. PICK u : u = Table!AfterAssign(want, selection, vid, role)
    OBVIOUS
  <2>3. /\ SetBridgeVlanPorts(W) /\ Refreshed(BridgeVlans) /\ Edit({"network"}, u)
        /\ UNCHANGED <<lab, selection, modal>>
    BY <1>1, <1>3, <2>1, <2>2 DEF Assign
  <2>4. "network" \in loaded /\ page' = page /\ want' = u
    BY <2>3 DEF Edit, Packages
  <2>5. Clicked(vid)
    BY <1>1, <2>4, ClickIs
  <2>6. Lists(W) /\ RolesTo(W, u) /\ u \in Table!Changed(want)
    BY <1>3, <2>1, <2>2, <2>5, AssignWrites, SwitchVlanAssumption
  <2>7. SwitchInv'
    BY <1>1, <2>3, <2>6, Rewrite
  <2> QED BY <2>4, <2>6, <2>7 DEF Steps
<1> QED BY <1>2, <1>3

LEMMA MaxIs ==
  ASSUME NEW S, IsFiniteSet(S), S \subseteq Nat, 0 \in S
  PROVE  Max(S) \in S /\ \A y \in S : y <= Max(S)
<1>1. PICK seq \in Seq(S) : \A y \in S : \E n \in 1..Len(seq) : seq[n] = y
  BY DEF IsFiniteSet
<1> DEFINE B == {n \in 0..Len(seq) : \E m \in Nat : \A i \in 1..n : seq[i] <= m}
           T == {m \in Nat : \A y \in S : y <= m}
<1>2. Len(seq) \in Nat /\ \A i \in 1..Len(seq) : seq[i] \in Nat
  <2>1. Len(seq) \in Nat
    OBVIOUS
  <2>2. \A i \in 1..Len(seq) : seq[i] \in S
    OBVIOUS
  <2> QED BY <2>1, <2>2
<1>3. 0 \in B
  BY <1>2
<1>4. ASSUME NEW n \in 1..Len(seq), n - 1 \in B PROVE n \in B
  <2>1. PICK m \in Nat : \A i \in 1..(n - 1) : seq[i] <= m
    BY <1>4
  <2>2. PICK l \in Nat : seq[n] <= l /\ m <= l
    <3>1. CASE seq[n] <= m
      BY <3>1
    <3>2. CASE ~(seq[n] <= m)
      BY <1>2, <3>2
    <3> QED BY <3>1, <3>2
  <2>3. ASSUME NEW i \in 1..n PROVE seq[i] <= l
    <3>1. CASE i = n
      BY <2>2, <3>1
    <3>2. CASE i # n
      BY <1>2, <2>1, <2>2, <3>2
    <3> QED BY <3>1, <3>2
  <2>4. n \in 0..Len(seq)
    BY <1>2
  <2> QED BY <2>2, <2>3, <2>4
<1>5. Len(seq) \in B
  <2> HIDE DEF B
  <2>1. 0..Len(seq) \subseteq B
    BY <1>2, <1>3, <1>4, UpTo
  <2> QED BY <1>2, <2>1
<1>6. T # {}
  BY <1>1, <1>5
<1>7. PICK x \in T : \A m \in T : x <= m
  <2>1. T \subseteq Nat
    OBVIOUS
  <2> HIDE DEF T
  <2> QED BY <1>6, <2>1, NatMin
<1>8. x \in S
  <2>1. CASE x = 0
    BY <2>1
  <2>2. CASE x # 0
    <3>1. x - 1 \in Nat /\ x - 1 \notin T
      BY <1>7, <2>2
    <3>2. PICK y \in S : ~(y <= x - 1)
      BY <3>1
    <3>3. y <= x /\ y \in Nat
      BY <1>7
    <3> QED BY <2>2, <3>1, <3>2, <3>3
  <2> QED BY <2>1, <2>2
<1>9. \E m \in S : \A y \in S : m >= y
  BY <1>7, <1>8
<1>10. Max(S) \in S /\ \A y \in S : Max(S) >= y
  BY <1>9 DEF Max
<1> QED BY <1>10

\* The section an added VLAN gets is a new one.
LEMMA LastIs ==
  ASSUME TypeInv
  PROVE  Last + 1 \in Nat \ {0} /\ Last + 1 \notin DOMAIN edit \cup DOMAIN crt
<1> DEFINE S == {0} \cup DOMAIN edit \cup DOMAIN crt
<1>1. DOMAIN edit = DOMAIN session.net
  BY DEF TypeInv
<1>2. S \subseteq Nat /\ 0 \in S
  BY <1>1 DEF TypeInv, IsNet
<1>3. IsFiniteSet(S)
  <2>1. IsFiniteSet(DOMAIN edit) /\ IsFiniteSet(DOMAIN crt) /\ IsFiniteSet({0})
    BY <1>1, FS_Singleton DEF TypeInv, IsNet
  <2> QED BY <2>1, FS_Union
<1>4. Last = Max(S)
  BY DEF Last
<1> HIDE DEF S
<1>5. Max(S) \in S /\ \A y \in S : y <= Max(S)
  BY <1>2, <1>3, MaxIs
<1>6. PICK m \in Nat : m = Last /\ \A y \in S : y <= m
  BY <1>2, <1>4, <1>5
<1>7. m + 1 \in Nat \ {0} /\ m + 1 \notin S
  BY <1>6
<1> QED BY <1>6, <1>7 DEF S

\* writeVlanLabel
LEMMA LabelWritten ==
  ASSUME TypeInv, "luci" \in loaded, session' = session, NEW v \in Vids, NEW b \in BOOLEAN,
         WriteVlanLabel(v, b)
  PROVE  /\ lab' \in [Vids -> Labels]
         /\ LabelsSaved' = IF b THEN LabelsSaved \cup {v} ELSE LabelsSaved \ {v}
<1>1. Keep \notin {"set", "unset"} /\ session.luci \subseteq Vids
  BY StoredAssumption DEF TypeInv
<1>2. lab \in [Vids -> Labels]
  BY DEF TypeInv
<1>3. lab' = [lab EXCEPT ![v] = IF b THEN "set" ELSE IF v \in session.luci THEN "unset" ELSE Keep]
  BY DEF WriteVlanLabel
<1>4. lab' \in [Vids -> Labels]
  BY <1>2, <1>3 DEF Labels
<1>5. LabelsSaved = {w \in Vids : IF lab[w] = Keep THEN w \in session.luci ELSE lab[w] = "set"}
      /\ LabelsSaved' = {w \in Vids : IF lab'[w] = Keep THEN w \in session.luci ELSE lab'[w] = "set"}
  BY DEF LabelsSaved
<1>6. \A w \in Vids : lab'[w] = IF w = v THEN IF b THEN "set" ELSE IF v \in session.luci THEN "unset" ELSE Keep
                               ELSE lab[w]
  BY <1>2, <1>3
<1> QED BY <1>1, <1>4, <1>5, <1>6

\* The copy after an edit.
LEMMA NetAfter ==
  ASSUME TypeInv, NEW touched, NEW u, Edit(touched, u), EditTypes
  PROVE  (IsNet(Net) /\ DOMAIN Net = Sections /\ \A i \in Sections : Net[i] = Section(i))'
<1>1. TypeInv'
  BY DEF TypeInv, Edit, EditTypes
<1>2. (TypeInv => IsNet(Net) /\ DOMAIN Net = Sections /\ \A i \in Sections : Net[i] = Section(i))'
  BY NetIs, PTL
<1> QED BY <1>1, <1>2

LEMMA AddIs ==
  ASSUME SwitchInv, Patient, NEW t \in Typed, Add(t.vid, t.local, t.label)
  PROVE  SwitchInv' /\ page' = page /\ Steps(want, want')
<1>1. PICK v, lo, la : v = t.vid /\ lo = t.local /\ la = t.label
  OBVIOUS
<1>2. v \in Vids /\ lo \in BOOLEAN /\ la \in BOOLEAN
  BY <1>1, StoredAssumption DEF Add
<1>3. PICK touched : touched = {"network"} \cup (IF la THEN {"luci"} ELSE {})
  OBVIOUS
<1>4. PICK u : u = Table!AfterAdd(want, v, lo, la)
  OBVIOUS
<1>5. /\ page = "open" /\ v \notin vlans /\ Edit(touched, u)
      /\ crt' = [i \in DOMAIN crt \cup {Last + 1} |->
                  IF i = Last + 1 THEN [vid |-> v, local |-> lo, ports |-> [p \in Ports |-> "-"]] ELSE crt[i]]
      /\ IF la THEN WriteVlanLabel(v, TRUE) ELSE UNCHANGED lab
      /\ Refreshed(IF "network" \in loaded THEN BridgeVlans \cup {v} ELSE {})
      /\ UNCHANGED <<edit, selection, modal>>
  BY <1>1, <1>3, <1>4 DEF Add, Reach
<1>6. /\ touched \cap (sent \cup (Packages \ loaded)) = {} /\ want' = u
      /\ session' = session /\ loaded' = loaded /\ sent' = sent /\ page' = page
  BY <1>5 DEF Edit
<1>7. "network" \in loaded /\ "network" \in touched /\ (la => "luci" \in loaded) /\ touched \subseteq Packages
      /\ (la <=> "luci" \in touched)
  BY <1>2, <1>3, <1>6 DEF Packages
<1>8. TypeInv /\ Sound(Net) /\ Means(want, Net, LabelsSaved) /\ DOMAIN want = VidsOf(Net) /\ vlans = DOMAIN want
  BY <1>5, <1>7 DEF SwitchInv, PageInv, Means
<1>9. IsNet(Net) /\ DOMAIN Net = Sections /\ \A i \in Sections : Net[i] = Section(i)
  BY <1>8, NetIs
<1>10. PICK n : n = Last + 1
  OBVIOUS
<1>11. n \in Nat \ {0} /\ n \notin DOMAIN edit \cup DOMAIN crt
  BY <1>8, <1>10, LastIs
<1>12. PICK none : none = [p \in Ports |-> "-"]
  OBVIOUS
<1>13. none \in PortLists /\ \A p \in Ports : none[p] = "-"
  BY <1>12, NewFlags DEF PortLists
<1>14. PICK new : new = [vid |-> v, local |-> lo, ports |-> none]
  OBVIOUS
<1>15. new \in BridgeVlan /\ new.vid = v /\ new.local = lo /\ new.ports = none
  BY <1>2, <1>13, <1>14, SwitchVlanAssumption DEF BridgeVlan, PortLists
<1>16. crt' = [i \in DOMAIN crt \cup {n} |-> IF i = n THEN new ELSE crt[i]]
  BY <1>5, <1>10, <1>12, <1>14
<1>17. IsNet(crt') /\ DOMAIN crt' = DOMAIN crt \cup {n}
  <2>1. IsFiniteSet(DOMAIN crt \cup {n})
    BY <1>8, FS_AddElement DEF TypeInv, IsNet
  <2> QED BY <1>8, <1>11, <1>15, <1>16, <2>1 DEF TypeInv, IsNet
<1>18. /\ lab' \in [Vids -> Labels]
       /\ LabelsSaved' = IF la THEN LabelsSaved \cup {v} ELSE LabelsSaved
       /\ ~la => LabelsSaved' = LabelsSaved /\ LabPending' = LabPending
  <2>1. CASE la
    BY <1>2, <1>5, <1>6, <1>7, <1>8, <2>1, LabelWritten
  <2>2. CASE ~la
    BY <1>5, <1>6, <1>8, <2>2, CopyStill DEF TypeInv
  <2> QED BY <2>1, <2>2
<1>19. EditTypes
  BY <1>5, <1>8, <1>11, <1>17, <1>18 DEF EditTypes, TypeInv
<1>20. (IsNet(Net) /\ DOMAIN Net = Sections /\ \A i \in Sections : Net[i] = Section(i))'
  BY <1>5, <1>8, <1>19, NetAfter
<1>21. PICK N, L : N = Net' /\ L = LabelsSaved'
  OBVIOUS
<1>22. /\ DOMAIN N = DOMAIN Net \cup {n} /\ n \notin DOMAIN Net /\ N[n] = new
       /\ \A i \in DOMAIN Net : N[i] = Net[i]
  <2>1. Sections' = Sections \cup {n} /\ n \notin Sections
    BY <1>5, <1>11, <1>17 DEF Sections
  <2>2. Section(n)' = new
    BY <1>5, <1>11, <1>16 DEF Section
  <2>3. ASSUME NEW i \in Sections PROVE Section(i)' = Section(i)
    BY <1>5, <1>6, <1>11, <1>16 DEF Section, Sections, Edited
  <2> QED BY <1>9, <1>20, <1>21, <2>1, <2>2, <2>3
<1>23. v \notin DOMAIN want
  BY <1>5, <1>8
<1>24. SoundTable(u)
  BY <1>2, <1>4, <1>8, MeansSound, RowsAreSound
<1>25. PICK row : row = [local |-> lo, label |-> la, role |-> none]
  OBVIOUS
<1>26. row.local = lo /\ row.label = la /\ row.role = none
  BY <1>25
<1>27. u = [w \in DOMAIN want \cup {v} |-> IF w \in DOMAIN want THEN want[w] ELSE row]
  BY <1>4, <1>12, <1>23, <1>25 DEF Table!AfterAdd
<1>28. VidsOf(N) = VidsOf(Net) \cup {v}
  BY <1>15, <1>22 DEF VidsOf
<1>29. Means(u, N, L)
  <2>1. u \in [VidsOf(N) -> Table!Row]
    <3>1. DOMAIN u = VidsOf(N)
      BY <1>8, <1>27, <1>28
    <3> QED BY <1>24, <3>1 DEF SoundTable, Tables
  <2>2. ASSUME NEW i \in DOMAIN Net
        PROVE  /\ u[N[i].vid].local = N[i].local /\ (u[N[i].vid].label <=> N[i].vid \in L)
               /\ \A p \in Ports : u[N[i].vid].role[p] = RoleOf(N[i].ports[p])
    <3>1. PICK w \in DOMAIN want : w = Net[i].vid
      BY <1>8 DEF VidsOf
    <3>2. u[w] = want[w] /\ N[i] = Net[i] /\ (w \in L <=> w \in LabelsSaved)
      BY <1>18, <1>21, <1>22, <1>23, <1>27
    <3>3. want[w].local = Net[i].local /\ (want[w].label <=> w \in LabelsSaved)
          /\ \A p \in Ports : want[w].role[p] = RoleOf(Net[i].ports[p])
      BY <1>8, <3>1 DEF Means
    <3> QED BY <3>1, <3>2, <3>3
  <2>3. /\ u[v].local = lo /\ (u[v].label <=> v \in L)
        /\ \A p \in Ports : u[v].role[p] = RoleOf(none[p])
    <3>1. u[v] = row
      BY <1>23, <1>27
    <3>2. v \in L <=> la
      BY <1>8, <1>18, <1>21, <1>23 DEF Means
    <3> QED BY <1>2, <1>13, <1>26, <3>1, <3>2, NewFlags
  <2>4. L \subseteq VidsOf(N)
    BY <1>8, <1>18, <1>21, <1>28 DEF Means
  <2>5. ASSUME NEW i \in DOMAIN N
        PROVE  /\ u[N[i].vid].local = N[i].local /\ (u[N[i].vid].label <=> N[i].vid \in L)
               /\ \A p \in Ports : u[N[i].vid].role[p] = RoleOf(N[i].ports[p])
    <3>1. CASE i = n
      BY <1>15, <1>22, <2>3, <3>1
    <3>2. CASE i # n
      BY <1>22, <2>2, <3>2
    <3> QED BY <3>1, <3>2
  <2> QED BY <2>1, <2>4, <2>5 DEF Means
<1>30. EditMeans(u)
  <2>1. ASSUME NEW i \in DOMAIN N, NEW j \in DOMAIN N, N[i].vid = N[j].vid PROVE i = j
    <3>1. \A k \in DOMAIN Net : Net[k].vid # v
      BY <1>8, <1>23 DEF VidsOf
    <3> QED BY <1>8, <1>15, <1>22, <2>1, <3>1 DEF Sound
  <2>2. \A i \in DOMAIN N, p \in Ports : N[i].ports[p] \in Accepted
    BY <1>8, <1>13, <1>15, <1>22, NewFlags DEF Sound
  <2>3. rows' = DOMAIN u /\ vlans' = DOMAIN u
    BY <1>5, <1>7, <1>8, <1>27, BridgeVlansAre DEF Refreshed
  <2> QED BY <1>21, <1>24, <1>29, <2>1, <2>2, <2>3 DEF EditMeans
<1>31. EditKeeps(touched)
  BY <1>7, <1>18 DEF EditKeeps
<1>32. u \in Table!Changed(want)
  BY <1>2, <1>4 DEF Table!Changed
<1>33. SwitchInv'
  BY <1>5, <1>7, <1>19, <1>30, <1>31, EditIs
<1> QED BY <1>6, <1>32, <1>33 DEF Steps

LEMMA RemoveIs ==
  ASSUME SwitchInv, Patient, ConfirmRemove
  PROVE  SwitchInv' /\ page' = page /\ Steps(want, want')
<1>1. /\ TypeInv /\ page = "open" /\ modal \in Vids /\ modal' = None
  BY DEF ConfirmRemove, SwitchInv, TypeInv, BlockedInv
<1>2. PICK v \in Vids : v = modal
  BY <1>1
<1>3. PICK k : k = Find(v)
  OBVIOUS
<1>4. CASE k = 0
  <2>1. UNCHANGED <<session, copy, page, vlans, rows, selection, chain, history, faults, failed>>
    BY <1>2, <1>3, <1>4 DEF ConfirmRemove
  <2>2. UNCHANGED <<session, copy, page, vlans, rows, chain, history, failed>> /\ selection' = selection
    BY <2>1
  <2> QED BY <1>1, <2>2, Still DEF Steps, TypeInv
<1>5. CASE k # 0
  <2>1. PICK touched : touched = {"network", "luci"}
    OBVIOUS
  <2>2. PICK u : u = Table!AfterRemove(want, v)
    OBVIOUS
  <2>3. /\ edit' = [j \in DOMAIN edit |-> IF j = k THEN [NoEdit EXCEPT !.del = TRUE] ELSE edit[j]]
        /\ crt' = [j \in DOMAIN crt \ {k} |-> crt[j]]
        /\ WriteVlanLabel(v, FALSE)
        /\ Refreshed({Section(j).vid : j \in Live \ {k}})
        /\ Edit(touched, u)
        /\ UNCHANGED selection
    BY <1>2, <1>3, <1>5, <2>1, <2>2 DEF ConfirmRemove
  <2>4. /\ touched \cap (sent \cup (Packages \ loaded)) = {} /\ want' = u
        /\ session' = session /\ loaded' = loaded /\ sent' = sent /\ page' = page
    BY <2>3 DEF Edit
  <2>5. "network" \in loaded /\ "luci" \in loaded /\ touched \subseteq Packages
    BY <2>1, <2>4 DEF Packages
  <2>6. Sound(Net) /\ Means(want, Net, LabelsSaved) /\ DOMAIN want = VidsOf(Net)
    BY <1>1 DEF SwitchInv, PageInv, Means
  <2>7. IsNet(Net) /\ DOMAIN Net = Sections /\ \A i \in Sections : Net[i] = Section(i)
    BY <1>1, NetIs
  <2>8. v \in DOMAIN want /\ k \in DOMAIN Net /\ \A i \in DOMAIN Net : Net[i].vid = v <=> i = k
    BY <1>1, <1>3, <1>5, <2>5, <2>6, FindIs
  <2>9. PICK gone : gone = [NoEdit EXCEPT !.del = TRUE]
    OBVIOUS
  <2>10. gone \in Edits /\ gone.del
    BY <2>9 DEF NoEdit, Edits
  <2>11. edit' = [j \in DOMAIN edit |-> IF j = k THEN gone ELSE edit[j]]
    BY <2>3, <2>9
  <2>12. edit' \in [DOMAIN session.net -> Edits] /\ DOMAIN edit' = DOMAIN edit
    BY <1>1, <2>10, <2>11 DEF TypeInv
  <2>13. IsNet(crt') /\ DOMAIN crt' = DOMAIN crt \ {k}
    <3>1. IsFiniteSet(DOMAIN crt \ {k})
      BY <1>1, FS_Subset DEF TypeInv, IsNet
    <3> QED BY <1>1, <2>3, <3>1 DEF TypeInv, IsNet
  <2>14. lab' \in [Vids -> Labels] /\ LabelsSaved' = LabelsSaved \ {v}
    BY <1>1, <2>3, <2>4, <2>5, LabelWritten
  <2>15. EditTypes
    BY <1>1, <2>3, <2>12, <2>13, <2>14 DEF EditTypes, TypeInv
  <2>16. (IsNet(Net) /\ DOMAIN Net = Sections /\ \A i \in Sections : Net[i] = Section(i))'
    BY <1>1, <2>3, <2>15, NetAfter
  <2>17. PICK N, L : N = Net' /\ L = LabelsSaved'
    OBVIOUS
  <2>18. DOMAIN N = DOMAIN Net \ {k} /\ \A i \in DOMAIN N : N[i] = Net[i]
    <3>1. Sections' = Sections \ {k}
      <4>1. \A i \in DOMAIN edit : ~edit'[i].del <=> i # k /\ ~edit[i].del
        BY <2>10, <2>11
      <4> QED BY <2>12, <2>13, <4>1 DEF Sections
    <3>2. ASSUME NEW i \in Sections, i # k PROVE Section(i)' = Section(i)
      BY <2>3, <2>4, <2>11, <2>12, <3>2 DEF Section, Sections, Edited
    <3> QED BY <2>7, <2>16, <2>17, <3>1, <3>2
  <2>19. VidsOf(N) = DOMAIN want \ {v}
    BY <2>6, <2>8, <2>18 DEF VidsOf
  <2>20. SoundTable(u)
    BY <2>2, <2>6, MeansSound, RowsAreSound
  <2>21. u = [w \in DOMAIN want \ {v} |-> want[w]]
    BY <2>2 DEF Table!AfterRemove
  <2>22. Means(u, N, L)
    <3>1. DOMAIN u = VidsOf(N)
      BY <2>19, <2>21
    <3>2. u \in [VidsOf(N) -> Table!Row]
      BY <2>20, <3>1 DEF SoundTable, Tables
    <3>3. ASSUME NEW i \in DOMAIN N
          PROVE  /\ u[N[i].vid].local = N[i].local /\ (u[N[i].vid].label <=> N[i].vid \in L)
                 /\ \A p \in Ports : u[N[i].vid].role[p] = RoleOf(N[i].ports[p])
      <4>1. PICK w \in DOMAIN want : w = Net[i].vid /\ w # v /\ N[i] = Net[i] /\ i \in DOMAIN Net
        BY <2>6, <2>8, <2>18 DEF VidsOf
      <4>2. u[w] = want[w] /\ (w \in L <=> w \in LabelsSaved)
        BY <2>14, <2>17, <2>21, <4>1
      <4>3. want[w].local = Net[i].local /\ (want[w].label <=> w \in LabelsSaved)
            /\ \A p \in Ports : want[w].role[p] = RoleOf(Net[i].ports[p])
        BY <2>6, <4>1 DEF Means
      <4> QED BY <4>1, <4>2, <4>3
    <3>4. L \subseteq VidsOf(N)
      BY <2>6, <2>14, <2>17, <2>19 DEF Means
    <3> QED BY <3>2, <3>3, <3>4 DEF Means
  <2>23. EditMeans(u)
    <3>1. \A i, j \in DOMAIN N : N[i].vid = N[j].vid => i = j
      BY <2>6, <2>18 DEF Sound
    <3>2. \A i \in DOMAIN N, p \in Ports : N[i].ports[p] \in Accepted
      BY <2>6, <2>18 DEF Sound
    <3>3. {Section(j).vid : j \in Live \ {k}} = DOMAIN u
      <4>1. {Section(j).vid : j \in Live \ {k}} = VidsOf(N)
        BY <2>5, <2>7, <2>18 DEF VidsOf, Live
      <4> QED BY <2>19, <2>21, <4>1
    <3> QED BY <2>3, <2>17, <2>20, <2>22, <3>1, <3>2, <3>3 DEF EditMeans, Refreshed
  <2>24. EditKeeps(touched)
    BY <2>1 DEF EditKeeps
  <2>25. u \in Table!Changed(want)
    BY <2>2, <2>8 DEF Table!Changed
  <2>26. SwitchInv'
    BY <1>1, <2>3, <2>5, <2>15, <2>23, <2>24, EditIs
  <2> QED BY <2>4, <2>25, <2>26 DEF Steps
<1> QED BY <1>4, <1>5

LEMMA LocalIs ==
  ASSUME SwitchInv, Patient, NEW v, NEW b \in BOOLEAN, LocalChange(v, b)
  PROVE  SwitchInv' /\ page' = page /\ Steps(want, want')
<1>1. TypeInv /\ page = "open" /\ v \in DOMAIN want /\ rows = DOMAIN want
  BY DEF LocalChange, Reach, SwitchInv, PageInv
<1>2. PICK k : k = Find(v)
  OBVIOUS
<1>3. PICK u : u = Table!AfterLocal(want, v, b)
  OBVIOUS
<1>4. /\ edit' = [j \in DOMAIN edit |-> IF j = k THEN [edit[j] EXCEPT !.local = b] ELSE edit[j]]
      /\ crt' = [j \in DOMAIN crt |-> IF j = k THEN [crt[j] EXCEPT !.local = b] ELSE crt[j]]
      /\ Edit({"network"}, u)
      /\ UNCHANGED <<lab, vlans, rows, selection, modal>>
  BY <1>1, <1>2, <1>3 DEF LocalChange
<1>5. /\ "network" \in loaded /\ want' = u
      /\ session' = session /\ loaded' = loaded /\ sent' = sent /\ page' = page
  BY <1>4 DEF Edit, Packages
<1>6. Sound(Net) /\ Means(want, Net, LabelsSaved) /\ DOMAIN want = VidsOf(Net) /\ vlans = DOMAIN want
  BY <1>1, <1>5 DEF SwitchInv, PageInv, Means
<1>7. IsNet(Net) /\ DOMAIN Net = Sections /\ \A i \in Sections : Net[i] = Section(i)
  BY <1>1, NetIs
<1>8. k \in DOMAIN Net /\ \A i \in DOMAIN Net : Net[i].vid = v <=> i = k
  BY <1>1, <1>2, <1>5, <1>6, FindIs
<1>9. ASSUME NEW i \in DOMAIN edit
      PROVE  /\ edit'[i] \in Edits /\ edit'[i].del = edit[i].del /\ edit'[i].ports = edit[i].ports
             /\ edit'[i].local = IF i = k THEN b ELSE edit[i].local
  <2>1. PICK e \in Edits : e = edit[i]
    BY <1>1 DEF TypeInv
  <2>2. edit'[i] = IF i = k THEN [e EXCEPT !.local = b] ELSE e
    BY <1>4, <2>1
  <2> QED BY <2>1, <2>2 DEF Edits
<1>10. ASSUME NEW i \in DOMAIN crt
       PROVE  /\ crt'[i] \in BridgeVlan /\ crt'[i].vid = crt[i].vid /\ crt'[i].ports = crt[i].ports
              /\ crt'[i].local = IF i = k THEN b ELSE crt[i].local
  <2>1. PICK s \in BridgeVlan : s = crt[i]
    BY <1>1 DEF TypeInv, IsNet
  <2>2. crt'[i] = IF i = k THEN [s EXCEPT !.local = b] ELSE s
    BY <1>4, <2>1
  <2> QED BY <2>1, <2>2 DEF BridgeVlan
<1>11. /\ DOMAIN edit = DOMAIN session.net /\ DOMAIN edit' = DOMAIN edit /\ DOMAIN crt' = DOMAIN crt
       /\ edit' = [i \in DOMAIN edit |-> edit'[i]] /\ crt' = [j \in DOMAIN crt |-> crt'[j]]
  BY <1>1, <1>4 DEF TypeInv
<1>12. edit' \in [DOMAIN session.net -> Edits] /\ IsNet(crt')
  BY <1>1, <1>9, <1>10, <1>11 DEF IsNet, TypeInv
<1>13. EditTypes
  BY <1>1, <1>4, <1>11, <1>12 DEF EditTypes, TypeInv
<1>14. (IsNet(Net) /\ DOMAIN Net = Sections /\ \A i \in Sections : Net[i] = Section(i))'
  BY <1>1, <1>4, <1>13, NetAfter
<1>15. PICK N : N = Net'
  OBVIOUS
<1>16. Sections' = Sections
  BY <1>9, <1>11 DEF Sections
<1>17. ASSUME NEW i \in Sections
       PROVE  /\ Section(i)'.vid = Section(i).vid /\ Section(i)'.ports = Section(i).ports
              /\ Section(i)'.local = IF i = k THEN b ELSE Section(i).local
  <2>1. CASE i \in DOMAIN edit
    <3>1. PICK s \in BridgeVlan : s = session.net[i]
      BY <1>1, <1>11, <2>1 DEF TypeInv, IsNet
    <3>2. PICK e, f : e = edit[i] /\ f = edit'[i]
      OBVIOUS
    <3>3. Section(i) = [s EXCEPT !.ports = IF e.ports = Keep THEN s.ports ELSE e.ports,
                                 !.local = IF e.local = Keep THEN s.local ELSE e.local]
      BY <2>1, <3>1, <3>2 DEF Section, Edited
    <3>4. Section(i)' = [s EXCEPT !.ports = IF f.ports = Keep THEN s.ports ELSE f.ports,
                                  !.local = IF f.local = Keep THEN s.local ELSE f.local]
      BY <1>5, <1>11, <2>1, <3>1, <3>2 DEF Section, Edited
    <3>5. f.ports = e.ports /\ f.local = IF i = k THEN b ELSE e.local
      BY <1>9, <2>1, <3>2
    <3>6. b # Keep
      BY StoredAssumption
    <3> QED BY <3>1, <3>3, <3>4, <3>5, <3>6 DEF BridgeVlan
  <2>2. CASE i \notin DOMAIN edit
    <3>1. i \in DOMAIN crt /\ Section(i) = crt[i] /\ Section(i)' = crt'[i]
      BY <1>11, <2>2 DEF Section, Sections
    <3> QED BY <1>10, <3>1
  <2> QED BY <2>1, <2>2
<1>18. /\ DOMAIN N = DOMAIN Net
       /\ \A i \in DOMAIN Net : /\ N[i].vid = Net[i].vid /\ N[i].ports = Net[i].ports
                                /\ N[i].local = IF i = k THEN b ELSE Net[i].local
  BY <1>7, <1>14, <1>15, <1>16, <1>17
<1>19. VidsOf(N) = DOMAIN want
  BY <1>6, <1>18 DEF VidsOf
<1>20. v \in Vids /\ SoundTable(want)
  BY <1>1, <1>6, MeansSound DEF SoundTable, Tables
<1>21. SoundTable(u)
  BY <1>1, <1>3, <1>20, RowsAreSound
<1>22. /\ DOMAIN u = DOMAIN want
       /\ \A w \in DOMAIN want : /\ u[w].local = IF w = v THEN b ELSE want[w].local
                                 /\ u[w].label = want[w].label /\ u[w].role = want[w].role
  BY <1>1, <1>3, <1>20 DEF Table!AfterLocal, SoundTable, Tables, Table!Row
<1>23. LabelsSaved' = LabelsSaved /\ LabPending' = LabPending
  BY <1>4, <1>5, CopyStill
<1>24. Means(u, N, LabelsSaved)
  <2>1. u \in [VidsOf(N) -> Table!Row]
    BY <1>19, <1>21, <1>22 DEF SoundTable, Tables
  <2>2. ASSUME NEW i \in DOMAIN N
        PROVE  /\ u[N[i].vid].local = N[i].local /\ (u[N[i].vid].label <=> N[i].vid \in LabelsSaved)
               /\ \A p \in Ports : u[N[i].vid].role[p] = RoleOf(N[i].ports[p])
    <3>1. PICK w \in DOMAIN want : w = Net[i].vid
      BY <1>6, <1>18 DEF VidsOf
    <3>2. want[w].local = Net[i].local /\ (want[w].label <=> w \in LabelsSaved)
          /\ \A p \in Ports : want[w].role[p] = RoleOf(Net[i].ports[p])
      BY <1>6, <1>18, <3>1 DEF Means
    <3>3. w = v <=> i = k
      BY <1>8, <1>18, <3>1
    <3>4. N[i].vid = w /\ N[i].ports = Net[i].ports /\ N[i].local = IF i = k THEN b ELSE Net[i].local
      BY <1>18, <3>1
    <3>5. /\ u[w].local = IF w = v THEN b ELSE want[w].local
          /\ u[w].label = want[w].label /\ u[w].role = want[w].role
      BY <1>22
    <3> QED BY <3>2, <3>3, <3>4, <3>5
  <2>3. LabelsSaved \subseteq VidsOf(N)
    BY <1>6, <1>19 DEF Means
  <2> QED BY <2>1, <2>2, <2>3 DEF Means
<1>25. EditMeans(u)
  <2>1. \A i, j \in DOMAIN N : N[i].vid = N[j].vid => i = j
    BY <1>6, <1>18 DEF Sound
  <2>2. \A i \in DOMAIN N, p \in Ports : N[i].ports[p] \in Accepted
    BY <1>6, <1>18 DEF Sound
  <2> QED BY <1>1, <1>4, <1>6, <1>15, <1>21, <1>22, <1>23, <1>24, <2>1, <2>2 DEF EditMeans
<1>26. EditKeeps({"network"})
  BY <1>23 DEF EditKeeps
<1>27. u \in Table!Changed(want)
  BY <1>1, <1>3 DEF Table!Changed
<1>28. SwitchInv'
  BY <1>1, <1>4, <1>13, <1>25, <1>26, EditIs DEF Packages
<1> QED BY <1>5, <1>27, <1>28 DEF Steps

LEMMA LabelIs ==
  ASSUME SwitchInv, Patient, NEW v, NEW b \in BOOLEAN, LabelChange(v, b)
  PROVE  SwitchInv' /\ page' = page /\ Steps(want, want')
<1>1. TypeInv /\ page = "open" /\ v \in DOMAIN want /\ rows = DOMAIN want
  BY DEF LabelChange, Reach, SwitchInv, PageInv
<1>2. PICK u : u = Table!AfterLabel(want, v, b)
  OBVIOUS
<1>3. /\ WriteVlanLabel(v, b) /\ Edit({"luci"}, u)
      /\ UNCHANGED <<edit, crt, vlans, rows, selection, modal>>
  BY <1>1, <1>2 DEF LabelChange
<1>4. /\ "luci" \in loaded /\ want' = u
      /\ session' = session /\ loaded' = loaded /\ sent' = sent /\ page' = page
  BY <1>3 DEF Edit, Packages
<1>5. /\ Sound(Net) /\ Means(want, Net, LabelsSaved) /\ DOMAIN want = VidsOf(Net)
      /\ "network" \in loaded \cup sent => vlans = DOMAIN want
  BY <1>1 DEF SwitchInv, PageInv, Means
<1>6. v \in Vids /\ SoundTable(want)
  BY <1>1, <1>5, MeansSound DEF SoundTable, Tables
<1>7. lab' \in [Vids -> Labels] /\ LabelsSaved' = IF b THEN LabelsSaved \cup {v} ELSE LabelsSaved \ {v}
  BY <1>1, <1>3, <1>4, <1>6, LabelWritten
<1>8. Net' = Net /\ NetPending' = NetPending
  BY <1>3, <1>4, CopyStill
<1>9. EditTypes
  BY <1>1, <1>3, <1>7 DEF EditTypes, TypeInv
<1>10. SoundTable(u)
  BY <1>1, <1>2, <1>6, RowsAreSound
<1>11. /\ DOMAIN u = DOMAIN want
       /\ \A w \in DOMAIN want : /\ u[w].label = IF w = v THEN b ELSE want[w].label
                                 /\ u[w].local = want[w].local /\ u[w].role = want[w].role
  BY <1>1, <1>2, <1>6 DEF Table!AfterLabel, SoundTable, Tables, Table!Row
<1>12. PICK L : L = LabelsSaved'
  OBVIOUS
<1>13. Means(u, Net, L)
  <2>1. u \in [VidsOf(Net) -> Table!Row]
    BY <1>5, <1>10, <1>11 DEF SoundTable, Tables
  <2>2. ASSUME NEW i \in DOMAIN Net
        PROVE  /\ u[Net[i].vid].local = Net[i].local /\ (u[Net[i].vid].label <=> Net[i].vid \in L)
               /\ \A p \in Ports : u[Net[i].vid].role[p] = RoleOf(Net[i].ports[p])
    <3>1. PICK w \in DOMAIN want : w = Net[i].vid
      BY <1>5 DEF VidsOf
    <3>2. want[w].local = Net[i].local /\ (want[w].label <=> w \in LabelsSaved)
          /\ \A p \in Ports : want[w].role[p] = RoleOf(Net[i].ports[p])
      BY <1>5, <3>1 DEF Means
    <3>3. w \in L <=> IF w = v THEN b ELSE w \in LabelsSaved
      BY <1>7, <1>12
    <3>4. u[w].label <=> w \in L
      <4>1. CASE w = v
        BY <1>11, <3>3, <4>1
      <4>2. CASE w # v
        BY <1>11, <3>2, <3>3, <4>2
      <4> QED BY <4>1, <4>2
    <3> QED BY <1>11, <3>1, <3>2, <3>4
  <2>3. L \subseteq VidsOf(Net)
    BY <1>1, <1>5, <1>7, <1>12 DEF Means
  <2> QED BY <2>1, <2>2, <2>3 DEF Means
<1>14. EditMeans(u)
  <2>1. \A i, j \in DOMAIN Net : Net[i].vid = Net[j].vid => i = j
    BY <1>5 DEF Sound
  <2>2. \A i \in DOMAIN Net, p \in Ports : Net[i].ports[p] \in Accepted
    BY <1>5 DEF Sound
  <2> QED BY <1>1, <1>3, <1>5, <1>8, <1>10, <1>11, <1>12, <1>13, <2>1, <2>2 DEF EditMeans
<1>15. EditKeeps({"luci"})
  BY <1>8 DEF EditKeeps
<1>16. u \in Table!Changed(want)
  BY <1>1, <1>2 DEF Table!Changed
<1>17. SwitchInv'
  BY <1>1, <1>3, <1>9, <1>14, <1>15, EditIs DEF Packages
<1> QED BY <1>4, <1>16, <1>17 DEF Steps

-----------------------------------------------------------------------------
(***************************************************************************)
(* Stashing: what the page stands for does not change.                        *)
(***************************************************************************)
LEMMA SaveIs ==
  ASSUME SwitchInv, Save
  PROVE  SwitchInv' /\ page' = page /\ want' = want
<1>1. /\ UNCHANGED <<session, loaded, edit, crt, lab, page, vlans, rows, selection, modal, phase,
                     sent, flying, edits, want, failed>>
      /\ queue = 0 /\ queue' = 1 /\ page = "open" /\ TypeInv /\ BlockedInv /\ PageInv /\ StashInv
  BY DEF Save, Reach, copy, screen, history, SwitchInv
<1>2. Net' = Net /\ NetPending' = NetPending /\ LabelsSaved' = LabelsSaved /\ LabPending' = LabPending
  BY <1>1, CopyStill
<1>3. TypeInv'
  BY <1>1 DEF TypeInv
<1>4. BlockedInv'
  BY <1>1 DEF BlockedInv
<1>5. PageInv'
  BY <1>1, <1>2 DEF PageInv
<1>6. StashInv'
  BY <1>1, <1>2 DEF StashInv
<1> QED BY <1>1, <1>3, <1>4, <1>5, <1>6 DEF SwitchInv

LEMMA StashIs ==
  ASSUME SwitchInv, Stash
  PROVE  SwitchInv' /\ page' = page /\ want' = want
<1>1. /\ UNCHANGED <<session, loaded, edit, crt, lab, page, vlans, rows, selection, modal, queue,
                     edits, want, failed>>
      /\ phase = "idle" /\ queue > 0 /\ TypeInv /\ BlockedInv /\ PageInv /\ StashInv
  BY DEF Stash, copy, screen, history, SwitchInv
<1>2. Net' = Net /\ NetPending' = NetPending /\ LabelsSaved' = LabelsSaved /\ LabPending' = LabPending
  BY <1>1, CopyStill
<1>3. page = "open" /\ queue \in Nat
  BY <1>1 DEF TypeInv, BlockedInv
<1>4. (Pending <=> NetPending \/ LabPending) /\ Saved = [net |-> Net, luci |-> LabelsSaved]
  BY DEF Pending, NetPending, LabPending, Saved, Net
<1>5. sent = {}
  BY <1>1 DEF StashInv
<1>6. CASE Pending
  <2>1. /\ phase' = "save" /\ flying' = [net |-> Net, luci |-> LabelsSaved]
        /\ sent' = {k \in Packages : IF k = "luci" THEN LabPending ELSE NetPending}
    BY <1>4, <1>6 DEF Stash, NetPending, LabPending
  <2>2. sent' \subseteq Packages /\ ("network" \in sent' <=> NetPending) /\ ("luci" \in sent' <=> LabPending)
    BY <2>1 DEF Packages
  <2>3. ~NetPending => Net = session.net
    BY <1>1, NothingPending
  <2>4. ~LabPending => LabelsSaved = session.luci
    BY <1>1, NothingPending
  <2>5. flying' = [net |-> IF "network" \in sent' THEN Net ELSE session.net,
                   luci |-> IF "luci" \in sent' THEN LabelsSaved ELSE session.luci]
    BY <2>1, <2>2, <2>3, <2>4
  <2>6. TypeInv'
    BY <1>1, <2>1, <2>2 DEF TypeInv
  <2>7. BlockedInv'
    BY <1>1, <1>3 DEF BlockedInv
  <2>8. PageInv'
    <3>1. "network" \in loaded \cup sent' => vlans = DOMAIN want
      BY <1>1, <1>3, <2>2 DEF PageInv
    <3> QED BY <1>1, <1>2, <3>1 DEF PageInv
  <2>9. StashInv'
    BY <1>1, <1>2, <1>3, <2>1, <2>2, <2>5 DEF StashInv
  <2> QED BY <1>1, <2>6, <2>7, <2>8, <2>9 DEF SwitchInv
<1>7. CASE ~Pending
  <2>1. phase' = "count" /\ flying' = flying /\ sent' = sent
    BY <1>7 DEF Stash
  <2>2. TypeInv'
    BY <1>1, <2>1 DEF TypeInv
  <2>3. BlockedInv'
    BY <1>1, <1>3 DEF BlockedInv
  <2>4. PageInv'
    BY <1>1, <1>2, <2>1 DEF PageInv
  <2>5. StashInv'
    BY <1>1, <1>2, <1>3, <1>4, <1>5, <1>7, <2>1 DEF StashInv
  <2> QED BY <1>1, <2>2, <2>3, <2>4, <2>5 DEF SwitchInv
<1> QED BY <1>6, <1>7

LEMMA SaveAnsweredIs ==
  ASSUME SwitchInv, SaveAnswered
  PROVE  SwitchInv' /\ page' = page /\ want' = want
<1>1. /\ UNCHANGED <<page, vlans, rows, selection, modal, queue, sent, flying, edits, want, failed>>
      /\ phase = "save" /\ phase' = "load" /\ session' = flying /\ loaded' = loaded \ sent
      /\ edit' = IF "network" \in sent THEN [i \in DOMAIN flying.net |-> NoEdit] ELSE edit
      /\ crt' = IF "network" \in sent THEN <<>> ELSE crt
      /\ lab' = IF "luci" \in sent THEN [v \in Vids |-> Keep] ELSE lab
      /\ TypeInv /\ BlockedInv /\ PageInv /\ StashInv
  BY DEF SaveAnswered, screen, history, SwitchInv
<1>2. page = "open" /\ queue \in Nat /\ queue > 0
  BY <1>1 DEF TypeInv, BlockedInv, StashInv
<1>3. PICK N, L : N = Net /\ L = LabelsSaved
  OBVIOUS
<1>4. session' = [net |-> IF "network" \in sent THEN N ELSE session.net,
                  luci |-> IF "luci" \in sent THEN L ELSE session.luci]
  BY <1>1, <1>3 DEF StashInv
<1>5. /\ session'.net = IF "network" \in sent THEN N ELSE session.net
      /\ session'.luci = IF "luci" \in sent THEN L ELSE session.luci
      /\ session' = [net |-> session'.net, luci |-> session'.luci]
      /\ flying.net = session'.net
  BY <1>1, <1>4
<1>6. IsNet(N) /\ L \subseteq Vids /\ Sound(N) /\ Means(want, N, L) /\ Sound(session.net)
  BY <1>1, <1>2, <1>3, NetIs DEF PageInv
<1>7. /\ "network" \in sent => edit' = [i \in DOMAIN N |-> NoEdit] /\ crt' = <<>> /\ DOMAIN crt' = {}
      /\ "network" \notin sent => edit' = edit /\ crt' = crt
  <2>1. "network" \in sent => DOMAIN crt' = {}
    BY <1>1, EmptyTable
  <2> QED BY <1>1, <1>5, <2>1
<1>8. TypeInv'
  <2>1. IsNet(session'.net) /\ session'.luci \subseteq Vids
    BY <1>1, <1>5, <1>6 DEF TypeInv
  <2>2. NoEdit \in Edits
    BY DEF NoEdit, Edits
  <2>3. edit' \in [DOMAIN session'.net -> Edits]
    BY <1>1, <1>5, <1>7, <2>2 DEF TypeInv
  <2>4. IsNet(crt') /\ DOMAIN crt' \cap DOMAIN edit' = {}
    <3>1. CASE "network" \in sent
      <4>1. crt' \in [DOMAIN crt' -> BridgeVlan]
        BY <1>7, <3>1
      <4> QED BY <1>7, <3>1, <4>1, FS_EmptySet DEF IsNet
    <3>2. CASE "network" \notin sent
      BY <1>1, <1>7, <3>2 DEF TypeInv
    <3> QED BY <3>1, <3>2
  <2>5. lab' \in [Vids -> Labels]
    BY <1>1 DEF TypeInv, Labels
  <2> QED BY <1>1, <1>5, <2>1, <2>3, <2>4, <2>5 DEF TypeInv
<1>9. /\ (~NetPending)' => (Net = session.net)'
      /\ (~LabPending)' => (LabelsSaved = session.luci)'
  <2>1. (TypeInv => /\ (~NetPending => Net = session.net)
                    /\ (~LabPending => LabelsSaved = session.luci))'
    BY NothingPending, PTL
  <2> QED BY <1>8, <2>1
<1>10. /\ "network" \in sent => ~NetPending'
       /\ "network" \notin sent => NetPending' = NetPending
       /\ "luci" \in sent => ~LabPending'
       /\ "luci" \notin sent => LabPending' = LabPending
  <2>1. "network" \in sent => ~NetPending'
    BY <1>7 DEF NetPending
  <2>2. "network" \notin sent => NetPending' = NetPending
    BY <1>7 DEF NetPending
  <2>3. "luci" \in sent => ~LabPending'
    BY <1>1 DEF LabPending
  <2>4. "luci" \notin sent => LabPending' = LabPending
    BY <1>1 DEF LabPending
  <2> QED BY <2>1, <2>2, <2>3, <2>4
<1>11. Net' = N
  <2>1. CASE "network" \in sent
    BY <1>5, <1>9, <1>10, <2>1
  <2>2. CASE "network" \notin sent
    <3>1. edit' = edit /\ crt' = crt /\ session'.net = session.net
      BY <1>5, <1>7, <2>2
    <3> QED BY <1>3, <3>1 DEF Net, Sections, Section, Edited
  <2> QED BY <2>1, <2>2
<1>12. LabelsSaved' = L
  <2>1. CASE "luci" \in sent
    BY <1>5, <1>9, <1>10, <2>1
  <2>2. CASE "luci" \notin sent
    <3>1. lab' = lab /\ session'.luci = session.luci
      BY <1>1, <1>5, <2>2
    <3> QED BY <1>3, <3>1 DEF LabelsSaved
  <2> QED BY <2>1, <2>2
<1>13. BlockedInv'
  BY <1>1, <1>2 DEF BlockedInv
<1>14. PageInv'
  <2>1. Sound(session'.net)
    BY <1>5, <1>6
  <2>2. "network" \in loaded' \cup sent' => vlans' = DOMAIN want'
    BY <1>1, <1>2 DEF PageInv
  <2>3. ("network" \notin loaded' => ~NetPending') /\ ("luci" \notin loaded' => ~LabPending')
    BY <1>1, <1>2, <1>10 DEF PageInv
  <2>4. rows' = DOMAIN want' /\ want' = want
    BY <1>1, <1>2 DEF PageInv
  <2>5. Sound(Net)' /\ Means(want, Net, LabelsSaved)'
    BY <1>6, <1>11, <1>12, <2>4
  <2> QED BY <2>1, <2>2, <2>3, <2>4, <2>5 DEF PageInv
<1>15. StashInv'
  BY <1>1, <1>2, <1>10 DEF StashInv
<1> QED BY <1>1, <1>8, <1>13, <1>14, <1>15 DEF SwitchInv

LEMMA LoadAnsweredIs ==
  ASSUME SwitchInv, LoadAnswered
  PROVE  SwitchInv' /\ page' = page /\ want' = want
<1>1. /\ UNCHANGED <<session, edit, crt, lab, page, vlans, rows, selection, modal, queue, flying,
                     edits, want, failed>>
      /\ phase = "load" /\ phase' = "resync" /\ loaded' = loaded \cup sent /\ sent' = {}
      /\ TypeInv /\ BlockedInv /\ PageInv /\ StashInv
  BY DEF LoadAnswered, screen, history, SwitchInv
<1>2. Net' = Net /\ NetPending' = NetPending /\ LabelsSaved' = LabelsSaved /\ LabPending' = LabPending
  BY <1>1, CopyStill
<1>3. TypeInv'
  BY <1>1 DEF TypeInv
<1>4. BlockedInv'
  BY <1>1 DEF BlockedInv
<1>5. PageInv'
  BY <1>1, <1>2 DEF PageInv
<1>6. StashInv'
  BY <1>1, <1>2 DEF StashInv
<1> QED BY <1>1, <1>3, <1>4, <1>5, <1>6 DEF SwitchInv

\* A stash settles, with an answer or with a failure.
LEMMA SettleIs ==
  ASSUME SwitchInv, Settle, phase # "idle", failed' \in BOOLEAN,
         ~failed' => phase \in {"count", "resync"},
         "network" \in loaded => vlans' \in {vlans, BridgeVlans}
  PROVE  SwitchInv' /\ page' = page /\ want' = want
<1>1. /\ UNCHANGED <<session, loaded, edit, crt, lab, page, rows, selection, modal, edits, want>>
      /\ phase' = "idle" /\ sent' = {} /\ flying' = session /\ queue' = queue - 1
      /\ TypeInv /\ BlockedInv /\ PageInv /\ StashInv
  BY DEF Settle, copy, history, SwitchInv
<1>2. page = "open" /\ queue \in Nat /\ queue > 0
  BY <1>1 DEF TypeInv, BlockedInv, StashInv
<1>3. Net' = Net /\ NetPending' = NetPending /\ LabelsSaved' = LabelsSaved /\ LabPending' = LabPending
  BY <1>1, CopyStill
<1>4. TypeInv'
  BY <1>1, <1>2 DEF TypeInv
<1>5. BlockedInv'
  BY <1>1, <1>2 DEF BlockedInv
<1>6. PageInv'
  <2>1. "network" \in loaded => BridgeVlans = DOMAIN want /\ vlans = DOMAIN want
    BY <1>1, <1>2, BridgeVlansAre DEF PageInv, Means
  <2> QED BY <1>1, <1>2, <1>3, <2>1 DEF PageInv
<1>7. StashInv'
  <2>1. queue' = 0 /\ ~failed' => ~NetPending /\ ~LabPending
    BY <1>1, <1>2 DEF StashInv
  <2> QED BY <1>1, <1>3, <2>1 DEF StashInv
<1> QED BY <1>1, <1>4, <1>5, <1>6, <1>7 DEF SwitchInv

LEMMA RpcIs ==
  ASSUME SwitchInv, Rpc
  PROVE  SwitchInv' /\ page' = page /\ want' = want
<1>1. CASE Stash
  BY <1>1, StashIs
<1>2. CASE SaveAnswered
  BY <1>2, SaveAnsweredIs
<1>3. CASE LoadAnswered
  BY <1>3, LoadAnsweredIs
<1>4. CASE Counted
  BY <1>4, SettleIs DEF Counted
<1>5. CASE StashFails
  BY <1>5, SettleIs DEF StashFails
<1> QED BY <1>1, <1>2, <1>3, <1>4, <1>5 DEF Rpc

LEMMA UserIs ==
  ASSUME SwitchInv, Patient, User
  PROVE  SwitchInv' /\ page' = page /\ Steps(want, want')
<1>1. TypeInv /\ BlockedInv
  BY DEF SwitchInv
<1>2. ASSUME NEW sel \in SUBSET Ports, Select(sel) PROVE SwitchInv' /\ page' = page /\ want' = want
  <2>1. UNCHANGED <<session, copy, page, vlans, rows, chain, history, failed>> /\ selection' = sel /\ modal' = modal
    BY <1>2 DEF Select
  <2> QED BY <1>1, <2>1, Still DEF TypeInv, BlockedInv
<1>3. ASSUME NEW m \in Vids \cup {None}, page = "blocked" => m = None, modal' = m,
             UNCHANGED <<session, copy, page, vlans, rows, selection, chain, history, faults, failed>>
      PROVE  SwitchInv' /\ page' = page /\ want' = want
  BY <1>1, <1>3, Still DEF TypeInv
<1>4. CASE ClearSelection
  BY <1>2, <1>4 DEF ClearSelection, Steps
<1>5. CASE SelectAll
  BY <1>2, <1>5 DEF SelectAll, Steps
<1>6. CASE CancelRemove
  BY <1>3, <1>6 DEF CancelRemove, Steps
<1>7. CASE ConfirmRemove
  BY <1>7, RemoveIs
<1>8. CASE Save
  BY <1>8, SaveIs DEF Steps
<1>9. ASSUME NEW p \in Ports, PortClick(p) PROVE SwitchInv' /\ page' = page /\ Steps(want, want')
  <2>1. PICK sel \in SUBSET Ports : Select(sel)
    BY <1>1, <1>9 DEF PortClick, TypeInv
  <2> QED BY <1>2, <2>1 DEF Steps
<1>10. ASSUME NEW v \in Vids, NEW role \in {"t", "u"}, SelectByRole(v, role) \/ Assign(v, role)
       PROVE SwitchInv' /\ page' = page /\ Steps(want, want')
  <2>1. CASE SelectByRole(v, role)
    <3>1. PICK sel \in SUBSET Ports : Select(sel)
      BY <2>1 DEF SelectByRole
    <3> QED BY <1>2, <3>1 DEF Steps
  <2> QED BY <1>10, <2>1, AssignIs
<1>11. ASSUME NEW t \in Typed, Add(t.vid, t.local, t.label) PROVE SwitchInv' /\ page' = page /\ Steps(want, want')
  BY <1>11, AddIs
<1>12. ASSUME NEW v \in Vids, AskRemove(v) PROVE SwitchInv' /\ page' = page /\ Steps(want, want')
  <2>1. page = "open" /\ modal' = v
        /\ UNCHANGED <<session, copy, page, vlans, rows, selection, chain, history, faults, failed>>
    BY <1>12 DEF AskRemove, Reach
  <2> QED BY <1>3, <2>1 DEF Steps
<1>13. ASSUME NEW v \in Vids, NEW b \in BOOLEAN, LocalChange(v, b) \/ LabelChange(v, b)
       PROVE SwitchInv' /\ page' = page /\ Steps(want, want')
  BY <1>13, LocalIs, LabelIs
<1> QED BY <1>4, <1>5, <1>6, <1>7, <1>8, <1>9, <1>10, <1>11, <1>12, <1>13 DEF User

-----------------------------------------------------------------------------
(***************************************************************************)
(* The specification.                                                       *)
(***************************************************************************)
LEMMA SwitchInit == Init => SwitchInv
<1> SUFFICES ASSUME Init PROVE SwitchInv
  OBVIOUS
<1>1. /\ session \in Stored /\ page = IF Unsupported(session.net) THEN "blocked" ELSE "open"
      /\ loaded = Packages
      /\ edit = [i \in DOMAIN session.net |-> NoEdit] /\ crt = <<>>
      /\ lab = Pruned(session.net, session.luci)
      /\ vlans = {session.net[i].vid : i \in DOMAIN session.net} /\ rows = vlans
      /\ selection = {} /\ modal = None
      /\ queue = 0 /\ phase = "idle" /\ sent = {}
      /\ edits = 0 /\ failed = FALSE
      /\ want = TableOf(session.net, session.luci)
  BY DEF Init
<1>2. /\ session = [net |-> session.net, luci |-> session.luci] /\ session.luci \subseteq Vids
      /\ IsNet(session.net)
      /\ \A i, j \in DOMAIN session.net : session.net[i].vid = session.net[j].vid => i = j
      /\ ~Unsupported(session.net) => \A i \in DOMAIN session.net : session.net[i].vid \in Vids
  BY <1>1, StoredAssumption DEF IsNet
<1>3. DOMAIN crt = {}
  BY <1>1, EmptyTable
<1>4. TypeInv
  <2>1. NoEdit \in Edits
    BY DEF NoEdit, Edits
  <2>2. edit \in [DOMAIN session.net -> Edits]
    BY <1>1, <2>1
  <2>3. crt \in [DOMAIN crt -> BridgeVlan]
    BY <1>1, <1>3
  <2>4. IsNet(crt) /\ DOMAIN crt \cap DOMAIN edit = {}
    BY <1>3, <2>3, FS_EmptySet DEF IsNet
  <2>5. lab \in [Vids -> Labels]
    BY <1>1 DEF Pruned, Labels
  <2> QED BY <1>1, <1>2, <2>2, <2>4, <2>5 DEF TypeInv, Packages
<1>5. BlockedInv
  BY <1>1 DEF BlockedInv
<1>6. ~NetPending
  BY <1>1, <1>3 DEF NetPending
<1>7. PageInv
  <2> SUFFICES ASSUME page = "open"
      PROVE  /\ Sound(session.net) /\ Sound(Net) /\ Means(want, Net, LabelsSaved)
             /\ rows = DOMAIN want /\ vlans = DOMAIN want
    BY <1>1, <1>6 DEF PageInv, Packages
  <2>1. Sound(session.net)
    BY <1>1, <1>2, Supported
  <2>2. Net = session.net
    BY <1>4, <1>6, NothingPending
  <2>3. LabelsSaved = session.luci \cap VidsOf(session.net)
    <3>1. \A v \in Vids : lab[v] = IF v \in session.luci /\ v \notin VidsOf(session.net) THEN "unset" ELSE Keep
      BY <1>1 DEF Pruned, VidsOf
    <3>2. Keep # "unset"
      BY StoredAssumption
    <3> QED BY <1>2, <3>1, <3>2 DEF LabelsSaved
  <2>4. Means(want, Net, LabelsSaved)
    BY <1>1, <1>2, <2>2, <2>3, TableIs
  <2>5. DOMAIN want = VidsOf(session.net)
    BY <2>2, <2>4 DEF Means
  <2> QED BY <1>1, <2>1, <2>2, <2>4, <2>5 DEF VidsOf
<1>8. StashInv
  BY <1>1 DEF StashInv
<1> QED BY <1>4, <1>5, <1>7, <1>8 DEF SwitchInv

LEMMA SwitchStep == Patient /\ SwitchInv /\ [Next]_vars => SwitchInv' /\ page' = page /\ Steps(want, want')
<1> SUFFICES ASSUME Patient, SwitchInv, [Next]_vars PROVE SwitchInv' /\ page' = page /\ Steps(want, want')
  OBVIOUS
<1>1. CASE User
  BY <1>1, UserIs
<1>2. CASE Rpc
  BY <1>2, RpcIs DEF Steps
<1>3. CASE UNCHANGED vars
  <2>1. UNCHANGED <<session, copy, page, vlans, rows, chain, history, failed>> /\ UNCHANGED <<selection, modal>>
    BY <1>3 DEF vars, screen
  <2> QED BY <2>1, Still DEF Steps, SwitchInv, TypeInv, BlockedInv
<1> QED BY <1>1, <1>2, <1>3 DEF Next

LEMMA SwitchTyped == Patient => (Spec => []SwitchInv)
<1>1. Patient /\ SwitchInv /\ [Next]_vars => SwitchInv'
  BY SwitchStep
<1>2. Patient => (Patient)'
  OBVIOUS
<1> QED BY <1>1, <1>2, SwitchInit, PTL DEF Spec

\* checkUnsupportedConfig never has reason to refuse what the page has staged: no
\* port has two native VLANs in the session, and no VLAN is there twice.
THEOREM LocksNobodyOut == Patient => (Spec => []NeverLocksItselfOut)
<1>1. SwitchInv => NeverLocksItselfOut
  <2> SUFFICES ASSUME TypeInv, PageInv, page = "open"
      PROVE  /\ ~Unsupported(session.net)
             /\ \A i, j \in DOMAIN session.net : session.net[i].vid = session.net[j].vid => i = j
    BY DEF SwitchInv, NeverLocksItselfOut
  <2>1. Sound(session.net) /\ IsNet(session.net)
    BY DEF PageInv, TypeInv
  <2>2. \A i, j \in DOMAIN session.net : session.net[i].vid = session.net[j].vid => i = j
    BY <2>1 DEF Sound
  <2> QED BY <2>1, <2>2, Supported
<1> QED BY <1>1, SwitchTyped, PTL

\* The rows of the table, this.vlans and LuCI's copy are of the same VLANs whenever
\* the copy is there, whatever was saved or failed meanwhile.
THEOREM RowsFollow == Patient => (Spec => []RowsAreVlans)
<1>1. SwitchInv => RowsAreVlans
  BY DEF SwitchInv, PageInv, RowsAreVlans
<1> QED BY <1>1, SwitchTyped, PTL

\* Quiet after edits, and the last stash did not fail: the session holds the table
\* that the user's clicks ask for, and nothing is pending.
THEOREM AllIsStaged == Patient => (Spec => []StagedWhenQuiet)
<1>1. SwitchInv => StagedWhenQuiet
  <2> SUFFICES ASSUME SwitchInv, Quiet, ~failed, edits > 0
      PROVE  TableOf(session.net, session.luci) = want /\ ~Pending
    BY DEF StagedWhenQuiet
  <2>1. TypeInv /\ BlockedInv /\ PageInv /\ StashInv
    BY DEF SwitchInv
  <2>2. page = "open" /\ queue = 0
    BY <2>1 DEF BlockedInv, TypeInv, Quiet
  <2>3. ~NetPending /\ ~LabPending
    BY <2>1, <2>2 DEF StashInv
  <2>4. Net = session.net /\ LabelsSaved = session.luci
    BY <2>1, <2>3, NothingPending
  <2>5. IsNet(session.net) /\ Means(want, session.net, session.luci) /\ Sound(session.net)
    BY <2>1, <2>2, <2>4 DEF TypeInv, PageInv
  <2>6. \A i, j \in DOMAIN session.net : session.net[i].vid = session.net[j].vid => i = j
    BY <2>5 DEF Sound
  <2>7. want = TableOf(session.net, session.luci)
    BY <2>5, <2>6, TableIs
  <2> QED BY <2>3, <2>7 DEF Pending, NetPending, LabPending
<1> QED BY <1>1, SwitchTyped, PTL

\* What the page stands for is the table asked for.
LEMMA SeenIs == SwitchInv => Seen = IF page = "open" THEN want ELSE <<>>
<1> SUFFICES ASSUME SwitchInv PROVE Seen = IF page = "open" THEN want ELSE <<>>
  OBVIOUS
<1>1. TypeInv /\ PageInv /\ page \in {"open", "blocked"}
  BY DEF SwitchInv, TypeInv
<1>2. CASE page = "open"
  <2>1. Means(want, Net, LabelsSaved) /\ Sound(Net) /\ IsNet(Net) /\ Shown = TableOf(Net, LabelsSaved)
    BY <1>1, <1>2, NetIs DEF PageInv
  <2>2. \A i, j \in DOMAIN Net : Net[i].vid = Net[j].vid => i = j
    BY <2>1 DEF Sound
  <2>3. Shown = want
    BY <2>1, <2>2, TableIs
  <2> QED BY <1>2, <2>3 DEF Seen
<1>3. CASE page = "blocked"
  BY <1>3 DEF Seen
<1> QED BY <1>1, <1>2, <1>3

\* Every action of the page is one step of the table of VLANs; a save, an answer
\* and a failure are none.
THEOREM PageRefines == Patient => (Spec => TableRefined)
<1>1. Init => Table!Init
  <2> SUFFICES ASSUME Init PROVE \E vs \in SUBSET Vids : Seen \in [vs -> Table!Row] /\ Table!OneNative(Seen)
    BY DEF Table!Init
  <2>1. SwitchInv /\ TypeInv /\ PageInv /\ page \in {"open", "blocked"}
    BY SwitchInit DEF SwitchInv, TypeInv
  <2>2. CASE page = "open"
    <3>1. Seen = want /\ Means(want, Net, LabelsSaved) /\ Sound(Net)
      BY <2>1, <2>2, SeenIs DEF PageInv
    <3>2. SoundTable(Seen)
      BY <3>1, MeansSound
    <3> QED BY <3>2 DEF SoundTable, Tables
  <2>3. CASE page = "blocked"
    <3>1. Seen = <<>> /\ DOMAIN Seen = {}
      BY <2>1, <2>3, SeenIs, EmptyTable
    <3>2. Seen \in [{} -> Table!Row]
      BY <3>1
    <3> QED BY <3>1, <3>2 DEF Table!OneNative
  <2> QED BY <2>1, <2>2, <2>3
<1>2. Patient /\ SwitchInv /\ SwitchInv' /\ [Next]_vars => [Table!Next]_Seen
  <2> SUFFICES ASSUME Patient, SwitchInv, SwitchInv', [Next]_vars
      PROVE  Seen' = Seen \/ Seen' \in Table!Changed(Seen)
    BY DEF Table!Next
  <2>1. page' = page /\ Steps(want, want')
    BY SwitchStep
  <2>2. Seen = IF page = "open" THEN want ELSE <<>>
    BY SeenIs
  <2>3. Seen' = IF page' = "open" THEN want' ELSE <<>>
    <3>1. (SwitchInv => Seen = IF page = "open" THEN want ELSE <<>>)'
      BY SeenIs, PTL
    <3> QED BY <3>1
  <2>4. PICK s, t : s = Seen /\ t = Seen'
    OBVIOUS
  <2>5. CASE page = "open"
    BY <2>1, <2>2, <2>3, <2>5 DEF Steps
  <2>6. CASE page # "open"
    BY <2>1, <2>2, <2>3, <2>6
  <2> QED BY <2>5, <2>6
<1>3. Patient => (Spec => Table!Spec)
  <2>1. Patient => (Patient)'
    OBVIOUS
  <2> QED BY <1>1, <1>2, <2>1, SwitchTyped, PTL DEF Spec, Table!Spec
<1> QED BY <1>3 DEF TableRefined

=============================================================================
