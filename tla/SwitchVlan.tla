----------------------------- MODULE SwitchVlan -----------------------------
(***************************************************************************)
(* The theme's Switch / VLAN page: view/openuf-theme/switch-vlan.js on the    *)
(* helpers of view/openuf-theme/bridgevlan.js.                               *)
(*                                                                          *)
(* The page edits LuCI's copy of two configuration packages, network (the     *)
(* bridge-vlan sections) and luci (the labels), and stashes every edit in the  *)
(* rpcd session.  A stash is asynchronous: LuCI sends what is pending when it   *)
(* starts, and when the answer comes it forgets the package, pending edits and   *)
(* all, and loads it again.  The page goes on taking clicks meanwhile.          *)
(***************************************************************************)
EXTENDS Integers, FiniteSets, FiniteSetsExt

CONSTANTS
  Ports,      \* the bridge's switch ports (its device section lists them all)
  Vids,       \* the VLAN IDs that occur
  Typed,      \* what is typed in the row that adds a VLAN
  Stored,     \* the session's contents when the page is opened
  Keep,       \* no pending change of an option
  Patient,    \* the user edits no package while a save of it is in flight
  MaxEdits,   \* bound on the edits the user makes
  MaxFaults   \* bound on the calls that fail

MIN_VLAN_ID == 1
MAX_VLAN_ID == 4094
None == 0     \* no VLAN

ASSUME SwitchVlanAssumption ==
  /\ IsFiniteSet(Ports) /\ Vids \subseteq MIN_VLAN_ID..MAX_VLAN_ID
  /\ Patient \in BOOLEAN /\ MaxEdits \in Nat /\ MaxFaults \in Nat

VARIABLES
  session,    \* the rpcd session: the bridge-vlan sections and the labelled VLANs
  page,       \* "open", or "blocked": a configuration the page cannot show
  loaded,     \* the packages LuCI has a copy of
  edit,       \* the pending edits of each section of the copy
  crt,        \* the sections created and not saved yet
  lab,        \* the pending label of each VLAN
  vlans,      \* this.vlans: the VLANs of the last loadState
  rows,       \* the rows of the VLAN table in the document
  selection,  \* this.selection
  modal,      \* the VLAN whose "Remove VLAN?" dialog is open
  queue,      \* this._stashChain: how many stashes are not settled yet
  phase,      \* of the stash at its head
  sent,       \* the packages of the save in flight
  flying,     \* what the session is once that save is carried out
  faults,     \* bound: calls that failed
  edits,      \* bound: edits made
  failed,     \* history: the last stash failed and said so
  want        \* history: the table of VLANs the user's actions ask for

copy == <<loaded, edit, crt, lab>>
screen == <<page, vlans, rows, selection, modal>>
chain == <<queue, phase, sent, flying>>
history == <<edits, want>>
vars == <<session, copy, screen, chain, history, faults, failed>>

Packages == {"network", "luci"}
NoEdit == [del |-> FALSE, ports |-> Keep, local |-> Keep]

-----------------------------------------------------------------------------
(* bridgevlan.js                                                            *)

\* A port's entry in a VLAN's list: "-" when it has none, and otherwise the flags
\* after its name.
Flags == {"-", "", "u", "*", "u*", "t", "t*", "tu"}

\* parsePortSpec
Tagged(s) == s \in {"t", "t*", "tu"}
Untagged(s) == s \in {"", "u", "u*", "tu"}
Pvid(s) == s \in {"", "*", "u*", "t*"}

\* portMapToSpecs writes a name, or a name with ":t".
Written(s) == IF s = "-" THEN "-" ELSE IF Tagged(s) THEN "t" ELSE ""

\* checkUnsupportedConfig: the page does not open on these.
Unsupported(net) ==
  \/ \E i \in DOMAIN net : net[i].vid \notin MIN_VLAN_ID..MAX_VLAN_ID
  \/ \E i \in DOMAIN net, p \in Ports :
       LET s == net[i].ports[p] IN
       (Tagged(s) /\ Pvid(s)) \/ (Tagged(s) /\ Untagged(s)) \/ (Pvid(s) /\ ~Untagged(s))
  \/ \E i, j \in DOMAIN net, p \in Ports :
       net[i].vid # net[j].vid /\ Untagged(net[i].ports[p]) /\ Untagged(net[j].ports[p])

\* LuCI's copy: the sections of the session with the pending edits, then those
\* created.  A section is named by a number that tells its place among them.
Edited(i) ==
  LET s == session.net[i]  e == edit[i] IN
  [s EXCEPT !.ports = IF e.ports = Keep THEN @ ELSE e.ports,
            !.local = IF e.local = Keep THEN @ ELSE e.local]
Section(i) == IF i \in DOMAIN edit THEN Edited(i) ELSE crt[i]
Sections == {i \in DOMAIN edit : ~edit[i].del} \cup DOMAIN crt
Last == Max({0} \cup DOMAIN edit \cup DOMAIN crt)

\* uci.sections: none of a package that is not loaded, created ones included.
LiveDeleted ==   \* mutant: the deleted sections are still listed
  IF "network" \in loaded THEN DOMAIN edit \cup DOMAIN crt ELSE {}
Live == IF "network" \in loaded THEN Sections ELSE {}

\* buildPortState: a port's native VLAN (the last section to say so) and the
\* VLANs it carries tagged.
Native(p) ==
  LET on == {i \in Live : Untagged(Section(i).ports[p])} IN
  IF on = {} THEN None ELSE Section(Max(on)).vid
TaggedOn(p) ==
  {Section(i).vid : i \in {j \in Live : Tagged(Section(j).ports[p])
                                          /\ ~Untagged(Section(j).ports[p])}}
Carries(p, vid, role) == IF role = "t" THEN vid \in TaggedOn(p) ELSE Native(p) = vid

\* collectBridgeVlans
BridgeVlans == {Section(i).vid : i \in Live} \cap (MIN_VLAN_ID..MAX_VLAN_ID)

\* setBridgeVlanPorts, on the sections W is a function of: what equals the loaded
\* list takes the pending change back instead of adding one.
SetBridgeVlanPorts(W) ==
  /\ edit' = [i \in DOMAIN edit |->
       IF i \notin DOMAIN W THEN edit[i]
       ELSE [edit[i] EXCEPT !.ports = IF W[i] = session.net[i].ports THEN Keep ELSE W[i]]]
  /\ crt' = [j \in DOMAIN crt |->
       IF j \notin DOMAIN W THEN crt[j] ELSE [crt[j] EXCEPT !.ports = W[j]]]

\* writeVlanLabel (the two label sections are there): an empty label unsets the
\* option, and there is nothing to unset in a package that is not loaded.
Labelled(v) ==
  \/ lab[v] = "set"
  \/ "luci" \in loaded /\ v \in session.luci /\ lab[v] # "unset"
WriteVlanLabel(v, b) ==
  lab' = [lab EXCEPT ![v] =
    IF b THEN "set"
    ELSE IF "luci" \in loaded /\ v \in session.luci THEN "unset" ELSE Keep]

\* pruneOrphanLabels: pending at once, stashed with the first edit.
NonePruned(net, labels) ==   \* mutant: nothing is pruned
  [v \in Vids |-> Keep]
Pruned(net, labels) ==
  [v \in Vids |-> IF v \in labels /\ ~\E i \in DOMAIN net : net[i].vid = v
                  THEN "unset" ELSE Keep]

\* What the session may hold: each VLAN once, with an entry for every port and, if
\* the page opens on it, an ID that occurs; and what may be typed.
BridgeVlan == [vid : Int, local : BOOLEAN, ports : [Ports -> Flags]]

ASSUME StoredAssumption ==
  /\ \A s \in Stored :
       /\ s = [net |-> s.net, luci |-> s.luci] /\ s.luci \subseteq Vids
       /\ IsFiniteSet(DOMAIN s.net) /\ DOMAIN s.net \subseteq Nat \ {0}
       /\ s.net \in [DOMAIN s.net -> BridgeVlan]
       /\ \A i, j \in DOMAIN s.net : s.net[i].vid = s.net[j].vid => i = j
       /\ ~Unsupported(s.net) => \A i \in DOMAIN s.net : s.net[i].vid \in Vids
  /\ \A t \in Typed : /\ t.vid \in Int /\ t.local \in BOOLEAN /\ t.label \in BOOLEAN
                      /\ t.vid \in MIN_VLAN_ID..MAX_VLAN_ID => t.vid \in Vids
  /\ Keep \notin [Ports -> Flags] \cup BOOLEAN \cup {"set", "unset"}

-----------------------------------------------------------------------------
(* The table the user sees and means                                        *)

Row(s, b) == [local |-> s.local, label |-> b,
              role |-> [p \in Ports |-> IF Untagged(s.ports[p]) THEN "u"
                                        ELSE IF Tagged(s.ports[p]) THEN "t" ELSE "-"]]

TableOf(net, labels) ==
  [v \in {net[i].vid : i \in DOMAIN net} |->
    Row(net[Max({i \in DOMAIN net : net[i].vid = v})], v \in labels)]

\* What stands once everything pending is saved.
Pending ==
  \/ DOMAIN crt # {} \/ \E i \in DOMAIN edit : edit[i] # NoEdit
  \/ \E v \in Vids : lab[v] # Keep
LabelsSaved ==
  {v \in Vids : IF lab[v] = Keep THEN v \in session.luci ELSE lab[v] = "set"}
Saved == [net |-> [i \in Sections |-> Section(i)], luci |-> LabelsSaved]
Shown == TableOf(Saved.net, Saved.luci)

\* The table the page stands for; one that does not open shows none.
Seen == IF page = "blocked" THEN <<>> ELSE Shown
Table == INSTANCE VlanTable WITH table <- Seen

-----------------------------------------------------------------------------
Init ==
  /\ session \in Stored
  /\ page = IF Unsupported(session.net) THEN "blocked" ELSE "open"
  /\ loaded = Packages
  /\ edit = [i \in DOMAIN session.net |-> NoEdit] /\ crt = <<>>
  /\ lab = Pruned(session.net, session.luci)
  /\ vlans = {session.net[i].vid : i \in DOMAIN session.net} /\ rows = vlans
  /\ selection = {} /\ modal = None
  /\ queue = 0 /\ phase = "idle" /\ sent = {} /\ flying = session
  /\ faults = 0 /\ edits = 0 /\ failed = FALSE
  /\ want = TableOf(session.net, session.luci)

\* The user reaches the page unless the dialog is over it.
Reach == page = "open" /\ modal = None

Select(sel) ==
  /\ selection' = sel
  /\ UNCHANGED <<session, copy, page, vlans, rows, modal, chain, history, faults, failed>>

\* handlePortClick
PortClick(p) ==
  /\ Reach
  /\ Select(IF p \in selection THEN selection \ {p} ELSE selection \cup {p})

\* handleClearSelection: the button is off without a selection.
ClearSelection == Reach /\ selection # {} /\ Select({})

\* handleSelectAll: off when all are selected.
SelectAll == Reach /\ Cardinality(selection) # Cardinality(Ports) /\ Select(Ports)

\* A row's T and U select buttons are off when no port has the role
\* (refreshVlanRowStates, after every change).
Selectable(vid, role) == \E p \in Ports : Carries(p, vid, role)

\* handleSelectByRole
SelectByRole(vid, role) ==
  /\ Reach /\ vid \in rows /\ Selectable(vid, role)
  /\ Select({p \in Ports : Carries(p, vid, role)})

\* An edit: a stash is queued.  Nothing in the page keeps the user from editing a
\* package that is being saved or loaded; one who waits does not.
Edit(touched, t) ==
  /\ Patient => touched \cap (sent \cup (Packages \ loaded)) = {}
  /\ edits < MaxEdits /\ edits' = edits + 1
  /\ queue' = queue + 1
  /\ want' = t
  /\ UNCHANGED <<session, page, loaded, phase, sent, flying, faults, failed>>

\* refreshAll: this.vlans is read again and the rows are drawn anew.
Refreshed(vs) == vlans' = vs /\ rows' = vs

\* findVlanSection: the last section of that VLAN, or none.
Find(vid) ==
  LET on == {i \in Live : Section(i).vid = vid} IN IF on = {} THEN 0 ELSE Max(on)

\* computeAssignRoleState
RoleState(vid, role) ==
  LET n == Cardinality({p \in selection : Carries(p, vid, role)}) IN
  IF n = 0 THEN "unchecked" ELSE IF n = Cardinality(selection) THEN "checked" ELSE "mixed"

\* findAssignConflicts
NoConflicts(vid, role) ==   \* mutant: no conflict is looked for
  {}
Conflicts(vid, role) ==
  {p \in selection : IF role = "t" THEN Native(p) = vid ELSE vid \in TaggedOn(p)}

\* loadPortMap, a change of some ports' entries, and portMapToSpecs
Rewritten(i, ps, s) ==
  [p \in Ports |-> IF p \in ps THEN s ELSE Written(Section(i).ports[p])]
Change(i, ps, s) ==
  IF i = 0 \/ ps = {} THEN <<>>
  ELSE [k \in {i} |-> Rewritten(i, ps, s)]

\* applyTaggedChangeToSelection
AddTagged(vid) ==
  LET i == Find(vid) IN
  Change(i, {p \in selection : i # 0 /\ (Section(i).ports[p] = "-" \/
               (~Tagged(Section(i).ports[p]) /\ Untagged(Section(i).ports[p])))}, "t")
RemoveTagged(vid) ==
  LET i == Find(vid) IN
  Change(i, {p \in selection : i # 0 /\ Tagged(Section(i).ports[p])}, "-")

\* applyRemoveUntaggedFromSelection
RemoveUntagged(vid) ==
  LET i == Find(vid) IN
  Change(i, {p \in selection : i # 0 /\ Untagged(Section(i).ports[p])}, "-")

\* applyUntaggedVlanToSelection: out of the VLANs the selected ports were native
\* in, then into this one.
NoOldNatives(vid) ==   \* mutant: the VLAN a port was native in keeps it
  {}
OldNatives(vid) == {Native(p) : p \in selection} \ {None, vid}
AddUntagged(vid) ==
  LET old == {Find(w) : w \in OldNatives(vid)} \ {0}
      Out(i) == [p \in Ports |->
                  IF p \in selection /\ ~(Tagged(Section(i).ports[p])
                                          /\ ~Untagged(Section(i).ports[p]))
                  THEN "-" ELSE Section(i).ports[p]]
      left == {i \in old : Out(i) # Section(i).ports}
      i == Find(vid)
      into == Change(i, {p \in selection : i # 0 /\ ~Untagged(Section(i).ports[p])}, "")
  IN [k \in left \cup DOMAIN into |-> IF k \in DOMAIN into THEN into[k] ELSE Out(k)]

\* handleAssignToggleClick: the button is off without a selection.
Assign(vid, role) ==
  /\ Reach /\ vid \in rows /\ selection # {}
  /\ IF RoleState(vid, role) = "unchecked" /\ Conflicts(vid, role) # {}
     THEN \* showTaggedConflict: no change was made
          UNCHANGED <<session, copy, screen, chain, history, faults, failed>>
     ELSE /\ SetBridgeVlanPorts(
               IF RoleState(vid, role) = "unchecked"
               THEN IF role = "t" THEN AddTagged(vid) ELSE AddUntagged(vid)
               ELSE IF role = "t" THEN RemoveTagged(vid) ELSE RemoveUntagged(vid))
          /\ Refreshed(BridgeVlans)
          /\ Edit({"network"},
                  IF vid \in DOMAIN want THEN Table!AfterAssign(want, selection, vid, role)
                  ELSE want)
          /\ UNCHANGED <<lab, selection, modal>>

\* handleVlanAdd
Add(typed, local, label) ==
  /\ Reach
  /\ typed \in MIN_VLAN_ID..MAX_VLAN_ID /\ typed \notin vlans
  /\ crt' = [i \in DOMAIN crt \cup {Last + 1} |->
               IF i = Last + 1 THEN [vid |-> typed, local |-> local, ports |-> [p \in Ports |-> "-"]]
               ELSE crt[i]]
  /\ IF label THEN WriteVlanLabel(typed, TRUE) ELSE UNCHANGED lab
  /\ Refreshed(IF "network" \in loaded THEN BridgeVlans \cup {typed} ELSE {})
  /\ Edit({"network"} \cup (IF label THEN {"luci"} ELSE {}),
          Table!AfterAdd(want, typed, local, label))
  /\ UNCHANGED <<edit, selection, modal>>

\* handleVlanRemove opens the dialog; its buttons close it.
AskRemove(vid) ==
  /\ Reach /\ vid \in rows
  /\ modal' = vid
  /\ UNCHANGED <<session, copy, page, vlans, rows, selection, chain, history, faults, failed>>

CancelRemove ==
  /\ modal # None /\ modal' = None
  /\ UNCHANGED <<session, copy, page, vlans, rows, selection, chain, history, faults, failed>>

\* doVlanRemove: an unsaved section is gone, a saved one is to be deleted.
ConfirmRemove ==
  LET i == Find(modal) IN
  /\ modal # None /\ modal' = None
  /\ IF i = 0
     THEN UNCHANGED <<session, copy, page, vlans, rows, selection, chain, history,
                      faults, failed>>
     ELSE /\ edit' = [j \in DOMAIN edit |-> IF j = i THEN [NoEdit EXCEPT !.del = TRUE]
                                            ELSE edit[j]]
          /\ crt' = [j \in DOMAIN crt \ {i} |-> crt[j]]
          /\ WriteVlanLabel(modal, FALSE)
          /\ Refreshed({Section(j).vid : j \in Live \ {i}})
          /\ Edit({"network", "luci"}, Table!AfterRemove(want, modal))
          /\ UNCHANGED selection

\* handleVlanLocalChange
LocalChange(vid, b) ==
  LET i == Find(vid) IN
  /\ Reach /\ vid \in rows /\ i # 0 /\ Section(i).local # b
  /\ edit' = [j \in DOMAIN edit |-> IF j = i THEN [edit[j] EXCEPT !.local = b] ELSE edit[j]]
  /\ crt' = [j \in DOMAIN crt |-> IF j = i THEN [crt[j] EXCEPT !.local = b] ELSE crt[j]]
  /\ Edit({"network"}, IF vid \in DOMAIN want THEN Table!AfterLocal(want, vid, b) ELSE want)
  /\ UNCHANGED <<lab, vlans, rows, selection, modal>>

\* handleVlanLabelChange
LabelChange(vid, b) ==
  /\ Reach /\ vid \in rows /\ Labelled(vid) # b
  /\ WriteVlanLabel(vid, b)
  /\ Edit({"luci"}, IF vid \in DOMAIN want THEN Table!AfterLabel(want, vid, b) ELSE want)
  /\ UNCHANGED <<edit, crt, vlans, rows, selection, modal>>

\* handleSave and handleSaveApply: a stash, and a word or the apply dialog after
\* it (bound: not while others wait).
Save ==
  /\ Reach /\ queue = 0
  /\ queue' = 1
  /\ UNCHANGED <<session, copy, screen, phase, sent, flying, history, faults, failed>>

User ==
  \/ ClearSelection \/ SelectAll \/ CancelRemove \/ ConfirmRemove \/ Save
  \/ \E p \in Ports : PortClick(p)
  \/ \E vid \in Vids, role \in {"t", "u"} : SelectByRole(vid, role) \/ Assign(vid, role)
  \/ \E t \in Typed : Add(t.vid, t.local, t.label)
  \/ \E vid \in Vids : AskRemove(vid)
  \/ \E vid \in Vids, b \in BOOLEAN : LocalChange(vid, b) \/ LabelChange(vid, b)

-----------------------------------------------------------------------------
(* stashNetworkChanges, one stash after the other                           *)

\* hasPendingLocalChanges, then uci.save, or straight to uci.changes.
Stash ==
  /\ phase = "idle" /\ queue > 0
  /\ IF Pending
     THEN /\ phase' = "save" /\ flying' = Saved
          /\ sent' = {k \in Packages :
               IF k = "luci" THEN \E v \in Vids : lab[v] # Keep
               ELSE DOMAIN crt # {} \/ \E i \in DOMAIN edit : edit[i] # NoEdit}
     ELSE phase' = "count" /\ UNCHANGED <<flying, sent>>
  /\ UNCHANGED <<session, copy, screen, queue, history, faults, failed>>

\* The session has it; LuCI forgets the packages it sent and asks for them.
SaveAnswered ==
  /\ phase = "save" /\ phase' = "load"
  /\ session' = flying
  /\ loaded' = loaded \ sent
  /\ edit' = IF "network" \in sent THEN [i \in DOMAIN flying.net |-> NoEdit] ELSE edit
  /\ crt' = IF "network" \in sent THEN <<>> ELSE crt
  /\ lab' = IF "luci" \in sent THEN [v \in Vids |-> Keep] ELSE lab
  /\ UNCHANGED <<screen, queue, sent, flying, history, faults, failed>>

LoadAnswered ==
  /\ phase = "load" /\ phase' = "resync"
  /\ loaded' = loaded \cup sent /\ sent' = {}
  /\ UNCHANGED <<session, edit, crt, lab, screen, queue, flying, history, faults, failed>>

Settle ==
  /\ phase' = "idle" /\ sent' = {} /\ flying' = session /\ queue' = queue - 1
  /\ UNCHANGED <<session, copy, page, rows, selection, modal, history>>

\* uci.changes: the indicator is drawn, and after a save syncStateAfterUciSave
\* reads the VLANs again (the rows keep their place).
Counted ==
  /\ phase \in {"count", "resync"}
  /\ vlans' = IF phase = "resync" THEN BridgeVlans ELSE vlans
  /\ failed' = FALSE
  /\ Settle /\ UNCHANGED faults

\* Any of the three calls fails: a notification, and the chain goes on.
StashBreaks ==   \* mutant: the failed stash is not caught: the chain is broken
  /\ phase # "idle" /\ faults < MaxFaults /\ faults' = faults + 1
  /\ phase' = "broken"
  /\ UNCHANGED <<session, copy, screen, queue, sent, flying, history, failed>>
StashFails ==
  /\ phase # "idle" /\ faults < MaxFaults /\ faults' = faults + 1
  /\ failed' = TRUE
  /\ Settle /\ UNCHANGED vlans

Rpc == Stash \/ SaveAnswered \/ LoadAnswered \/ Counted \/ StashFails

Next == User \/ Rpc

Spec == Init /\ [][Next]_vars

\* LuCI answers every call or reports that it failed; clicks are owed by nobody.
FairSpec == Spec /\ WF_vars(Rpc)

-----------------------------------------------------------------------------
Quiet == phase = "idle" /\ queue = 0

\* Quiet again after the user's edits, with the last stash not failed, the session
\* holds the table the user asked for and nothing is pending: an edit of a package
\* that the save in flight does not carry survives it, a label goes with its VLAN,
\* and a VLAN added again does not inherit the label of one that was removed.  The
\* head of switch-vlan.js (19-20) promises it of every edit.
StagedWhenQuiet ==
  Quiet /\ ~failed /\ edits > 0 =>
    TableOf(session.net, session.luci) = want /\ ~Pending

\* The page never stages what it would refuse to open on, a port with two native
\* VLANs above all, and never a VLAN twice: a click that moves a native VLAN is
\* staged whole or not at all.
NeverLocksItselfOut ==
  page = "open" =>
    /\ ~Unsupported(session.net)
    /\ \A i, j \in DOMAIN session.net : session.net[i].vid = session.net[j].vid => i = j

\* The rows, this.vlans and the copy are of the same VLANs whatever has been
\* saved or has failed meanwhile.
RowsAreVlans ==
  page = "open" /\ "network" \in loaded => rows = DOMAIN want /\ vlans = DOMAIN want

\* Every action of the page is one step of the table of VLANs; saving, loading and
\* failing to are no step at all: nothing the user did is undone by them.
TableRefined == Table!Spec

\* Once the user has edited, what is pending reaches the session or a failure is
\* reported: a failed stash does not hold up those behind it.
EditsReachTheSession == (edits > 0 /\ Pending) ~> (~Pending \/ failed)
=============================================================================
