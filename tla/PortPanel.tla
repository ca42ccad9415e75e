------------------------------ MODULE PortPanel ------------------------------
(***************************************************************************)
(* The Port Manager card of Network > Interfaces: view/openuf-theme/ports.js   *)
(* and menu-openuf.js, renderPorts.                                             *)
(*                                                                          *)
(* Every five seconds it asks for the ports, draws the card afresh, and patches   *)
(* the one on the page to look like it: the square under the pointer, its tip,     *)
(* the focus and the list the user opened are to stay.                              *)
(***************************************************************************)
EXTENDS PortMap

CONSTANTS
  Boards,      \* boards, each with confs, the configurations it may have
  MaxChanges,  \* bound on changes of the configuration or of a cable
  MaxFailures  \* bound on calls that fail

\* What a poll can bring.
Results(b) == [builtin : BOOLEAN, topo : BOOLEAN, nets : BOOLEAN, links : SUBSET DOMAIN b.role]

\* Every port has a name of its own, and a role.
ASSUME BoardsAssumption ==
  \A b \in Boards :
    /\ b.builtin \in Seq(DOMAIN b.role) \ {<<>>} /\ b.front \in Seq(DOMAIN b.role)
    /\ \A res \in Results(b) :
         LET all == Devices(b, res) \o Front(b, res)
         IN all \in Seq(DOMAIN b.role) /\ \A i, j \in DOMAIN all : all[i] = all[j] => i = j

\* The netdev a switch hangs on is no port, nor has a port of the switch the name of a
\* VLAN device on it.
ASSUME RolesAssumption ==
  \A b \in Boards :
    /\ DOMAIN b.role = Elements(b.builtin) \cup Elements(b.front) /\ DOMAIN b.role \subseteq STRING
    /\ b.cpu \in (STRING \cup {None}) \ DOMAIN b.role
    /\ \A p \in Elements(b.front) \cap DOMAIN Dotted : Dotted[p].parent # b.cpu

\* What is read of a configuration.
ASSUME ConfsAssumption ==
  \A b \in Boards : \A c \in b.confs :
    /\ \A name \in DOMAIN c.bridges :
         /\ c.bridges[name].ports \subseteq STRING /\ c.bridges[name].vlans \in Seq(Elements(c.bridges[name].vlans))
         /\ \A w \in Elements(c.bridges[name].vlans) :
              /\ w.vid \in Nat /\ DOMAIN w.ports \subseteq STRING
              /\ \A p \in DOMAIN w.ports : w.ports[p] \in {"t", "u", "u*"}
    /\ \A d \in DOMAIN c.vdevs : c.vdevs[d].parent \in STRING /\ c.vdevs[d].vid \in Nat
    /\ \A n \in DOMAIN c.nets : n \in STRING /\ c.nets[n] \in STRING
    /\ \A w \in c.switch : DOMAIN w.ports \subseteq Elements(b.front)

VARIABLES
  board,
  conf,       \* the configuration, as LuCI has it
  links,      \* the ports with link
  loading,    \* what the calls of a poll answered, None between polls
  card,       \* None or [squares, ports, list]: what the squares say, ufData, data-list
  open,       \* the user wants the list
  tip,        \* the square the tip is open for, 0 without
  told,       \* what the tip says
  described,  \* the squares with aria-describedby
  focus,      \* the square with the focus, 0 without
  current,    \* history: drawn from the router as it is, every call answered
  changes,    \* bound
  failures    \* bound

router == <<board, conf, links, changes>>
user == <<open, focus>>
tooltip == <<tip, told, described>>
vars == <<router, loading, card, user, tooltip, current, failures>>

Answers == [builtin : BOOLEAN, topo : BOOLEAN, nets : BOOLEAN]
All == [builtin |-> TRUE, topo |-> TRUE, nets |-> TRUE]
Got(answers) ==
  [builtin |-> answers.builtin, topo |-> answers.topo, nets |-> answers.nets, links |-> links]

-----------------------------------------------------------------------------
(* showTip, hideTip                                                         *)

Hidden == tip' = 0 /\ told' = None /\ described' = {}

\* The port is looked up by the id its square has now.
Shown(c, i, before) ==
  LET found == {k \in DOMAIN c.ports : c.ports[k].id = c.squares[i].id} IN
  IF found = {} THEN Hidden
  ELSE /\ tip' = i
       /\ told' = c.ports[CHOOSE k \in found : \A j \in found : k <= j]
       /\ described' = (before \ {tip}) \cup {i}

-----------------------------------------------------------------------------
(* A poll                                                                   *)

Init ==
  /\ board \in Boards /\ conf \in board.confs
  /\ links = {board.builtin[1]} \cup {board.front[i] : i \in {1} \cap DOMAIN board.front}
  /\ loading = None /\ card = None
  /\ open \in BOOLEAN /\ focus = 0
  /\ tip = 0 /\ told = None /\ described = {} /\ current = FALSE
  /\ changes = 0 /\ failures = 0

\* load: a call that fails counts as one that found nothing.
Ask ==
  /\ loading = None
  /\ \E answers \in Answers :
       /\ \E whole \in {All} : \A k \in DOMAIN answers :
            answers[k] # whole[k] => answers = [whole EXCEPT ![k] = FALSE]
       /\ failures' = failures + (IF answers = All THEN 0 ELSE 1) /\ failures' <= MaxFailures
       /\ loading' = Got(answers)
  /\ UNCHANGED <<router, card, user, tooltip, current>>

\* The list is drawn as the user wants it by now.
Drawn(ports) ==
  IF ports = <<>> THEN None
  ELSE [squares |-> ports, ports |-> ports, list |-> IF open THEN "open" ELSE "closed"]

\* patch, of nodes: a square keeps its node, by its place, and takes what the fresh
\* one says; ufData is taken over with it.
PatchedLook(old, fresh) == [fresh EXCEPT !.ports = old.ports]   \* mutant: ufData stays
Patched(old, fresh) == fresh

NoCard(fresh) == None   \* mutant: a card that is not on the page is not put there
Redrawn(fresh) == IF card = None \/ fresh = None THEN fresh ELSE Patched(card, fresh)

\* ... with the attributes it has not: the tip is shown again where its square is
\* still on the page.
ClosedTip(fresh) == Hidden   \* mutant: any poll closes it
KeptTip(fresh) ==
  IF card = None THEN UNCHANGED tooltip
  ELSE IF tip # 0 /\ fresh # None /\ tip \in DOMAIN fresh.squares THEN Shown(fresh, tip, {})
  ELSE Hidden

Answer ==
  /\ loading # None /\ loading' = None
  /\ LET fresh == Drawn(Collect(board, conf, loading)) IN
       /\ card' = Redrawn(fresh) /\ KeptTip(card')
       /\ focus' = IF card' # None /\ focus \in DOMAIN card'.squares THEN focus ELSE 0
  /\ current' = (loading = Got(All))
  /\ UNCHANGED <<router, open, failures>>

-----------------------------------------------------------------------------
(* The user                                                                 *)

Squares == IF card = None THEN {} ELSE DOMAIN card.squares

\* mouseover
Enter(i) == i # tip /\ Shown(card, i, described) /\ UNCHANGED <<router, loading, card, user, current, failures>>

\* focusin
Focus(i) ==
  /\ i # focus /\ focus' = i /\ Shown(card, i, described)
  /\ UNCHANGED <<router, loading, card, open, current, failures>>

\* focusout
Blur == focus # 0 /\ focus' = 0 /\ Hidden /\ UNCHANGED <<router, loading, card, open, current, failures>>

\* mouseout of a square without the focus; a scroll, a new size, Escape
Hide == tip # 0 /\ Hidden /\ UNCHANGED <<router, loading, card, user, current, failures>>

\* Details
Toggle ==
  /\ card # None
  /\ open' = ~open /\ card' = [card EXCEPT !.list = IF open' THEN "open" ELSE "closed"]
  /\ UNCHANGED <<router, loading, tooltip, focus, current, failures>>

\* A page of the router changes the configuration, or someone plugs a cable.
Changes ==
  /\ changes < MaxChanges /\ changes' = changes + 1 /\ current' = FALSE
  /\ \/ conf' \in board.confs \ {conf} /\ links' = links
     \/ /\ conf' = conf
        /\ \E id \in DOMAIN board.role :
             links' = IF id \in links THEN links \ {id} ELSE links \cup {id}
  /\ UNCHANGED <<board, loading, card, user, tooltip, failures>>

Next ==
  \/ Ask \/ Answer
  \/ \E i \in Squares : Enter(i) \/ Focus(i)
  \/ Blur \/ Hide \/ Toggle \/ Changes

Spec == Init /\ [][Next]_vars

\* The poll comes, and its calls come to an end.
FairSpec == Spec /\ WF_loading(Ask) /\ WF_loading(loading # None /\ loading' = None)

-----------------------------------------------------------------------------
Behind(b) == IF b.cpu = None THEN {} ELSE {d \in DOMAIN Dotted : Dotted[d].parent = b.cpu}
Networks(ports, i, n) ==
  {[vid |-> g.vid, tagged |-> FALSE] : g \in {g \in ports[i].native : n \in g.nets}}
  \cup {[vid |-> g.vid, tagged |-> TRUE] : g \in {g \in ports[i].tagged : n \in g.nets}}

\* With every call answered, each port is shown with the networks whose frames leave
\* through it, in the VLAN and with the tag they have on the wire; the uplink is the
\* port that a WAN leaves through, where that is one.
PanelTellsTheWire ==
  LET ports == IF card = None THEN <<>> ELSE card.squares
      leave(n) == {i \in DOMAIN ports : Wire(board, conf, n, ports[i].id) # {}}
      wan == UNION {leave(n) : n \in Wan \cap DOMAIN conf.nets}
  IN current =>
       /\ {ports[i].id : i \in DOMAIN ports} = DOMAIN board.role \ Behind(board)
       /\ \A i \in DOMAIN ports :
            /\ \A n \in DOMAIN conf.nets : Networks(ports, i, n) = Wire(board, conf, n, ports[i].id)
            /\ ports[i].state = "up" => ports[i].id \in links
            /\ wan = {i} => \A j \in DOMAIN ports : ports[j].uplink <=> j = i

\* A tip says what the square it is open for says, which alone refers to it, and the
\* list is as the user wants it.
PollKeepsTheUser ==
  /\ card # None => card.list = (IF open THEN "open" ELSE "closed")
  /\ IF tip = 0 THEN described = {}
     ELSE card # None /\ described = {tip} /\ told = card.squares[tip]

\* No poll takes the tip or the focus from a square that it leaves on the page.
PollsLeaveTheTip ==
  [][card' # card /\ card' # None =>
       /\ tip \in DOMAIN card'.squares => tip' = tip
       /\ focus \in DOMAIN card'.squares => focus' = focus]_vars

\* The squares come to say what is so, and go on saying it.
CatchesUp == <>[](current /\ card # None)
=============================================================================
