--------------------------- MODULE PortPanelProofs ---------------------------
(* The Port Manager card, for every board whose ports have names of their own    *)
(* and every configuration: what a poll does to the user's tip, focus and list, and  *)
(* that the card says what is on the wire.                                            *)
EXTENDS PortPanel, Integers, TLAPS, NaturalsInduction, WellFoundedInduction

\* No card is what stands for there being none.
NoneIsNoCard == \A ports, list : [squares |-> ports, ports |-> ports, list |-> list] # None

\* What the card is between two polls: its squares are its ports, no two of a name.
CardOk(c) ==
  /\ c = [squares |-> c.ports, ports |-> c.ports, list |-> c.list]
  /\ DOMAIN c.ports \subseteq Nat \ {0}
  /\ \A i, j \in DOMAIN c.ports : c.ports[i].id = c.ports[j].id => i = j

UserInv ==
  /\ board \in Boards /\ links \subseteq DOMAIN board.role
  /\ loading = None \/ loading \in Results(board)
  /\ card # None => CardOk(card) /\ card.list = (IF open THEN "open" ELSE "closed")
  /\ open \in BOOLEAN
  /\ IF tip = 0 THEN described = {}
     ELSE /\ card # None /\ tip \in DOMAIN card.squares
          /\ described = {tip} /\ told = card.squares[tip]

\* A fresh card is one whatever the calls of the poll brought.
LEMMA DrawnOk ==
  ASSUME NEW b \in Boards, NEW c, NEW res \in Results(b),
         Drawn(Collect(b, c, res)) # None
  PROVE  /\ CardOk(Drawn(Collect(b, c, res)))
         /\ Drawn(Collect(b, c, res)).list = (IF open THEN "open" ELSE "closed")
<1> DEFINE all == Devices(b, res) \o Front(b, res)
           ports == Collect(b, c, res)
<1>1. all \in Seq(DOMAIN b.role) /\ \A i, j \in DOMAIN all : all[i] = all[j] => i = j
  BY BoardsAssumption DEF BoardsAssumption
<1>2. DOMAIN ports = DOMAIN all /\ \A i \in DOMAIN all : ports[i].id = all[i]
  BY DEF Collect
<1> HIDE DEF all, ports
<1>6. DOMAIN all \subseteq Nat \ {0}
  BY <1>1
<1>3. Drawn(ports) = [squares |-> ports, ports |-> ports, list |-> IF open THEN "open" ELSE "closed"]
  BY DEF Drawn, ports
<1>4. \A i, j \in DOMAIN ports : ports[i].id = ports[j].id => i = j
  BY <1>1, <1>2
<1>5. CardOk(Drawn(ports))
  BY <1>2, <1>3, <1>4, <1>6 DEF CardOk
<1> QED BY <1>3, <1>5 DEF ports

\* A square that is on the card has its own port's tip.
LEMMA ShownHere ==
  ASSUME NEW c, CardOk(c), NEW i \in DOMAIN c.squares, NEW before, Shown(c, i, before)
  PROVE  i # 0 /\ tip' = i /\ told' = c.squares[i] /\ described' = (before \ {tip}) \cup {i}
<1> DEFINE found == {k \in DOMAIN c.ports : c.ports[k].id = c.squares[i].id}
<1>1. found = {i} /\ i \in Nat \ {0}
  BY DEF CardOk
<1>2. tip' = i /\ told' = c.ports[CHOOSE k \in found : \A j \in found : k <= j]
      /\ described' = (before \ {tip}) \cup {i}
  BY <1>1 DEF Shown
<1>3. (CHOOSE k \in found : \A j \in found : k <= j) \in found
  BY <1>1
<1> QED BY <1>1, <1>2, <1>3 DEF CardOk

LEMMA UserInit ==
  ASSUME Init
  PROVE  UserInv
<1>1. board \in Boards
  BY DEF Init
<1>2. board.builtin \in Seq(DOMAIN board.role) \ {<<>>} /\ board.front \in Seq(DOMAIN board.role)
  BY <1>1, BoardsAssumption DEF BoardsAssumption
<1>3. links \subseteq DOMAIN board.role
  BY <1>2 DEF Init
<1> QED BY <1>1, <1>3 DEF Init, UserInv

LEMMA UserStep ==
  ASSUME NoneIsNoCard, UserInv, [Next]_vars
  PROVE  UserInv'
<1> USE DEF UserInv
<1>1. CASE UNCHANGED vars
  BY <1>1 DEF vars, router, user, tooltip, CardOk
<1>2. CASE Ask
  <2>1. UNCHANGED <<board, links, card, open, tip, told, described>>
    BY <1>2 DEF Ask, router, user, tooltip
  <2>2. loading' \in Results(board)
    BY <1>2 DEF Ask, Answers, Got, Results
  <2> QED BY <2>1, <2>2 DEF CardOk
<1>3. CASE Answer
  <2> DEFINE fresh == Drawn(Collect(board, conf, loading))
  <2>1. UNCHANGED <<board, links, open>> /\ loading' = None /\ loading \in Results(board)
    BY <1>3 DEF Answer, router
  <2>2. card' = fresh
    BY <1>3 DEF Answer, Redrawn, Patched
  <2>3. fresh # None => CardOk(fresh) /\ fresh.list = (IF open THEN "open" ELSE "closed")
    BY <2>1, DrawnOk
  <2>4. KeptTip(fresh)
    BY <1>3, <2>2 DEF Answer
  <2> HIDE DEF fresh
  <2>5. IF tip' = 0 THEN described' = {}
        ELSE /\ fresh # None /\ tip' \in DOMAIN fresh.squares
             /\ described' = {tip'} /\ told' = fresh.squares[tip']
    <3>1. CASE card = None
      BY <2>4, <3>1 DEF KeptTip, tooltip
    <3>2. CASE Hidden
      BY <3>2 DEF Hidden
    <3>3. CASE fresh # None /\ tip \in DOMAIN fresh.squares /\ Shown(fresh, tip, {})
      <4>1. tip # 0 /\ tip' = tip /\ told' = fresh.squares[tip] /\ described' = ({} \ {tip}) \cup {tip}
        BY <2>3, <3>3, ShownHere
      <4> QED BY <3>3, <4>1
    <3> QED BY <2>4, <3>1, <3>2, <3>3 DEF KeptTip
  <2> QED BY <2>1, <2>2, <2>3, <2>5
<1>4. ASSUME NEW i \in Squares, Enter(i) \/ Focus(i) PROVE UserInv'
  <2>1. /\ UNCHANGED <<board, links, loading, card, open>> /\ Shown(card, i, described)
        /\ card # None /\ i \in DOMAIN card.squares
    BY <1>4 DEF Enter, Focus, router, user, Squares
  <2>2. i # 0 /\ tip' = i /\ told' = card.squares[i] /\ described' = (described \ {tip}) \cup {i}
    BY <2>1, ShownHere
  <2>3. described \ {tip} = {}
    OBVIOUS
  <2> QED BY <2>1, <2>2, <2>3
<1>5. CASE Blur \/ Hide
  BY <1>5 DEF Blur, Hide, Hidden, router, user
<1>6. CASE Toggle
  <2>1. /\ UNCHANGED <<board, links, loading, tip, told, described>> /\ open' = ~open
        /\ card # None /\ card' = [card EXCEPT !.list = IF open' THEN "open" ELSE "closed"]
    BY <1>6 DEF Toggle, router, tooltip
  <2>2. /\ card = [squares |-> card.ports, ports |-> card.ports, list |-> card.list]
        /\ DOMAIN card.ports \subseteq Nat \ {0}
        /\ \A i, j \in DOMAIN card.ports : card.ports[i].id = card.ports[j].id => i = j
    BY <2>1 DEF CardOk
  <2>3. card' = [squares |-> card.ports, ports |-> card.ports,
                 list |-> IF open' THEN "open" ELSE "closed"]
    BY <2>1, <2>2
  <2>4. card' # None
    BY <2>3 DEF NoneIsNoCard
  <2>5. CardOk(card') /\ card'.list = (IF open' THEN "open" ELSE "closed")
    BY <2>2, <2>3 DEF CardOk
  <2>6. card'.squares = card.squares
    BY <2>2, <2>3
  <2> QED BY <2>1, <2>4, <2>5, <2>6
<1>7. CASE Changes
  <2>1. UNCHANGED <<board, loading, card, open, tip, told, described>>
    BY <1>7 DEF Changes, user, tooltip
  <2>2. links' \subseteq DOMAIN board.role
    BY <1>7 DEF Changes
  <2> QED BY <2>1, <2>2
<1> QED BY <1>1, <1>2, <1>3, <1>4, <1>5, <1>6, <1>7 DEF Next

\* A tip says what its square says, the list is as the user wants it: through any
\* polls, failing calls, changes of the router and moves of the pointer, on any board.
THEOREM PollKeeps == NoneIsNoCard => (Spec => []PollKeepsTheUser)
<1> SUFFICES ASSUME NoneIsNoCard PROVE Spec => []PollKeepsTheUser
  OBVIOUS
<1>1. Init => UserInv
  BY UserInit
<1>2. UserInv => PollKeepsTheUser
  BY DEF UserInv, PollKeepsTheUser
<1> QED BY <1>1, <1>2, UserStep, PTL DEF Spec

\* No poll takes the tip or the focus from a square that it leaves on the page.
THEOREM TipStays == NoneIsNoCard => (Spec => PollsLeaveTheTip)
<1> SUFFICES ASSUME NoneIsNoCard PROVE Spec => PollsLeaveTheTip
  OBVIOUS
<1> DEFINE Left == card' # card /\ card' # None =>
                     /\ tip \in DOMAIN card'.squares => tip' = tip
                     /\ focus \in DOMAIN card'.squares => focus' = focus
<1>1. UserInv /\ [Next]_vars => Left
  <2> SUFFICES ASSUME UserInv, Next, card' # card, card' # None
               PROVE  /\ tip \in DOMAIN card'.squares => tip' = tip
                      /\ focus \in DOMAIN card'.squares => focus' = focus
    BY DEF vars
  <2>1. Answer \/ Toggle
    BY DEF Next, Ask, Enter, Focus, Blur, Hide, Changes
  <2>2. CASE Toggle
    BY <2>2 DEF Toggle, tooltip
  <2>3. CASE Answer
    <3>1. focus \in DOMAIN card'.squares => focus' = focus
      BY <2>3 DEF Answer
    <3>2. CardOk(card')
      BY <2>3, DrawnOk DEF Answer, UserInv, Redrawn, Patched
    <3>3. KeptTip(card')
      BY <2>3 DEF Answer
    <3>4. ASSUME tip \in DOMAIN card'.squares PROVE tip' = tip
      <4>1. tip # 0
        BY <3>2, <3>4 DEF CardOk
      <4>2. card # None
        BY <4>1 DEF UserInv
      <4>3. Shown(card', tip, {})
        BY <3>3, <3>4, <4>1, <4>2 DEF KeptTip
      <4> QED BY <3>2, <3>4, <4>3, ShownHere
    <3> QED BY <3>1, <3>4
  <2> QED BY <2>1, <2>2, <2>3
<1>2. Init => UserInv
  BY UserInit
<1>3. UserInv /\ [Next]_vars => [Left]_vars
  BY <1>1
<1> QED BY <1>2, <1>3, UserStep, PTL DEF Spec, PollsLeaveTheTip

-----------------------------------------------------------------------------
(* Numbers                                                                *)

LEMMA NatMin ==
  ASSUME NEW T, T \subseteq Nat, T # {}
  PROVE  \E x \in T : \A y \in T : x <= y
<1> DEFINE R == {ss \in Nat \X Nat : ss[1] < ss[2]}
<1>1. IsWellFoundedOn(R, Nat)
  BY NatLessThanWellFounded DEF OpToRel
<1> HIDE DEF R
<1>2. PICK x \in T : \A y \in T : ~(<<y, x>> \in R)
  BY <1>1, WFMin
<1>3. ASSUME NEW y \in T PROVE x <= y
  <2>1. <<y, x>> \in Nat \X Nat /\ <<y, x>>[1] = y /\ <<y, x>>[2] = x
    OBVIOUS
  <2>2. ~(y < x)
    BY <1>2, <2>1 DEF R
  <2> QED BY <2>2
<1> QED BY <1>3

LEMMA SegmentMax ==
  ASSUME NEW n \in Nat, NEW T, T \subseteq 1..n, T # {}
  PROVE  \E x \in T : \A y \in T : y <= x
<1> DEFINE U == {n - y : y \in T}
<1>1. U \subseteq Nat /\ U # {}
  OBVIOUS
<1>2. PICK u \in U : \A w \in U : u <= w
  <2> HIDE DEF U
  <2> QED BY <1>1, NatMin
<1>3. PICK x \in T : u = n - x
  OBVIOUS
<1>4. ASSUME NEW y \in T PROVE y <= x
  <2>1. n - x <= n - y
    BY <1>2, <1>3
  <2> QED BY <2>1
<1> QED BY <1>4

\* From one to the next, up to n.
LEMMA UpTo ==
  ASSUME NEW n \in Nat, NEW S, 0 \in S, \A i \in 1..n : i - 1 \in S => i \in S
  PROVE  0..n \subseteq S
<1> SUFFICES ASSUME NEW m \in 0..n, m \notin S PROVE FALSE
  OBVIOUS
<1> DEFINE T == {i \in 0..n : i \notin S}
<1>1. PICK x \in T : \A y \in T : x <= y
  <2>1. T \subseteq Nat /\ T # {}
    OBVIOUS
  <2> HIDE DEF T
  <2> QED BY <2>1, NatMin
<1>2. x # 0 /\ x \in 1..n
  OBVIOUS
<1>3. x - 1 \in S
  BY <1>1, <1>2
<1> QED BY <1>2, <1>3

-----------------------------------------------------------------------------
(* The recursion of resolveMembers has a value                            *)

\* The least of what every step of F keeps above itself is one that F leaves as it is.
Monotone(F, D, M) ==
  /\ F \in [[D -> SUBSET M] -> [D -> SUBSET M]]
  /\ \A f, g \in [D -> SUBSET M] :
       (\A x \in D : f[x] \subseteq g[x]) => \A x \in D : F[f][x] \subseteq F[g][x]

LEMMA Fixpoint ==
  ASSUME NEW D, NEW M, NEW F, Monotone(F, D, M)
  PROVE  \E f \in [D -> SUBSET M] : f = F[f]
<1> USE DEF Monotone
<1> DEFINE P == {g \in [D -> SUBSET M] : \A x \in D : F[g][x] \subseteq g[x]}
           f == [x \in D |-> {m \in M : \A g \in P : m \in g[x]}]
<1>1. f \in [D -> SUBSET M]
  OBVIOUS
<1>2. F[f] \in [D -> SUBSET M]
  BY <1>1
<1>3. \A g \in P : \A x \in D : f[x] \subseteq g[x]
  OBVIOUS
<1>4. ASSUME NEW g \in P PROVE \A x \in D : F[f][x] \subseteq g[x]
  <2>1. g \in [D -> SUBSET M] /\ \A x \in D : F[g][x] \subseteq g[x]
    OBVIOUS
  <2>2. \A x \in D : f[x] \subseteq g[x]
    BY <1>3
  <2> HIDE DEF f, P
  <2>3. \A x \in D : F[f][x] \subseteq F[g][x]
    BY <1>1, <2>1, <2>2
  <2> QED BY <2>1, <2>3
<1>5. \A x \in D : F[f][x] \subseteq f[x]
  BY <1>2, <1>4
<1>6. F[f] \in P
  <2> HIDE DEF f
  <2>1. \A x \in D : F[F[f]][x] \subseteq F[f][x]
    BY <1>1, <1>2, <1>5
  <2> QED BY <1>2, <2>1
<1>7. \A x \in D : F[f][x] = f[x]
  BY <1>3, <1>5, <1>6
<1> HIDE DEF f
<1> QED BY <1>1, <1>2, <1>7

Ways == [port : STRING, vid : Nat \cup {None}, tagged : BOOLEAN]

LEMMA LeafVisit ==
  ASSUME NEW c, NEW T, \A name \in STRING : Leaves(c, T, name) \subseteq Ways,
         NEW v \in Visits, NEW leaf \in Leaves(c, T, v.name)
  PROVE  /\ Emit(v.ctx, leaf) \in Ways
         /\ [name |-> leaf.port, ctx |-> Onward(v.ctx, leaf), seen |-> v.seen \cup {v.name}] \in Visits
<1>0. v.name \in STRING /\ v.ctx \in Context /\ v.seen \in SUBSET STRING
  BY DEF Visits
<1>1. leaf.port \in STRING /\ leaf.vid \in Nat \cup {None} /\ leaf.tagged \in BOOLEAN
  BY <1>0 DEF Ways
<1>2. v.ctx.vid \in Nat \cup {None} /\ v.ctx.tagged \in BOOLEAN
  BY <1>0 DEF Context
<1>3. Emit(v.ctx, leaf) \in Ways
  BY <1>1, <1>2 DEF Emit, Ways
<1>4. Onward(v.ctx, leaf) \in Context
  BY <1>0, <1>1 DEF Onward, Context
<1>5. v.seen \cup {v.name} \in SUBSET STRING
  BY <1>0
<1> QED BY <1>1, <1>3, <1>4, <1>5 DEF Visits

\* The recursion has a value: what a step of it makes of the values below.
LEMMA ResolveIs ==
  ASSUME NEW c, NEW T,
         \A name \in STRING : Leaves(c, T, name) \subseteq Ways
  PROVE  \E f : /\ \A v \in Visits : f[v] = Visited(c, T, f, v)
                /\ \A device : Resolve(c, T, device) =
                     f[[name |-> device, ctx |-> [vid |-> None, tagged |-> FALSE], seen |-> {}]]
<1> DEFINE Step(f) == [v \in Visits |-> Visited(c, T, f, v)]
           A == [Visits -> SUBSET Ways]
           F == [f \in A |-> Step(f)]
<1>1. ASSUME NEW f \in A, NEW v \in Visits PROVE Visited(c, T, f, v) \in SUBSET Ways
  <2>1. v.name \in STRING /\ v.ctx \in Context /\ v.seen \in SUBSET STRING
    BY DEF Visits
  <2>2. ASSUME NEW leaf \in Leaves(c, T, v.name)
        PROVE  /\ Emit(v.ctx, leaf) \in Ways
               /\ [name |-> leaf.port, ctx |-> Onward(v.ctx, leaf), seen |-> v.seen \cup {v.name}] \in Visits
    BY LeafVisit
  <2> QED BY <2>2 DEF Visited
<1>2. ASSUME NEW f \in A, NEW g \in A, \A v \in Visits : f[v] \subseteq g[v], NEW v \in Visits
      PROVE  Visited(c, T, f, v) \subseteq Visited(c, T, g, v)
  <2>1. ASSUME NEW leaf \in Leaves(c, T, v.name)
        PROVE  [name |-> leaf.port, ctx |-> Onward(v.ctx, leaf), seen |-> v.seen \cup {v.name}] \in Visits
    BY LeafVisit
  <2> DEFINE next(leaf) == [name |-> leaf.port, ctx |-> Onward(v.ctx, leaf), seen |-> v.seen \cup {v.name}]
  <2>2. \A leaf \in Leaves(c, T, v.name) : f[next(leaf)] \subseteq g[next(leaf)]
    BY <1>2, <2>1
  <2> QED BY <2>2 DEF Visited
<1>3. \A f \in A : Step(f) \in A
  BY <1>1
<1>4. F \in [A -> A]
  BY <1>3
<1>5. ASSUME NEW f \in A, NEW g \in A, \A v \in Visits : f[v] \subseteq g[v], NEW v \in Visits
      PROVE  F[f][v] \subseteq F[g][v]
  BY <1>2, <1>5
<1> HIDE DEF Step
<1>6. \A f \in A : F[f] = Step(f)
  OBVIOUS
<1> HIDE DEF F
<1>7. PICK f \in A : f = F[f]
  <2>1. Monotone(F, Visits, Ways)
    BY <1>4, <1>5 DEF Monotone
  <2>2. \E f \in [Visits -> SUBSET Ways] : f = F[f]
    BY <2>1, Fixpoint
  <2> QED BY <2>2
<1>8. f = Step(f)
  BY <1>6, <1>7
<1> DEFINE g == CHOOSE h : h = Step(h)
<1>9. g = Step(g)
  BY <1>8
<1> HIDE DEF g
<1>10. \A v \in Visits : g[v] = Visited(c, T, g, v)
  BY <1>9 DEF Step
<1>11. \A device : Resolve(c, T, device) =
         g[[name |-> device, ctx |-> [vid |-> None, tagged |-> FALSE], seen |-> {}]]
  BY DEF Resolve, g, Step
<1> QED BY <1>10, <1>11

-----------------------------------------------------------------------------
(* Frames, and what the panel makes of them                               *)

\* What is read of a configuration.
ConfOk(c) ==
  /\ \A name \in DOMAIN c.bridges :
       /\ c.bridges[name].ports \subseteq STRING /\ c.bridges[name].vlans \in Seq(Elements(c.bridges[name].vlans))
       /\ \A w \in Elements(c.bridges[name].vlans) :
            /\ w.vid \in Nat /\ DOMAIN w.ports \subseteq STRING
            /\ \A p \in DOMAIN w.ports : w.ports[p] \in {"t", "u", "u*"}
  /\ \A d \in DOMAIN c.vdevs : c.vdevs[d].parent \in STRING /\ c.vdevs[d].vid \in Nat
  /\ \A n \in DOMAIN c.nets : n \in STRING /\ c.nets[n] \in STRING

Frames == [at : STRING, tags : Seq(Nat), vlan : Nat \cup {None}]
\* As what a frame is taken where it leaves.
Way(f) == [port |-> f.at, vid |-> Look(f).vid, tagged |-> Look(f).tagged]

LEMMA ParentOk ==
  ASSUME NEW c, ConfOk(c), NEW x, Parent(c, x) # None
  PROVE  Parent(c, x).parent \in STRING /\ Parent(c, x).vid \in Nat
BY NamesAssumption DEF NamesAssumption, ConfOk, Parent

LEMMA Laid ==
  ASSUME NEW v \in Nat, NEW s \in Seq(Nat)
  PROVE  LET t == <<v>> \o s IN t \in Seq(Nat) /\ t # <<>> /\ Head(t) = v /\ Tail(t) = s
<1> DEFINE t == <<v>> \o s
<1>1. t \in Seq(Nat) /\ Len(t) = 1 + Len(s) /\ t[1] = v /\ \A i \in 1..Len(s) : t[i + 1] = s[i]
  OBVIOUS
<1>2. t # <<>> /\ Head(t) = v
  BY <1>1
<1>3. Tail(t) = s
  BY <1>1, <1>2
<1> QED BY <1>1, <1>2, <1>3

LEMMA AcrossOk ==
  ASSUME NEW c, ConfOk(c), NEW name \in DOMAIN c.bridges, NEW tags \in Seq(Nat)
  PROVE  Across(c.bridges[name], tags) \subseteq Frames
<1> DEFINE br == c.bridges[name]
<1> SUFFICES ASSUME NEW g \in Across(br, tags) PROVE g \in Frames
  OBVIOUS
<1>1. br.ports \subseteq STRING /\ \A w \in Elements(br.vlans) : w.vid \in Nat /\ DOMAIN w.ports \subseteq STRING
  BY DEF ConfOk
<1> HIDE DEF br
<1>2. CASE ~Filtering(br)
  BY <1>1, <1>2 DEF Across, Frames
<1>3. CASE Filtering(br) /\ tags = <<>>
  <2>1. PICK w \in Elements(br.vlans) : \E p \in DOMAIN w.ports : g = [at |-> p, tags |-> <<>>, vlan |-> w.vid]
    BY <1>3 DEF Across
  <2>2. w.vid \in Nat /\ DOMAIN w.ports \subseteq STRING /\ <<>> \in Seq(Nat)
    BY <1>1, <2>1
  <2> QED BY <2>1, <2>2 DEF Frames
<1>4. CASE Filtering(br) /\ tags # <<>>
  <2> DEFINE untagged(w) == {p \in DOMAIN w.ports : w.ports[p] # "t"}
             out(w, p) == [at |-> p, tags |-> IF p \in untagged(w) THEN Tail(tags) ELSE <<w.vid>> \o Tail(tags),
                           vlan |-> w.vid]
  <2>0. PICK w \in Elements(br.vlans) : \E p \in DOMAIN w.ports : g = out(w, p)
    BY <1>4 DEF Across
  <2>1. PICK p \in DOMAIN w.ports :
          /\ g.at = p /\ g.vlan = w.vid /\ (g.tags = Tail(tags) \/ g.tags = <<w.vid>> \o Tail(tags))
          /\ g = [at |-> g.at, tags |-> g.tags, vlan |-> g.vlan]
    BY <2>0
  <2>2. Tail(tags) \in Seq(Nat)
    BY <1>4
  <2>3. <<w.vid>> \o Tail(tags) \in Seq(Nat)
    BY <1>1, <2>1, <2>2
  <2>4. g.at \in STRING /\ g.tags \in Seq(Nat) /\ g.vlan \in Nat
    BY <1>1, <2>1, <2>2, <2>3
  <2> QED BY <2>1, <2>4 DEF Frames
<1> QED BY <1>2, <1>3, <1>4

LEMMA BelowOk ==
  ASSUME NEW c, ConfOk(c), NEW f \in Frames
  PROVE  Below(c, f) \subseteq Frames
<1> DEFINE over == Parent(c, f.at)
           tags == <<over.vid>> \o f.tags
<1>1. f.tags \in Seq(Nat)
  BY DEF Frames
<1>2. CASE over # None
  <2>1. over.parent \in STRING /\ over.vid \in Nat
    BY <1>2, ParentOk
  <2>2. tags \in Seq(Nat)
    BY <1>1, <2>1
  <2> HIDE DEF over, tags
  <2>3. CASE over.parent \in DOMAIN c.bridges
    <3>1. Below(c, f) = Across(c.bridges[over.parent], tags)
      BY <1>2, <2>3 DEF Below, over, tags
    <3> QED BY <2>2, <2>3, <3>1, AcrossOk
  <2>4. CASE over.parent \notin DOMAIN c.bridges
    <3>1. Below(c, f) = {[at |-> over.parent, tags |-> tags, vlan |-> None]}
      BY <1>2, <2>4 DEF Below, over, tags
    <3> QED BY <2>1, <2>2, <3>1 DEF Frames
  <2> QED BY <2>3, <2>4
<1>3. CASE over = None /\ f.at \in DOMAIN c.bridges
  <2>1. Below(c, f) = Across(c.bridges[f.at], f.tags)
    BY <1>3 DEF Below
  <2> QED BY <1>1, <1>3, <2>1, AcrossOk
<1>4. CASE over = None /\ f.at \notin DOMAIN c.bridges
  BY <1>4 DEF Below
<1> QED BY <1>2, <1>3, <1>4

\* What a frame meets: the panel looks at the layer below as the wire has it.
Agree(f, leaf, g) ==
  /\ leaf.port = g.at /\ Emit(Look(f), leaf) = Way(g) /\ Onward(Look(f), leaf) = Look(g)
Match(c, T, f) ==
  /\ \A leaf \in Leaves(c, T, f.at) : \E g \in Below(c, f) : Agree(f, leaf, g)
  /\ \A g \in Below(c, f) : \E leaf \in Leaves(c, T, f.at) : Agree(f, leaf, g)

\* A frame for which that is so.
Good(c, f) ==
  \/ Plain(c, f.at)
  \/ /\ f.tags = <<>> /\ f.vlan = None
     /\ Parent(c, f.at) = None /\ f.at \in DOMAIN c.bridges /\ Filtering(c.bridges[f.at]) => Pvids(c.bridges[f.at])

LEMMA LookOk ==
  ASSUME NEW f \in Frames
  PROVE  /\ Look(f) \in Context
         /\ f.tags # <<>> => Look(f).vid # None
<1>1. f.tags # <<>> => Head(f.tags) \in Nat
  BY DEF Frames
<1> QED BY <1>1, NamesAssumption DEF NamesAssumption, Frames, Look, Context

\* Tagged on the way, whatever was on it.
LEMMA AgreeTagged ==
  ASSUME NEW f \in Frames, NEW v \in Nat, NEW p
  PROVE  Agree(f, [port |-> p, vid |-> v, tagged |-> TRUE], [at |-> p, tags |-> <<v>> \o f.tags, vlan |-> None])
<1> DEFINE tags == <<v>> \o f.tags
           leaf == [port |-> p, vid |-> v, tagged |-> TRUE]
           g == [at |-> p, tags |-> tags, vlan |-> None]
<1>1. tags # <<>> /\ Head(tags) = v
  BY Laid DEF Frames
<1> HIDE DEF tags
<1>2. Look(g) = [vid |-> v, tagged |-> TRUE]
  BY <1>1 DEF Look
<1>3. v # None
  BY NamesAssumption DEF NamesAssumption
<1>4. Emit(Look(f), leaf) = [port |-> p, vid |-> v, tagged |-> TRUE]
  BY <1>3 DEF Emit
<1>5. Onward(Look(f), leaf) = [vid |-> v, tagged |-> TRUE]
  BY <1>3 DEF Onward
<1>6. leaf.port = p /\ g.at = p
  OBVIOUS
<1> HIDE DEF leaf, g
<1>7. Agree(f, leaf, g)
  BY <1>2, <1>4, <1>5, <1>6 DEF Agree, Way
<1> QED BY <1>7 DEF leaf, g, tags

\* Untagged in a VLAN, where no tag was on it.
LEMMA AgreeUntagged ==
  ASSUME NEW f, f.tags = <<>>, NEW v \in Nat, NEW p
  PROVE  Agree(f, [port |-> p, vid |-> v, tagged |-> FALSE], [at |-> p, tags |-> <<>>, vlan |-> v])
<1>1. v # None
  BY NamesAssumption DEF NamesAssumption
<1> QED BY <1>1 DEF Agree, Way, Look, Emit, Onward

\* As it was.
LEMMA AgreeThrough ==
  ASSUME NEW f \in Frames, f.tags # <<>> \/ f.vlan = None, NEW p
  PROVE  Agree(f, [port |-> p, vid |-> None, tagged |-> FALSE], [at |-> p, tags |-> f.tags, vlan |-> None])
<1>1. CASE f.tags = <<>>
  BY <1>1 DEF Agree, Way, Look, Emit, Onward
<1>2. CASE f.tags # <<>>
  BY <1>2, LookOk DEF Agree, Way, Look, Emit, Onward
<1> QED BY <1>1, <1>2

-----------------------------------------------------------------------------
(* One layer                                                              *)

\* Through a bridge that does not filter, to its ports.
LEMMA MatchFlat ==
  ASSUME NEW c, NEW T, ConfOk(c), NEW f \in Frames, f.at \notin T,
         Parent(c, f.at) # None, Parent(c, f.at).parent \in DOMAIN c.bridges,
         ~Filtering(c.bridges[Parent(c, f.at).parent])
  PROVE  Match(c, T, f)
<1> DEFINE over == Parent(c, f.at)
           br == c.bridges[over.parent]
           leaf(p) == [port |-> p, vid |-> over.vid, tagged |-> TRUE]
           g(p) == [at |-> p, tags |-> <<over.vid>> \o f.tags, vlan |-> None]
<1>1. over.vid \in Nat
  BY ParentOk
<1>2. Leaves(c, T, f.at) = {leaf(p) : p \in br.ports}
  BY DEF Leaves
<1>3. Below(c, f) = {g(p) : p \in br.ports}
  BY DEF Below, Across
<1>4. \A p : Agree(f, leaf(p), g(p))
  BY <1>1, AgreeTagged
<1> HIDE DEF br, leaf, g
<1> QED BY <1>2, <1>3, <1>4 DEF Match

\* Over what is no bridge.
LEMMA MatchDevice ==
  ASSUME NEW c, NEW T, ConfOk(c), NEW f \in Frames, f.at \notin T,
         Parent(c, f.at) # None, Parent(c, f.at).parent \notin DOMAIN c.bridges
  PROVE  Match(c, T, f)
<1> DEFINE over == Parent(c, f.at)
           leaf == [port |-> over.parent, vid |-> over.vid, tagged |-> TRUE]
           g == [at |-> over.parent, tags |-> <<over.vid>> \o f.tags, vlan |-> None]
<1>1. over.vid \in Nat
  BY ParentOk
<1>2. Leaves(c, T, f.at) = {leaf}
  BY DEF Leaves
<1>3. Below(c, f) = {g}
  BY DEF Below
<1>4. Agree(f, leaf, g)
  BY <1>1, AgreeTagged
<1> HIDE DEF leaf, g
<1> QED BY <1>2, <1>3, <1>4 DEF Match

\* In a VLAN of a bridge that filters.
LEMMA MatchVlan ==
  ASSUME NEW c, NEW T, ConfOk(c), NEW f \in Frames, f.at \notin T, f.tags = <<>>,
         Parent(c, f.at) # None, Parent(c, f.at).parent \in DOMAIN c.bridges,
         Filtering(c.bridges[Parent(c, f.at).parent])
  PROVE  Match(c, T, f)
<1> DEFINE over == Parent(c, f.at)
           br == c.bridges[over.parent]
           W == {w \in Elements(br.vlans) : over.vid \in {w.vid} \cup w.aliases}
           leaf(w, p) == [port |-> p, vid |-> w.vid, tagged |-> w.ports[p] = "t"]
           tags == <<over.vid>> \o f.tags
           untagged(w) == {p \in DOMAIN w.ports : w.ports[p] # "t"}
           g(w, p) == [at |-> p, tags |-> IF p \in untagged(w) THEN Tail(tags) ELSE <<w.vid>> \o Tail(tags),
                       vlan |-> w.vid]
<1>1. over.vid \in Nat /\ \A w \in W : w.vid \in Nat
  BY ParentOk DEF ConfOk
<1>2. tags # <<>> /\ Head(tags) = over.vid /\ Tail(tags) = f.tags
  BY <1>1, Laid DEF Frames
<1>3. Leaves(c, T, f.at) = UNION {{leaf(w, p) : p \in DOMAIN w.ports} : w \in W}
  BY DEF Leaves
<1>4. Below(c, f) = UNION {{g(w, p) : p \in DOMAIN w.ports} : w \in W}
  BY <1>2 DEF Below, Across
<1> HIDE DEF over, W, tags
<1>5. ASSUME NEW w \in W, NEW p \in DOMAIN w.ports PROVE Agree(f, leaf(w, p), g(w, p))
  <2>1. CASE w.ports[p] = "t"
    <3>1. leaf(w, p) = [port |-> p, vid |-> w.vid, tagged |-> TRUE]
      BY <2>1
    <3>2. g(w, p) = [at |-> p, tags |-> <<w.vid>> \o f.tags, vlan |-> w.vid]
      BY <1>2, <2>1
    <3>3. <<w.vid>> \o f.tags # <<>>
      BY <1>1, Laid DEF Frames
    <3>4. Agree(f, [port |-> p, vid |-> w.vid, tagged |-> TRUE],
                   [at |-> p, tags |-> <<w.vid>> \o f.tags, vlan |-> None])
      BY <1>1, AgreeTagged
    <3> QED BY <3>1, <3>2, <3>3, <3>4 DEF Agree, Way, Look
  <2>2. CASE w.ports[p] # "t"
    <3>1. leaf(w, p) = [port |-> p, vid |-> w.vid, tagged |-> FALSE]
      BY <2>2
    <3>2. g(w, p) = [at |-> p, tags |-> <<>>, vlan |-> w.vid]
      BY <1>2, <2>2
    <3>3. Agree(f, [port |-> p, vid |-> w.vid, tagged |-> FALSE], [at |-> p, tags |-> <<>>, vlan |-> w.vid])
      BY <1>1, AgreeUntagged
    <3> QED BY <3>1, <3>2, <3>3
  <2> QED BY <2>1, <2>2
<1> HIDE DEF leaf, g
<1> QED BY <1>3, <1>4, <1>5 DEF Match

\* On a bridge that does not filter.
LEMMA MatchBridge ==
  ASSUME NEW c, NEW T, NEW f \in Frames, f.at \notin T, f.vlan = None,
         Parent(c, f.at) = None, f.at \in DOMAIN c.bridges, ~Filtering(c.bridges[f.at])
  PROVE  Match(c, T, f)
<1> DEFINE br == c.bridges[f.at]
           leaf(p) == [port |-> p, vid |-> None, tagged |-> FALSE]
           g(p) == [at |-> p, tags |-> f.tags, vlan |-> None]
<1>1. \A p : Native(br, p) = None
  BY DEF Native
<1>2. Leaves(c, T, f.at) = {leaf(p) : p \in br.ports}
  BY <1>1 DEF Leaves
<1>3. Below(c, f) = {g(p) : p \in br.ports}
  BY DEF Below, Across
<1>4. \A p : Agree(f, leaf(p), g(p))
  BY AgreeThrough
<1> HIDE DEF br, leaf, g
<1> QED BY <1>2, <1>3, <1>4 DEF Match

\* On a bridge that filters.
Flagged(br) == \A w \in Elements(br.vlans) : \A p \in DOMAIN w.ports : w.ports[p] \in {"t", "u", "u*"}
OnlyIn(br, p, i) ==
  {j \in DOMAIN br.vlans : p \in DOMAIN br.vlans[j].ports /\ br.vlans[j].ports[p] # "t"} = {i}

LEMMA NativeIs ==
  ASSUME NEW br, Filtering(br), DOMAIN br.vlans \subseteq Nat, Flagged(br),
         NEW p, NEW i \in DOMAIN br.vlans, OnlyIn(br, p, i)
  PROVE  Native(br, p) = br.vlans[i].vid
<1> DEFINE with(flags) == {j \in DOMAIN br.vlans :
                             p \in DOMAIN br.vlans[j].ports /\ br.vlans[j].ports[p] \in flags}
<1>1. \A j \in DOMAIN br.vlans : br.vlans[j] \in Elements(br.vlans)
  BY DEF Elements
<1>2. with({"u", "u*"}) = {i}
  BY <1>1 DEF Flagged, OnlyIn
<1>3. with({"u*"}) # {} => with({"u*"}) = {i}
  BY <1>2
<1>4. with({"u*"}) = {} => with({"u"}) = {i}
  BY <1>2
<1> HIDE DEF with
<1>5. i <= i
  OBVIOUS
<1>6. with({"u*"}) # {} => (CHOOSE k \in with({"u*"}) : \A j \in with({"u*"}) : j <= k) = i
  BY <1>3, <1>5
<1>7. with({"u*"}) = {} => (CHOOSE k \in with({"u"}) : \A j \in with({"u"}) : k <= j) = i
  BY <1>4, <1>5
<1> QED BY <1>2, <1>6, <1>7 DEF Native, with

LEMMA MatchPvids ==
  ASSUME NEW c, NEW T, ConfOk(c), NEW f \in Frames, f.at \notin T, f.tags = <<>>,
         Parent(c, f.at) = None, f.at \in DOMAIN c.bridges, Filtering(c.bridges[f.at]),
         Pvids(c.bridges[f.at])
  PROVE  Match(c, T, f)
<1> DEFINE br == c.bridges[f.at]
           untagged(w) == {p \in DOMAIN w.ports : w.ports[p] # "t"}
           leaf(p) == [port |-> p, vid |-> Native(br, p), tagged |-> FALSE]
           g(w, p) == [at |-> p, tags |-> <<>>, vlan |-> w.vid]
<1>1. /\ DOMAIN br.vlans \subseteq Nat /\ \A w \in Elements(br.vlans) : w.vid \in Nat
      /\ Flagged(br)
  BY DEF ConfOk, Flagged
<1>2. Leaves(c, T, f.at) = {leaf(p) : p \in br.ports}
  BY DEF Leaves
<1>3. Below(c, f) = UNION {{g(w, p) : p \in untagged(w)} : w \in Elements(br.vlans)}
  BY DEF Below, Across
<1>4. ASSUME NEW p \in br.ports
      PROVE  \E w \in Elements(br.vlans) :
               /\ p \in untagged(w) /\ Native(br, p) = w.vid /\ \A x \in Elements(br.vlans) : p \in untagged(x) => x = w
  <2>1. PICK i \in DOMAIN br.vlans : OnlyIn(br, p, i)
    BY DEF Pvids, OnlyIn
  <2>2. Native(br, p) = br.vlans[i].vid
    BY <1>1, <2>1, NativeIs
  <2>3. br.vlans[i] \in Elements(br.vlans) /\ p \in untagged(br.vlans[i])
    BY <2>1 DEF Elements, OnlyIn
  <2>4. ASSUME NEW x \in Elements(br.vlans), p \in untagged(x) PROVE x = br.vlans[i]
    <3>1. PICK j \in DOMAIN br.vlans : x = br.vlans[j]
      BY DEF Elements
    <3> QED BY <2>1, <2>4, <3>1 DEF OnlyIn
  <2> QED BY <2>2, <2>3, <2>4
<1>5. \A w \in Elements(br.vlans) : untagged(w) \subseteq br.ports
  BY DEF Pvids
<1> HIDE DEF br, untagged
<1>6. ASSUME NEW w \in Elements(br.vlans), NEW p \in untagged(w)
      PROVE  p \in br.ports /\ Agree(f, leaf(p), g(w, p))
  <2>1. p \in br.ports
    BY <1>5
  <2>2. Native(br, p) = w.vid
    BY <1>4, <2>1
  <2>3. Agree(f, [port |-> p, vid |-> w.vid, tagged |-> FALSE], [at |-> p, tags |-> <<>>, vlan |-> w.vid])
    BY <1>1, AgreeUntagged
  <2> QED BY <2>1, <2>2, <2>3
<1> HIDE DEF leaf, g
<1>7. ASSUME NEW l \in Leaves(c, T, f.at) PROVE \E d \in Below(c, f) : Agree(f, l, d)
  <2>1. PICK p \in br.ports : l = leaf(p)
    BY <1>2
  <2>2. PICK w \in Elements(br.vlans) : p \in untagged(w)
    BY <1>4
  <2>3. g(w, p) \in Below(c, f)
    BY <1>3, <2>2
  <2> QED BY <1>6, <2>1, <2>2, <2>3
<1>8. ASSUME NEW d \in Below(c, f) PROVE \E l \in Leaves(c, T, f.at) : Agree(f, l, d)
  <2>1. PICK w \in Elements(br.vlans) : \E p \in untagged(w) : d = g(w, p)
    BY <1>3
  <2>2. PICK p \in untagged(w) : d = g(w, p)
    BY <2>1
  <2>3. leaf(p) \in Leaves(c, T, f.at)
    BY <1>2, <1>6
  <2> QED BY <1>6, <2>2, <2>3
<1> QED BY <1>7, <1>8 DEF Match

\* One layer down, the panel looks at what the wire has.
LEMMA OneLayer ==
  ASSUME NEW c, NEW T, ConfOk(c), NEW f \in Frames, f.at \notin T, Good(c, f)
  PROVE  Match(c, T, f)
<1> DEFINE over == Parent(c, f.at)
<1>1. CASE over # None /\ over.parent \in DOMAIN c.bridges
  <2>1. CASE ~Filtering(c.bridges[over.parent])
    BY <1>1, <2>1, MatchFlat
  <2>2. CASE Filtering(c.bridges[over.parent])
    <3>1. f.tags = <<>>
      BY <1>1, <2>2 DEF Good, Plain
    <3> QED BY <1>1, <2>2, <3>1, MatchVlan
  <2> QED BY <2>1, <2>2
<1>2. CASE over # None /\ over.parent \notin DOMAIN c.bridges
  BY <1>2, MatchDevice
<1>3. CASE over = None /\ f.at \in DOMAIN c.bridges
  <2>1. f.tags = <<>> /\ f.vlan = None /\ (Filtering(c.bridges[f.at]) => Pvids(c.bridges[f.at]))
    BY <1>3 DEF Good, Plain
  <2>2. CASE Filtering(c.bridges[f.at])
    BY <1>3, <2>1, <2>2, MatchPvids
  <2>3. CASE ~Filtering(c.bridges[f.at])
    BY <1>3, <2>1, <2>3, MatchBridge
  <2> QED BY <2>2, <2>3
<1>4. CASE over = None /\ f.at \notin DOMAIN c.bridges
  <2>1. Leaves(c, T, f.at) = {} /\ Below(c, f) = {}
    BY <1>4 DEF Leaves, Below
  <2> QED BY <2>1 DEF Match
<1> QED BY <1>1, <1>2, <1>3, <1>4

-----------------------------------------------------------------------------
(* Three layers                                                           *)

LEMMA LowerIs ==
  ASSUME NEW c, NEW f, NEW g \in Below(c, f)
  PROVE  g.at \in Lower(c, f.at)
<1> DEFINE ports(br) == br.ports \cup UNION {DOMAIN w.ports : w \in Elements(br.vlans)}
<1>1. ASSUME NEW br, NEW tags, NEW h \in Across(br, tags) PROVE h.at \in ports(br)
  <2> DEFINE untagged(w) == {p \in DOMAIN w.ports : w.ports[p] # "t"}
  <2>1. CASE ~Filtering(br)
    BY <2>1 DEF Across
  <2>2. CASE Filtering(br) /\ tags = <<>>
    <3>1. PICK w \in Elements(br.vlans) : \E p \in untagged(w) : h = [at |-> p, tags |-> <<>>, vlan |-> w.vid]
      BY <2>2 DEF Across
    <3> QED BY <3>1
  <2>3. CASE Filtering(br) /\ tags # <<>>
    <3> DEFINE out(w, p) == [at |-> p, tags |-> IF p \in untagged(w) THEN Tail(tags) ELSE <<w.vid>> \o Tail(tags),
                             vlan |-> w.vid]
    <3>1. PICK w \in Elements(br.vlans) : \E p \in DOMAIN w.ports : h = out(w, p)
      BY <2>3 DEF Across
    <3> QED BY <3>1
  <2> QED BY <2>1, <2>2, <2>3
<1>2. \A br : ports(br) = br.ports \cup UNION {DOMAIN w.ports : w \in Elements(br.vlans)}
  OBVIOUS
<1> HIDE DEF ports
<1> DEFINE over == Parent(c, f.at)
<1>3. CASE over # None /\ over.parent \in DOMAIN c.bridges
  BY <1>1, <1>2, <1>3 DEF Below, Lower
<1>4. CASE over # None /\ over.parent \notin DOMAIN c.bridges
  BY <1>4 DEF Below, Lower
<1>5. CASE over = None /\ f.at \in DOMAIN c.bridges
  BY <1>1, <1>2, <1>5 DEF Below, Lower
<1>6. CASE over = None /\ f.at \notin DOMAIN c.bridges
  BY <1>6 DEF Below
<1> QED BY <1>3, <1>4, <1>5, <1>6

-----------------------------------------------------------------------------
Solves(c, T, res) == \A v \in Visits : res[v] = Visited(c, T, res, v)
Val(T, res, f, seen) ==
  IF f.at \in T THEN {Way(f)} ELSE res[[name |-> f.at, ctx |-> Look(f), seen |-> seen]]
Arrived(T, F) == {Way(g) : g \in {g \in F : g.at \in T}}

LEMMA Layer ==
  ASSUME NEW c, NEW T, NEW res, ConfOk(c), Solves(c, T, res), NEW f \in Frames, f.at \notin T,
         Good(c, f), NEW seen \in SUBSET STRING, f.at \notin seen
  PROVE  Val(T, res, f, seen) = UNION {Val(T, res, g, seen \cup {f.at}) : g \in Below(c, f)}
<1> DEFINE v == [name |-> f.at, ctx |-> Look(f), seen |-> seen]
           val(leaf) == IF leaf.port \in T THEN {Emit(Look(f), leaf)}
                        ELSE res[[name |-> leaf.port, ctx |-> Onward(Look(f), leaf), seen |-> seen \cup {f.at}]]
<1>1. v \in Visits
  BY LookOk DEF Frames, Visits
<1>2. res[v] = Visited(c, T, res, v)
  BY <1>1 DEF Solves
<1>3. Visited(c, T, res, v) = UNION {val(leaf) : leaf \in Leaves(c, T, f.at)}
  BY DEF Visited
<1>4. Match(c, T, f)
  BY OneLayer
<1>5. ASSUME NEW leaf, NEW g, Agree(f, leaf, g)
      PROVE  val(leaf) = Val(T, res, g, seen \cup {f.at})
  BY <1>5 DEF Agree, Val
<1>6. Val(T, res, f, seen) = res[v]
  BY DEF Val
<1> HIDE DEF v, val
<1> DEFINE low(g) == Val(T, res, g, seen \cup {f.at})
<1>7. ASSUME NEW leaf \in Leaves(c, T, f.at) PROVE \E g \in Below(c, f) : val(leaf) = low(g)
  BY <1>4, <1>5 DEF Match
<1>8. ASSUME NEW g \in Below(c, f) PROVE \E leaf \in Leaves(c, T, f.at) : val(leaf) = low(g)
  BY <1>4, <1>5 DEF Match
<1> HIDE DEF low
<1>9. UNION {val(leaf) : leaf \in Leaves(c, T, f.at)} = UNION {low(g) : g \in Below(c, f)}
  BY <1>7, <1>8
<1> QED BY <1>2, <1>3, <1>6, <1>9 DEF low

LEMMA DownOne ==
  ASSUME NEW c, NEW T, NEW f
  PROVE  /\ f.at \in T => Down(c, T, {f}) = {f}
         /\ f.at \notin T => Down(c, T, {f}) = Below(c, f)
BY DEF Down

LEMMA DownEach ==
  ASSUME NEW c, NEW T, NEW F
  PROVE  Down(c, T, F) = UNION {Down(c, T, {f}) : f \in F}
BY DEF Down

LEMMA ArrivedIs ==
  ASSUME NEW T, NEW F
  PROVE  \A w : w \in Arrived(T, F) <=> \E g \in F : g.at \in T /\ w = Way(g)
BY DEF Arrived

LEMMA ArrivedEach ==
  ASSUME NEW c, NEW T, NEW F
  PROVE  Arrived(T, Down(c, T, F)) = UNION {Arrived(T, Down(c, T, {f})) : f \in F}
<1> DEFINE one(f) == Down(c, T, {f})
<1>1. Down(c, T, F) = UNION {one(f) : f \in F}
  BY DownEach
<1> HIDE DEF one
<1>2. \A f : \A w : w \in Arrived(T, one(f)) <=> \E g \in one(f) : g.at \in T /\ w = Way(g)
  BY ArrivedIs
<1>3. \A w : w \in Arrived(T, Down(c, T, F)) <=> \E g \in Down(c, T, F) : g.at \in T /\ w = Way(g)
  BY ArrivedIs
<1>4. Arrived(T, Down(c, T, F)) = UNION {Arrived(T, one(f)) : f \in F}
  BY <1>1, <1>2, <1>3
<1> QED BY <1>4 DEF one

\* One layer above the ports, two, and three.
LEMMA Val1 ==
  ASSUME NEW c, NEW T, NEW res, ConfOk(c), Solves(c, T, res), NEW f \in Frames,
         NEW seen \in SUBSET STRING,
         f.at \in T \/ (Good(c, f) /\ One(c, T, f.at) /\ f.at \notin seen)
  PROVE  Val(T, res, f, seen) = Arrived(T, Down(c, T, {f}))
<1>1. CASE f.at \in T
  BY <1>1, DownOne DEF Val, Arrived
<1>2. CASE f.at \notin T
  <2>1. Val(T, res, f, seen) = UNION {Val(T, res, g, seen \cup {f.at}) : g \in Below(c, f)}
    BY <1>2, Layer
  <2>2. ASSUME NEW g \in Below(c, f) PROVE g.at \in T /\ Val(T, res, g, seen \cup {f.at}) = {Way(g)}
    <3>1. g.at \in T
      BY <1>2, LowerIs DEF One
    <3> QED BY <3>1 DEF Val
  <2>3. Down(c, T, {f}) = Below(c, f)
    BY <1>2, DownOne
  <2>4. Arrived(T, Below(c, f)) = UNION {{Way(g)} : g \in Below(c, f)}
    BY <2>2, ArrivedIs
  <2>5. UNION {Val(T, res, g, seen \cup {f.at}) : g \in Below(c, f)} = UNION {{Way(g)} : g \in Below(c, f)}
    BY <2>2
  <2> QED BY <2>1, <2>3, <2>4, <2>5
<1> QED BY <1>1, <1>2

LEMMA Val2 ==
  ASSUME NEW c, NEW T, NEW res, ConfOk(c), Solves(c, T, res), NEW f \in Frames,
         NEW seen \in SUBSET STRING,
         f.at \in T \/ (Good(c, f) /\ Two(c, T, f.at) /\ f.at \notin seen /\ \A s \in seen : ~One(c, T, s))
  PROVE  Val(T, res, f, seen) = Arrived(T, Down(c, T, Down(c, T, {f})))
<1>1. CASE f.at \in T
  <2>1. Down(c, T, {f}) = {f}
    BY <1>1, DownOne
  <2> QED BY <1>1, <2>1 DEF Val, Arrived
<1>2. CASE f.at \notin T
  <2>1. Val(T, res, f, seen) = UNION {Val(T, res, g, seen \cup {f.at}) : g \in Below(c, f)}
    BY <1>2, Layer
  <2>2. ASSUME NEW g \in Below(c, f)
        PROVE  Val(T, res, g, seen \cup {f.at}) = Arrived(T, Down(c, T, {g}))
    <3>1. g \in Frames /\ g.at \in Lower(c, f.at)
      BY BelowOk, LowerIs
    <3>2. g.at \notin T => Plain(c, g.at) /\ One(c, T, g.at)
      BY <1>2, <3>1 DEF Two
    <3>3. g.at \notin T => g.at # f.at
      BY <3>1, <3>2 DEF One
    <3>4. g.at \notin T => Good(c, g) /\ One(c, T, g.at) /\ g.at \notin seen \cup {f.at}
      BY <1>2, <3>2, <3>3 DEF Good
    <3>5. seen \cup {f.at} \in SUBSET STRING
      BY DEF Frames
    <3> QED BY <3>1, <3>4, <3>5, Val1
  <2>3. Down(c, T, {f}) = Below(c, f)
    BY <1>2, DownOne
  <2>4. Arrived(T, Down(c, T, Below(c, f))) = UNION {Arrived(T, Down(c, T, {g})) : g \in Below(c, f)}
    BY ArrivedEach
  <2>5. UNION {Val(T, res, g, seen \cup {f.at}) : g \in Below(c, f)}
          = UNION {Arrived(T, Down(c, T, {g})) : g \in Below(c, f)}
    BY <2>2
  <2> QED BY <2>1, <2>3, <2>4, <2>5
<1> QED BY <1>1, <1>2

LEMMA Val3 ==
  ASSUME NEW c, NEW T, NEW res, ConfOk(c), Solves(c, T, res), NEW f \in Frames,
         Good(c, f), Three(c, T, f.at), f.at \notin T
  PROVE  Val(T, res, f, {}) = Arrived(T, Down(c, T, Down(c, T, Down(c, T, {f}))))
<1>1. Val(T, res, f, {}) = UNION {Val(T, res, g, {} \cup {f.at}) : g \in Below(c, f)}
  BY Layer
<1>2. ASSUME NEW g \in Below(c, f)
      PROVE  Val(T, res, g, {} \cup {f.at}) = Arrived(T, Down(c, T, Down(c, T, {g})))
  <2>1. g \in Frames /\ g.at \in Lower(c, f.at)
    BY BelowOk, LowerIs
  <2>2. g.at \notin T => Plain(c, g.at) /\ Two(c, T, g.at)
    BY <2>1 DEF Three
  <2>3. g.at \notin T => ~One(c, T, f.at)
    BY <2>1 DEF One
  <2>4. g.at \notin T => g.at # f.at
    BY <2>1, <2>2, <2>3 DEF Two
  <2>5. g.at \notin T => Good(c, g) /\ Two(c, T, g.at) /\ g.at \notin {} \cup {f.at}
                        /\ \A s \in {} \cup {f.at} : ~One(c, T, s)
    BY <2>2, <2>3, <2>4 DEF Good
  <2>6. {} \cup {f.at} \in SUBSET STRING
    BY DEF Frames
  <2> QED BY <2>1, <2>5, <2>6, Val2
<1>3. Down(c, T, {f}) = Below(c, f)
  BY DownOne
<1> DEFINE twice(g) == Down(c, T, Down(c, T, {g}))
<1>4. Arrived(T, Down(c, T, Down(c, T, Below(c, f)))) = UNION {Arrived(T, twice(g)) : g \in Below(c, f)}
  <2> DEFINE one(g) == Down(c, T, {g})
             at(h) == Arrived(T, Down(c, T, {h}))
  <2>1. Down(c, T, Below(c, f)) = UNION {one(g) : g \in Below(c, f)}
    BY DownEach
  <2>2. Arrived(T, Down(c, T, Down(c, T, Below(c, f)))) = UNION {at(h) : h \in Down(c, T, Below(c, f))}
    BY ArrivedEach
  <2>3. \A g : Arrived(T, twice(g)) = UNION {at(h) : h \in one(g)}
    BY ArrivedEach
  <2> HIDE DEF one, at, twice
  <2> QED BY <2>1, <2>2, <2>3
<1>5. UNION {Val(T, res, g, {} \cup {f.at}) : g \in Below(c, f)} = UNION {Arrived(T, twice(g)) : g \in Below(c, f)}
  BY <1>2
<1> QED BY <1>1, <1>3, <1>4, <1>5

-----------------------------------------------------------------------------
\* What the panel makes of a network is what arrives of its frames.
Sent(d) == [at |-> d, tags |-> <<>>, vlan |-> None]

LEMMA Resolved ==
  ASSUME NEW c, NEW T, NEW res, ConfOk(c), T \cap DOMAIN c.bridges = {}, Solves(c, T, res), NEW d \in STRING,
         Placed(c, T, d)
  PROVE  res[[name |-> d, ctx |-> [vid |-> None, tagged |-> FALSE], seen |-> {}]]
           = Arrived(T, Down(c, T, Down(c, T, Down(c, T, {Sent(d)}))))
<1> DEFINE f == Sent(d)
           v == [name |-> d, ctx |-> [vid |-> None, tagged |-> FALSE], seen |-> {}]
<1>1. f \in Frames /\ f.at = d /\ f.tags = <<>> /\ f.vlan = None
  BY DEF Sent, Frames
<1>2. Look(f) = [vid |-> None, tagged |-> FALSE]
  BY <1>1 DEF Look
<1>3. CASE d \in T
  <2>1. v \in Visits
    BY DEF Visits, Context
  <2>2. Leaves(c, T, d) = {[port |-> d, vid |-> None, tagged |-> FALSE]}
    BY <1>3 DEF Leaves
  <2>3. res[v] = Visited(c, T, res, v)
    BY <2>1 DEF Solves
  <2>4. Emit(v.ctx, [port |-> d, vid |-> None, tagged |-> FALSE]) = [port |-> d, vid |-> None, tagged |-> FALSE]
    BY DEF Emit
  <2>5. Visited(c, T, res, v) = {[port |-> d, vid |-> None, tagged |-> FALSE]}
    <3>1. v.name = d /\ v.seen = {}
      OBVIOUS
    <3> DEFINE leaf == [port |-> d, vid |-> None, tagged |-> FALSE]
    <3>2. Leaves(c, T, v.name) = {leaf} /\ Emit(v.ctx, leaf) = leaf /\ leaf.port = d
      BY <2>2, <2>4, <3>1
    <3> HIDE DEF v, leaf
    <3>3. Visited(c, T, res, v) = {leaf}
      BY <1>3, <3>1, <3>2 DEF Visited
    <3> QED BY <3>3 DEF leaf
  <2>6. Way(f) = [port |-> d, vid |-> None, tagged |-> FALSE]
    BY <1>1, <1>2 DEF Way
  <2>7. Down(c, T, {f}) = {f}
    <3>1. f.at \in T
      BY <1>1, <1>3
    <3> HIDE DEF f
    <3> QED BY <3>1, DownOne
  <2>8. Down(c, T, Down(c, T, Down(c, T, {f}))) = {f}
    BY <2>7
  <2> HIDE DEF f, v
  <2> QED BY <1>1, <1>3, <2>3, <2>5, <2>6, <2>8 DEF Arrived, f, v
<1>4. CASE d \notin T
  <2>1. Good(c, f) /\ Three(c, T, f.at)
    BY <1>1, <1>4 DEF Good, Placed
  <2>2. Val(T, res, f, {}) = Arrived(T, Down(c, T, Down(c, T, Down(c, T, {f}))))
    BY <1>1, <1>4, <2>1, Val3
  <2> QED BY <1>1, <1>2, <1>4, <2>2 DEF Val
<1> QED BY <1>3, <1>4

-----------------------------------------------------------------------------
(* What a network reaches                                                 *)

LEMMA NativeOk ==
  ASSUME NEW br, br.vlans \in Seq(Elements(br.vlans)), \A w \in Elements(br.vlans) : w.vid \in Nat, NEW p
  PROVE  Native(br, p) \in Nat \cup {None}
<1> DEFINE with(flags) == {i \in DOMAIN br.vlans :
                             p \in DOMAIN br.vlans[i].ports /\ br.vlans[i].ports[p] \in flags}
<1>1. /\ Len(br.vlans) \in Nat /\ \A flags : with(flags) \subseteq 1..Len(br.vlans)
      /\ \A i \in 1..Len(br.vlans) : br.vlans[i].vid \in Nat
  BY DEF Elements
<1>2. with({"u", "u*"}) = with({"u"}) \cup with({"u*"})
  OBVIOUS
<1> HIDE DEF with
<1>3. ASSUME with({"u*"}) # {}
      PROVE  (CHOOSE i \in with({"u*"}) : \A j \in with({"u*"}) : j <= i) \in with({"u*"})
  BY <1>1, <1>3, SegmentMax
<1>4. ASSUME with({"u"}) # {}
      PROVE  (CHOOSE i \in with({"u"}) : \A j \in with({"u"}) : i <= j) \in with({"u"})
  <2>1. with({"u"}) \subseteq Nat
    BY <1>1
  <2>2. \E i \in with({"u"}) : \A j \in with({"u"}) : i <= j
    BY <1>4, <2>1, NatMin
  <2> QED BY <2>2
<1>5. \A i : i \in with({"u*"}) \cup with({"u"}) => br.vlans[i].vid \in Nat
  BY <1>1
<1>6. CASE ~Filtering(br) \/ with({"u", "u*"}) = {}
  BY <1>6 DEF Native, with
<1>7. CASE Filtering(br) /\ with({"u*"}) # {}
  <2>1. with({"u", "u*"}) # {}
    BY <1>2, <1>7
  <2>2. Native(br, p) = br.vlans[CHOOSE i \in with({"u*"}) : \A j \in with({"u*"}) : j <= i].vid
    BY <1>7, <2>1 DEF Native, with
  <2> QED BY <1>3, <1>5, <1>7, <2>2
<1>8. CASE Filtering(br) /\ with({"u"}) # {} /\ with({"u*"}) = {}
  <2>1. with({"u", "u*"}) # {}
    BY <1>2, <1>8
  <2>2. Native(br, p) = br.vlans[CHOOSE i \in with({"u"}) : \A j \in with({"u"}) : i <= j].vid
    BY <1>8, <2>1 DEF Native, with
  <2> QED BY <1>4, <1>5, <1>8, <2>2
<1> QED BY <1>2, <1>6, <1>7, <1>8

LEMMA LeavesOk ==
  ASSUME NEW c, NEW T, ConfOk(c), NEW name \in STRING
  PROVE  Leaves(c, T, name) \subseteq Ways
<1> DEFINE over == Parent(c, name)
<1>1. CASE name \notin T /\ over # None /\ over.parent \in DOMAIN c.bridges
  <2> DEFINE br == c.bridges[over.parent]
             W == {w \in Elements(br.vlans) : over.vid \in {w.vid} \cup w.aliases}
  <2>1. over.vid \in Nat /\ br.ports \subseteq STRING
        /\ \A w \in W : w.vid \in Nat /\ DOMAIN w.ports \subseteq STRING
    BY <1>1, ParentOk DEF ConfOk
  <2>2. CASE Filtering(br)
    <3>1. Leaves(c, T, name) = UNION {{[port |-> p, vid |-> w.vid, tagged |-> w.ports[p] = "t"] : p \in DOMAIN w.ports} : w \in W}
      BY <1>1, <2>2 DEF Leaves
    <3> HIDE DEF W
    <3>2. ASSUME NEW w \in W, NEW p \in DOMAIN w.ports
          PROVE  [port |-> p, vid |-> w.vid, tagged |-> w.ports[p] = "t"] \in Ways
      <4>1. p \in STRING /\ w.vid \in Nat
        BY <2>1
      <4>2. (w.ports[p] = "t") \in BOOLEAN
        OBVIOUS
      <4> QED BY <4>1, <4>2 DEF Ways
    <3> QED BY <3>1, <3>2
  <2>3. CASE ~Filtering(br)
    <3>1. Leaves(c, T, name) = {[port |-> p, vid |-> over.vid, tagged |-> TRUE] : p \in br.ports}
      BY <1>1, <2>3 DEF Leaves
    <3> HIDE DEF br, over
    <3>2. ASSUME NEW p \in br.ports PROVE [port |-> p, vid |-> over.vid, tagged |-> TRUE] \in Ways
      BY <2>1 DEF Ways
    <3> QED BY <3>1, <3>2
  <2> QED BY <2>2, <2>3
<1>2. CASE name \notin T /\ over # None /\ over.parent \notin DOMAIN c.bridges
  <2>1. Leaves(c, T, name) = {[port |-> over.parent, vid |-> over.vid, tagged |-> TRUE]}
    BY <1>2 DEF Leaves
  <2>2. over.vid \in Nat /\ over.parent \in STRING
    BY <1>2, ParentOk
  <2> QED BY <2>1, <2>2 DEF Ways
<1>3. CASE (name \in T \/ over = None) /\ name \in DOMAIN c.bridges
  <2> DEFINE br == c.bridges[name]
  <2>1. Leaves(c, T, name) = {[port |-> p, vid |-> Native(br, p), tagged |-> FALSE] : p \in br.ports}
    BY <1>3 DEF Leaves
  <2>2. br.ports \subseteq STRING /\ br.vlans \in Seq(Elements(br.vlans)) /\ \A w \in Elements(br.vlans) : w.vid \in Nat
    BY <1>3 DEF ConfOk
  <2> HIDE DEF br
  <2>3. \A p : Native(br, p) \in Nat \cup {None}
    BY <2>2, NativeOk
  <2>4. ASSUME NEW p \in br.ports PROVE [port |-> p, vid |-> Native(br, p), tagged |-> FALSE] \in Ways
    BY <2>2, <2>3 DEF Ways
  <2> QED BY <2>1, <2>4
<1>4. CASE (name \in T \/ over = None) /\ name \notin DOMAIN c.bridges
  <2>1. Leaves(c, T, name) = {[port |-> p, vid |-> None, tagged |-> FALSE] : p \in T \cap {name}}
    BY <1>4 DEF Leaves
  <2>2. [port |-> name, vid |-> None, tagged |-> FALSE] \in Ways
    BY DEF Ways
  <2> QED BY <2>1, <2>2
<1> QED BY <1>1, <1>2, <1>3, <1>4

\* A network's frames arrive where the panel shows them, in the VLAN and with the tag.
LEMMA ResolveTells ==
  ASSUME NEW c, NEW T, ConfOk(c), T \cap DOMAIN c.bridges = {}, NEW d \in STRING,
         Placed(c, T, d)
  PROVE  Resolve(c, T, d) = Arrived(T, Down(c, T, Down(c, T, Down(c, T, {Sent(d)}))))
<1>1. \A name \in STRING : Leaves(c, T, name) \subseteq Ways
  BY LeavesOk
<1>2. PICK res : /\ \A v \in Visits : res[v] = Visited(c, T, res, v)
                 /\ \A device : Resolve(c, T, device) =
                      res[[name |-> device, ctx |-> [vid |-> None, tagged |-> FALSE], seen |-> {}]]
  BY <1>1, ResolveIs
<1>3. Solves(c, T, res)
  BY <1>2 DEF Solves
<1> DEFINE start == [name |-> d, ctx |-> [vid |-> None, tagged |-> FALSE], seen |-> {}]
           end == Arrived(T, Down(c, T, Down(c, T, Down(c, T, {Sent(d)}))))
<1>4. res[start] = end
  BY <1>3, Resolved
<1>5. Resolve(c, T, d) = res[start]
  BY <1>2
<1> HIDE DEF start, end
<1>6. Resolve(c, T, d) = end
  BY <1>4, <1>5
<1> QED BY <1>6 DEF end

-----------------------------------------------------------------------------
(* The ports of the card                                                  *)

\* The netdevs that are ports, in order: what is left of the first k.
Base(d) == IF d \in DOMAIN Dotted THEN Dotted[d].parent ELSE d
KeptTo(b, f, k) ==
  /\ f \in [0..k -> Seq(Elements(b.builtin))] /\ f[0] = <<>>
  /\ \A i \in 1..k : f[i] = IF Base(b.builtin[i]) = b.cpu THEN f[i - 1] ELSE Append(f[i - 1], b.builtin[i])

LEMMA AppendOk ==
  ASSUME NEW X, NEW s \in Seq(X), NEW e \in X
  PROVE  Append(s, e) \in Seq(X) /\ Elements(Append(s, e)) = Elements(s) \cup {e}
<1> DEFINE t == Append(s, e)
<1>1. DOMAIN s = 1..Len(s) /\ Len(s) \in Nat /\ t \in Seq(X)
  OBVIOUS
<1>2. DOMAIN t = 1..(Len(s) + 1) /\ t[Len(s) + 1] = e /\ \A j \in 1..Len(s) : t[j] = s[j]
  OBVIOUS
<1> HIDE DEF t
<1>3. Elements(t) = Elements(s) \cup {e}
  BY <1>1, <1>2 DEF Elements
<1> QED BY <1>1, <1>3 DEF t

LEMMA KeptExists ==
  ASSUME NEW b, b.builtin \in Seq(Elements(b.builtin))
  PROVE  \E f : KeptTo(b, f, Len(b.builtin))
<1> DEFINE n == Len(b.builtin)
           S == {k \in 0..n : \E f : KeptTo(b, f, k)}
<1>0. n \in Nat /\ \A i \in 1..n : b.builtin[i] \in Elements(b.builtin)
  OBVIOUS
<1> HIDE DEF n
<1>1. 0 \in S
  <2>1. KeptTo(b, [i \in 0..0 |-> <<>>], 0)
    BY DEF KeptTo
  <2> QED BY <1>0, <2>1
<1>2. ASSUME NEW k \in 1..n, k - 1 \in S PROVE k \in S
  <2>1. PICK f : KeptTo(b, f, k - 1)
    BY <1>2
  <2> DEFINE new == IF Base(b.builtin[k]) = b.cpu THEN f[k - 1] ELSE Append(f[k - 1], b.builtin[k])
             g == [i \in 0..k |-> IF i = k THEN new ELSE f[i]]
  <2>2. f[k - 1] \in Seq(Elements(b.builtin))
    BY <2>1 DEF KeptTo
  <2>3. new \in Seq(Elements(b.builtin))
    <3>1. Append(f[k - 1], b.builtin[k]) \in Seq(Elements(b.builtin))
      BY <1>0, <2>2, AppendOk
    <3> QED BY <2>2, <3>1
  <2> HIDE DEF new
  <2>4. g \in [0..k -> Seq(Elements(b.builtin))] /\ g[0] = <<>>
    BY <2>1, <2>3 DEF KeptTo
  <2>5. ASSUME NEW i \in 1..k
        PROVE  g[i] = IF Base(b.builtin[i]) = b.cpu THEN g[i - 1] ELSE Append(g[i - 1], b.builtin[i])
    <3>1. CASE i = k
      <4>1. g[k] = new /\ g[k - 1] = f[k - 1]
        OBVIOUS
      <4> QED BY <3>1, <4>1 DEF new
    <3>2. CASE i # k
      <4>1. i \in 1..(k - 1) /\ g[i] = f[i] /\ g[i - 1] = f[i - 1]
        BY <3>2
      <4> QED BY <4>1, <2>1 DEF KeptTo
    <3> QED BY <3>1, <3>2
  <2> HIDE DEF g
  <2>6. KeptTo(b, g, k)
    BY <2>4, <2>5 DEF KeptTo
  <2> QED BY <1>0, <2>6
<1>3. 0..n \subseteq S
  <2> HIDE DEF S
  <2> QED BY <1>0, <1>1, <1>2, UpTo
<1> QED BY <1>0, <1>3 DEF n

LEMMA KeptElements ==
  ASSUME NEW b, b.builtin \in Seq(Elements(b.builtin)), NEW f, KeptTo(b, f, Len(b.builtin))
  PROVE  LET s == f[Len(b.builtin)] IN
         s \in Seq(Elements(b.builtin)) /\ Elements(s) = {d \in Elements(b.builtin) : Base(d) # b.cpu}
<1> DEFINE n == Len(b.builtin)
           left(k) == {b.builtin[j] : j \in {j \in 1..k : Base(b.builtin[j]) # b.cpu}}
           S == {k \in 0..n : Elements(f[k]) = left(k)}
<1>0. n \in Nat /\ f \in [0..n -> Seq(Elements(b.builtin))] /\ f[0] = <<>>
  BY DEF KeptTo
<1>1. 0 \in S
  BY <1>0 DEF Elements
<1>2. ASSUME NEW k \in 1..n, k - 1 \in S PROVE k \in S
  <2>1. f[k - 1] \in Seq(Elements(b.builtin)) /\ Elements(f[k - 1]) = left(k - 1) /\ b.builtin[k] \in Elements(b.builtin)
    <3>1. k - 1 \in 0..n /\ k \in DOMAIN b.builtin
      OBVIOUS
    <3>2. b.builtin[k] \in Elements(b.builtin)
      BY <3>1 DEF Elements
    <3> HIDE DEF left, n
    <3> QED BY <1>0, <1>2, <3>1, <3>2
  <2>2. f[k] = IF Base(b.builtin[k]) = b.cpu THEN f[k - 1] ELSE Append(f[k - 1], b.builtin[k])
    BY DEF KeptTo
  <2>3. 1..k = (1..(k - 1)) \cup {k}
    OBVIOUS
  <2>4. left(k) = left(k - 1) \cup (IF Base(b.builtin[k]) = b.cpu THEN {} ELSE {b.builtin[k]})
    BY <2>3
  <2> HIDE DEF left
  <2>5. Elements(Append(f[k - 1], b.builtin[k])) = Elements(f[k - 1]) \cup {b.builtin[k]}
    BY <2>1, AppendOk
  <2>6. Elements(f[k]) = left(k)
    BY <2>1, <2>2, <2>4, <2>5
  <2> QED BY <2>6
<1>3. 0..n \subseteq S
  <2> HIDE DEF S
  <2> QED BY <1>0, <1>1, <1>2, UpTo
<1>4. f[n] \in Seq(Elements(b.builtin)) /\ Elements(f[n]) = left(n)
  <2>1. n \in 0..n
    BY <1>0
  <2> HIDE DEF left, n
  <2> QED BY <1>0, <1>3, <2>1
<1>5. left(n) = {d \in Elements(b.builtin) : Base(d) # b.cpu}
  BY DEF Elements
<1> QED BY <1>4, <1>5

LEMMA DevicesAre ==
  ASSUME NEW b, b.builtin \in Seq(Elements(b.builtin)), NEW res, res.builtin = TRUE, res.topo = TRUE
  PROVE  /\ Devices(b, res) \in Seq(Elements(b.builtin))
         /\ Elements(Devices(b, res)) = {d \in Elements(b.builtin) : Base(d) # b.cpu}
<1> DEFINE n == Len(b.builtin)
           Step(f) == [i \in 0..n |-> IF i = 0 THEN <<>>
                         ELSE IF res.topo /\ (IF b.builtin[i] \in DOMAIN Dotted THEN Dotted[b.builtin[i]].parent
                                              ELSE b.builtin[i]) = b.cpu THEN f[i - 1]
                         ELSE Append(f[i - 1], b.builtin[i])]
           kept == CHOOSE f : f = Step(f)
<1>0. n \in Nat
  OBVIOUS
<1>1. \E f : f = Step(f)
  <2>1. PICK f : KeptTo(b, f, n)
    BY KeptExists
  <2>2. f = Step(f)
    <3>1. \A i \in 0..n : i # 0 => i \in 1..n
      BY <1>0
    <3>2. \A i \in 0..n : f[i] = Step(f)[i]
      BY <2>1, <3>1 DEF KeptTo, Base
    <3>3. f = [i \in 0..n |-> f[i]]
      BY <2>1 DEF KeptTo
    <3>4. Step(f) = [i \in 0..n |-> Step(f)[i]]
      OBVIOUS
    <3> HIDE DEF Step
    <3> QED BY <3>2, <3>3, <3>4
  <2> QED BY <2>2
<1>2. kept = Step(kept)
  BY <1>1
<1>3. Devices(b, res) = kept[n]
  BY DEF Devices
<1> HIDE DEF kept
<1> DEFINE S == {i \in 0..n : kept[i] \in Seq(Elements(b.builtin))}
<1>4. kept[0] = <<>> /\ \A i \in 1..n : kept[i] = IF Base(b.builtin[i]) = b.cpu THEN kept[i - 1]
                                                  ELSE Append(kept[i - 1], b.builtin[i])
  <2>1. 0 \in 0..n /\ \A i \in 1..n : i \in 0..n /\ i # 0
    BY <1>0
  <2>2. \A i \in 0..n : kept[i] = Step(kept)[i]
    BY <1>2
  <2>3. \A i \in 0..n : Step(kept)[i] =
          IF i = 0 THEN <<>> ELSE IF Base(b.builtin[i]) = b.cpu THEN kept[i - 1] ELSE Append(kept[i - 1], b.builtin[i])
    BY DEF Base
  <2> HIDE DEF Step
  <2> QED BY <2>1, <2>2, <2>3
<1>5. 0 \in S
  <2>1. 0 \in 0..n
    BY <1>0
  <2>2. kept[0] \in Seq(Elements(b.builtin))
    BY <1>4
  <2> QED BY <2>1, <2>2
<1>6. ASSUME NEW i \in 1..n, i - 1 \in S PROVE i \in S
  <2>1. b.builtin[i] \in Elements(b.builtin)
    BY DEF Elements
  <2>2. kept[i - 1] \in Seq(Elements(b.builtin)) /\ i \in 0..n
    BY <1>6
  <2>3. Append(kept[i - 1], b.builtin[i]) \in Seq(Elements(b.builtin))
    BY <2>1, <2>2, AppendOk
  <2>4. kept[i] \in Seq(Elements(b.builtin))
    BY <1>4, <2>2, <2>3
  <2> QED BY <2>2, <2>4
<1>7. 0..n \subseteq S
  <2> HIDE DEF S
  <2> QED BY <1>0, <1>5, <1>6, UpTo
<1>8. kept \in [0..n -> Seq(Elements(b.builtin))]
  <2>1. \E X : kept = [i \in 0..n |-> X[i]]
    <3>1. kept = [i \in 0..n |-> Step(kept)[i]]
      BY <1>2
    <3> QED BY <3>1
  <2> QED BY <1>7, <2>1
<1>9. KeptTo(b, kept, n)
  BY <1>4, <1>8 DEF KeptTo
<1> HIDE DEF Step
<1> QED BY <1>3, <1>9, KeptElements

-----------------------------------------------------------------------------
(* What arrives on the CPU port                                           *)

\* Frames that are untagged on the CPU port are in no VLAN there.
Bare(cpu, F) == F \subseteq Frames /\ \A f \in F : f.at = cpu /\ f.tags = <<>> => f.vlan = None
CpuTagged(c, cpu) ==
  \A name \in DOMAIN c.bridges : \A w \in Elements(c.bridges[name].vlans) :
    cpu \in DOMAIN w.ports => w.ports[cpu] = "t"

LEMMA AcrossBare ==
  ASSUME NEW c, ConfOk(c), NEW cpu, CpuTagged(c, cpu), NEW name \in DOMAIN c.bridges, NEW tags \in Seq(Nat)
  PROVE  Bare(cpu, Across(c.bridges[name], tags))
<1> DEFINE br == c.bridges[name]
           untagged(w) == {p \in DOMAIN w.ports : w.ports[p] # "t"}
<1>1. Across(br, tags) \subseteq Frames
  BY AcrossOk
<1>2. \A w \in Elements(br.vlans) : w.vid \in Nat /\ cpu \notin untagged(w)
  BY DEF ConfOk, CpuTagged
<1> HIDE DEF br
<1> SUFFICES ASSUME NEW f \in Across(br, tags), f.at = cpu, f.tags = <<>> PROVE f.vlan = None
  BY <1>1 DEF Bare, br
<1>3. CASE ~Filtering(br)
  BY <1>3 DEF Across
<1>4. CASE Filtering(br) /\ tags = <<>>
  <2>1. PICK w \in Elements(br.vlans) : \E p \in untagged(w) : f = [at |-> p, tags |-> <<>>, vlan |-> w.vid]
    BY <1>4 DEF Across
  <2> QED BY <1>2, <2>1
<1>5. CASE Filtering(br) /\ tags # <<>>
  <2> DEFINE out(w, p) == [at |-> p, tags |-> IF p \in untagged(w) THEN Tail(tags) ELSE <<w.vid>> \o Tail(tags),
                           vlan |-> w.vid]
  <2>1. PICK w \in Elements(br.vlans) : \E p \in DOMAIN w.ports : f = out(w, p)
    BY <1>5 DEF Across
  <2>2. f.at = cpu /\ f.tags = <<w.vid>> \o Tail(tags)
    BY <1>2, <2>1
  <2>3. Tail(tags) \in Seq(Nat) /\ w.vid \in Nat
    BY <1>2, <1>5
  <2>4. f.tags # <<>>
    BY <2>2, <2>3, Laid
  <2> QED BY <2>4
<1> QED BY <1>3, <1>4, <1>5

LEMMA BelowBare ==
  ASSUME NEW c, ConfOk(c), NEW cpu, CpuTagged(c, cpu), NEW f \in Frames
  PROVE  Bare(cpu, Below(c, f))
<1> DEFINE over == Parent(c, f.at)
           tags == <<over.vid>> \o f.tags
<1>1. f.tags \in Seq(Nat)
  BY DEF Frames
<1>2. CASE over # None
  <2>1. over.parent \in STRING /\ over.vid \in Nat
    BY <1>2, ParentOk
  <2>2. tags \in Seq(Nat)
    BY <1>1, <2>1
  <2> HIDE DEF over, tags
  <2>3. CASE over.parent \in DOMAIN c.bridges
    <3>1. Below(c, f) = Across(c.bridges[over.parent], tags)
      BY <1>2, <2>3 DEF Below, over, tags
    <3> QED BY <2>2, <2>3, <3>1, AcrossBare
  <2>4. CASE over.parent \notin DOMAIN c.bridges
    <3>1. Below(c, f) = {[at |-> over.parent, tags |-> tags, vlan |-> None]}
      BY <1>2, <2>4 DEF Below, over, tags
    <3> QED BY <2>1, <2>2, <3>1 DEF Frames, Bare
  <2> QED BY <2>3, <2>4
<1>3. CASE over = None /\ f.at \in DOMAIN c.bridges
  <2>1. Below(c, f) = Across(c.bridges[f.at], f.tags)
    BY <1>3 DEF Below
  <2> QED BY <1>1, <1>3, <2>1, AcrossBare
<1>4. CASE over = None /\ f.at \notin DOMAIN c.bridges
  BY <1>4 DEF Below, Bare
<1> QED BY <1>2, <1>3, <1>4

LEMMA DownBare ==
  ASSUME NEW c, ConfOk(c), NEW cpu, CpuTagged(c, cpu), NEW T, NEW F, Bare(cpu, F)
  PROVE  Bare(cpu, Down(c, T, F))
<1>1. ASSUME NEW g \in Down(c, T, F) PROVE g \in Frames /\ (g.at = cpu /\ g.tags = <<>> => g.vlan = None)
  <2>1. PICK f \in F : g = f \/ g \in Below(c, f)
    BY DEF Down
  <2>2. f \in Frames
    BY DEF Bare
  <2>3. Bare(cpu, Below(c, f))
    BY <2>2, BelowBare
  <2> QED BY <2>1, <2>3 DEF Bare
<1> QED BY <1>1 DEF Bare

-----------------------------------------------------------------------------
\* The networks on a netdev: what its frames look like there.
Arriving(c, T, n) == Down(c, T, Down(c, T, Down(c, T, {Sent(DeviceOf(c, n))})))

LEMMA ArrivingOk ==
  ASSUME NEW c, ConfOk(c), NEW cpu, CpuTagged(c, cpu), NEW T, NEW n \in DOMAIN c.nets
  PROVE  Bare(cpu, Arriving(c, T, n)) /\ DeviceOf(c, n) \in STRING
<1>1. DeviceOf(c, n) \in STRING
  BY DEF DeviceOf, ConfOk
<1>2. Bare(cpu, {Sent(DeviceOf(c, n))})
  BY <1>1 DEF Bare, Sent, Frames
<1> QED BY <1>1, <1>2, DownBare DEF Arriving

LEMMA OnWireIs ==
  ASSUME NEW c, NEW T, NEW n, NEW p
  PROVE  OnWire(c, T, n, p) = {Look(f) : f \in {f \in Arriving(c, T, n) : f.at = p}}
BY DEF OnWire, Arriving, Sent

LEMMA LookIs ==
  ASSUME NEW f
  PROVE  /\ Look(f) = [vid |-> Way(f).vid, tagged |-> Way(f).tagged] /\ Way(f).tagged \in BOOLEAN
         /\ Way(f).vid = Look(f).vid /\ Way(f).tagged = Look(f).tagged /\ Way(f).port = f.at
BY DEF Look, Way

\* The members that a network has on the netdevs.
LEMMA ReachesIs ==
  ASSUME NEW c, NEW T, ConfOk(c), T \cap DOMAIN c.bridges = {}, NEW n \in DOMAIN c.nets,
         Placed(c, T, DeviceOf(c, n)), NEW p \in T
  PROVE  /\ {[vid |-> m.vid, tagged |-> m.tagged] : m \in {m \in Resolve(c, T, DeviceOf(c, n)) : m.port = p}}
              = OnWire(c, T, n, p)
         /\ \A m \in Resolve(c, T, DeviceOf(c, n)) : m.tagged \in BOOLEAN /\ m.port \in T
<1> DEFINE d == DeviceOf(c, n)
           R == Resolve(c, T, d)
           A == Arriving(c, T, n)
<1>1. d \in STRING
  BY DEF DeviceOf, ConfOk
<1>2. R = Arrived(T, A)
  BY <1>1, ResolveTells DEF Arriving
<1> HIDE DEF R, A, d
<1>3. \A m : m \in R <=> \E f \in A : f.at \in T /\ m = Way(f)
  BY <1>2, ArrivedIs
<1>4. OnWire(c, T, n, p) = {Look(f) : f \in {f \in A : f.at = p}}
  BY OnWireIs DEF A
<1>5. \A f : Look(f) = [vid |-> Way(f).vid, tagged |-> Way(f).tagged] /\ Way(f).tagged \in BOOLEAN
             /\ Way(f).port = f.at
  BY LookIs
<1>6. ASSUME NEW m \in R, m.port = p PROVE [vid |-> m.vid, tagged |-> m.tagged] \in OnWire(c, T, n, p)
  <2>1. PICK f \in A : f.at \in T /\ m = Way(f)
    BY <1>3
  <2> QED BY <1>4, <1>5, <1>6, <2>1
<1>7. ASSUME NEW l \in OnWire(c, T, n, p) PROVE \E m \in R : m.port = p /\ l = [vid |-> m.vid, tagged |-> m.tagged]
  <2>1. PICK f \in A : f.at = p /\ l = Look(f)
    BY <1>4
  <2>2. Way(f) \in R
    BY <1>3, <2>1
  <2> QED BY <1>5, <2>1, <2>2
<1>8. {[vid |-> m.vid, tagged |-> m.tagged] : m \in {m \in R : m.port = p}} = OnWire(c, T, n, p)
  BY <1>6, <1>7
<1>9. \A m \in R : m.tagged \in BOOLEAN /\ m.port \in T
  BY <1>3, <1>5
<1> QED BY <1>8, <1>9 DEF R, d

\* What has a tag on the CPU port is in a VLAN there, and nothing else is.
LEMMA CpuLook ==
  ASSUME NEW c, ConfOk(c), NEW cpu, CpuTagged(c, cpu), NEW T, NEW n \in DOMAIN c.nets
  PROVE  \A m \in OnWire(c, T, n, cpu) : m.tagged \in BOOLEAN /\ (m.tagged <=> m.vid # None)
<1>1. Bare(cpu, Arriving(c, T, n))
  BY ArrivingOk
<1> SUFFICES ASSUME NEW f \in Arriving(c, T, n), f.at = cpu
             PROVE  Look(f).tagged \in BOOLEAN /\ (Look(f).tagged <=> Look(f).vid # None)
  BY OnWireIs
<1>2. f \in Frames /\ (f.tags = <<>> => f.vlan = None)
  BY <1>1 DEF Bare
<1>3. f.tags # <<>> => Look(f).vid # None
  BY <1>2, LookOk
<1> QED BY <1>2, <1>3 DEF Look

-----------------------------------------------------------------------------
(* The squares                                                            *)

\* A load whose calls were all answered.
Whole(b, res) == res \in Results(b) /\ res.builtin = TRUE /\ res.topo = TRUE /\ res.nets = TRUE

LEMMA ConfIsOk ==
  ASSUME NEW b \in Boards, NEW c \in b.confs
  PROVE  ConfOk(c) /\ \A w \in c.switch : DOMAIN w.ports \subseteq Elements(b.front)
BY ConfsAssumption DEF ConfsAssumption, ConfOk

LEMMA SeqElements ==
  ASSUME NEW X, NEW s \in Seq(X)
  PROVE  s \in Seq(Elements(s)) /\ Elements(s) \subseteq X
<1>1. Len(s) \in Nat /\ s = [i \in 1..Len(s) |-> s[i]] /\ \A i \in 1..Len(s) : s[i] \in Elements(s)
  BY DEF Elements
<1>2. s \in [1..Len(s) -> Elements(s)]
  BY <1>1
<1>3. s \in Seq(Elements(s))
  <2> DEFINE E == Elements(s)
             n == Len(s)
  <2>1. n \in Nat /\ s \in [1..n -> E]
    BY <1>1, <1>2
  <2> HIDE DEF E, n
  <2>2. s \in Seq(E)
    BY <2>1
  <2> QED BY <2>2 DEF E
<1>4. Elements(s) \subseteq X
  BY DEF Elements
<1> QED BY <1>3, <1>4

\* The card's ports: the netdevs that are, and those of the switch.
LEMMA CardPorts ==
  ASSUME NEW b \in Boards, NEW res, Whole(b, res)
  PROVE  LET all == Devices(b, res) \o Front(b, res) IN
         /\ all \in Seq(DOMAIN b.role) /\ \A i, j \in DOMAIN all : all[i] = all[j] => i = j
         /\ Elements(all) = DOMAIN b.role \ Behind(b)
         /\ Targets(b, res) = Netdevs(b)
         /\ Elements(b.front) \cap Netdevs(b) = {}
         /\ Elements(all) = Elements(b.front) \cup (Netdevs(b) \ {b.cpu})
         /\ None \notin Netdevs(b)
<1> DEFINE all == Devices(b, res) \o Front(b, res)
<1>1. /\ b.builtin \in Seq(DOMAIN b.role) /\ b.front \in Seq(DOMAIN b.role)
      /\ all \in Seq(DOMAIN b.role) /\ \A i, j \in DOMAIN all : all[i] = all[j] => i = j
  BY BoardsAssumption DEF BoardsAssumption, Whole
<1>2. b.builtin \in Seq(Elements(b.builtin))
  BY <1>1, SeqElements
<1>3. /\ Devices(b, res) \in Seq(Elements(b.builtin))
      /\ Elements(Devices(b, res)) = {d \in Elements(b.builtin) : Base(d) # b.cpu}
  BY <1>2, DevicesAre DEF Whole
<1>4. Front(b, res) = b.front
  BY DEF Front, Whole
<1>5. Elements(all) = Elements(Devices(b, res)) \cup Elements(b.front)
        /\ Elements(Devices(b, res)) \cap Elements(b.front) = {}
  <2> DEFINE s == Devices(b, res)
             t == b.front
             u == s \o t
  <2>1. /\ DOMAIN s = 1..Len(s) /\ DOMAIN t = 1..Len(t) /\ Len(s) \in Nat /\ Len(t) \in Nat
        /\ DOMAIN u = 1..(Len(s) + Len(t))
        /\ \A i \in 1..Len(s) : u[i] = s[i]
        /\ \A i \in 1..Len(t) : u[Len(s) + i] = t[i]
    BY <1>1, <1>3
  <2>2. \A i, j \in DOMAIN u : u[i] = u[j] => i = j
    BY <1>1, <1>4
  <2> HIDE DEF s, t, u
  <2>3. \A k \in DOMAIN u : k \in 1..Len(s) \/ k - Len(s) \in 1..Len(t)
    BY <2>1
  <2>4. Elements(u) = Elements(s) \cup Elements(t)
    <3>1. ASSUME NEW k \in DOMAIN u PROVE u[k] \in Elements(s) \cup Elements(t)
      <4>1. CASE k \in 1..Len(s)
        BY <2>1, <4>1 DEF Elements
      <4>2. CASE k - Len(s) \in 1..Len(t)
        <5>1. Len(s) + (k - Len(s)) = k
          BY <2>1
        <5> QED BY <2>1, <4>2, <5>1 DEF Elements
      <4> QED BY <2>3, <4>1, <4>2
    <3>2. ASSUME NEW i \in DOMAIN s PROVE s[i] \in Elements(u)
      <4>1. i \in DOMAIN u
        BY <2>1
      <4> QED BY <2>1, <4>1 DEF Elements
    <3>3. ASSUME NEW i \in DOMAIN t PROVE t[i] \in Elements(u)
      <4>1. Len(s) + i \in DOMAIN u
        BY <2>1
      <4> QED BY <2>1, <4>1 DEF Elements
    <3> QED BY <3>1, <3>2, <3>3 DEF Elements
  <2>5. ASSUME NEW i \in DOMAIN s, NEW j \in DOMAIN t PROVE s[i] # t[j]
    <3>1. i \in DOMAIN u /\ Len(s) + j \in DOMAIN u /\ i # Len(s) + j
      BY <2>1
    <3> QED BY <2>1, <2>2, <3>1
  <2>6. Elements(s) \cap Elements(t) = {}
    BY <2>5 DEF Elements
  <2> QED BY <1>4, <2>4, <2>6 DEF s, t, u
<1> HIDE DEF all
<1>6. /\ DOMAIN b.role = Elements(b.builtin) \cup Elements(b.front) /\ DOMAIN b.role \subseteq STRING
      /\ b.cpu \in STRING \cup {None} /\ b.cpu \notin DOMAIN b.role
      /\ \A p \in Elements(b.front) \cap DOMAIN Dotted : Dotted[p].parent # b.cpu
  BY RolesAssumption DEF RolesAssumption
<1>7. \A d \in Elements(b.builtin) : Base(d) # b.cpu <=> (d \in DOMAIN Dotted => Dotted[d].parent # b.cpu)
  BY <1>6 DEF Base
<1>8. Netdevs(b) = Elements(Devices(b, res)) \cup ({b.cpu} \ {None})
  BY <1>3, <1>7 DEF Netdevs
<1>9. Targets(b, res) = Netdevs(b)
  BY <1>8 DEF Targets, Whole
<1>10. Elements(b.front) \cap Netdevs(b) = {}
  BY <1>5, <1>6, <1>8
<1>11. Elements(all) = Elements(b.front) \cup (Netdevs(b) \ {b.cpu})
  BY <1>3, <1>5, <1>6, <1>8
<1>12. None \notin STRING /\ \A d \in DOMAIN Dotted : Dotted[d].parent \in STRING
  BY NamesAssumption DEF NamesAssumption
<1>13. Elements(all) = DOMAIN b.role \ Behind(b)
  <2>1. \A d \in Elements(b.builtin) : Base(d) # b.cpu <=> d \notin Behind(b)
    BY <1>7, <1>12 DEF Behind
  <2>2. Elements(b.front) \cap Behind(b) = {}
    BY <1>6 DEF Behind
  <2> QED BY <1>3, <1>5, <1>6, <2>1, <2>2
<1>14. None \notin Netdevs(b)
  BY <1>3, <1>6, <1>8, <1>12
<1> QED BY <1>1, <1>9, <1>10, <1>11, <1>13, <1>14 DEF all

-----------------------------------------------------------------------------
\* The networks of a square are those of its port's members.
Grouped(M, t, n) == {[vid |-> g.vid, tagged |-> t] : g \in {g \in Groups(M, t) : n \in g.nets}}
Carried(M, t, n) == {[vid |-> m.vid, tagged |-> t] : m \in {m \in M : m.tagged = t /\ m.net = n}}

LEMMA GroupsNet ==
  ASSUME NEW M, NEW n, n # None, NEW t
  PROVE  Grouped(M, t, n) = Carried(M, t, n)
<1> DEFINE some == {m \in M : m.tagged = t}
           group(v) == [vid |-> v, nets |-> {m.net : m \in {m \in some : m.vid = v}} \ {None}]
<1>1. Groups(M, t) = {group(v) : v \in {m.vid : m \in some}}
  BY DEF Groups
<1>2. \A v : group(v).vid = v /\ (n \in group(v).nets <=> \E m \in some : m.vid = v /\ m.net = n)
  OBVIOUS
<1> HIDE DEF group
<1>3. \A m \in M : m \in some <=> m.tagged = t
  OBVIOUS
<1>4. some \subseteq M
  OBVIOUS
<1> HIDE DEF some
<1>5. ASSUME NEW g \in Groups(M, t), n \in g.nets
      PROVE  \E m \in M : m.tagged = t /\ m.net = n /\ m.vid = g.vid
  BY <1>1, <1>2, <1>3, <1>4, <1>5
<1>6. ASSUME NEW m \in M, m.tagged = t, m.net = n
      PROVE  \E g \in Groups(M, t) : n \in g.nets /\ g.vid = m.vid
  <2>1. group(m.vid) \in Groups(M, t)
    BY <1>1, <1>3, <1>6
  <2> QED BY <1>2, <1>3, <1>6, <2>1
<1> QED BY <1>5, <1>6 DEF Grouped, Carried

LEMMA NetworksAre ==
  ASSUME NEW b, NEW c, NEW res, NEW n, n # None,
         NEW i \in DOMAIN (Devices(b, res) \o Front(b, res)),
         \A m \in Members(b, c, res) : m.net = n => m.tagged \in BOOLEAN
  PROVE  LET id == (Devices(b, res) \o Front(b, res))[i] IN
         Networks(Collect(b, c, res), i, n)
           = {[vid |-> m.vid, tagged |-> m.tagged] : m \in {m \in Members(b, c, res) : m.port = id /\ m.net = n}}
<1> DEFINE all == Devices(b, res) \o Front(b, res)
           M == Members(b, c, res)
           of == {m \in M : m.port = all[i]}
           ports == Collect(b, c, res)
<1>1. ports[i].native = Groups(of, FALSE) /\ ports[i].tagged = Groups(of, TRUE)
  BY DEF Collect
<1> HIDE DEF ports, all, M
<1>2. Networks(ports, i, n) = {[vid |-> g.vid, tagged |-> FALSE] : g \in {g \in Groups(of, FALSE) : n \in g.nets}}
                         \cup {[vid |-> g.vid, tagged |-> TRUE] : g \in {g \in Groups(of, TRUE) : n \in g.nets}}
  BY <1>1 DEF Networks
<1>3. Networks(ports, i, n) = {[vid |-> m.vid, tagged |-> FALSE] : m \in {m \in of : m.tagged = FALSE /\ m.net = n}}
                         \cup {[vid |-> m.vid, tagged |-> TRUE] : m \in {m \in of : m.tagged = TRUE /\ m.net = n}}
  <2>1. Networks(ports, i, n) = Grouped(of, FALSE, n) \cup Grouped(of, TRUE, n)
    BY <1>2 DEF Grouped
  <2>2. Networks(ports, i, n) = Carried(of, FALSE, n) \cup Carried(of, TRUE, n)
    BY <2>1, GroupsNet
  <2> QED BY <2>2 DEF Carried
<1>4. \A m \in of : m.net = n => m.tagged = TRUE \/ m.tagged = FALSE
  BY DEF M
<1>5. {[vid |-> m.vid, tagged |-> FALSE] : m \in {m \in of : m.tagged = FALSE /\ m.net = n}}
      \cup {[vid |-> m.vid, tagged |-> TRUE] : m \in {m \in of : m.tagged = TRUE /\ m.net = n}}
      = {[vid |-> m.vid, tagged |-> m.tagged] : m \in {m \in of : m.net = n}}
  BY <1>4
<1>6. {m \in of : m.net = n} = {m \in M : m.port = all[i] /\ m.net = n}
  OBVIOUS
<1> QED BY <1>3, <1>5, <1>6 DEF ports, all, M

-----------------------------------------------------------------------------
(* Their networks                                                         *)

\* A network that is where Regular has it.
LEMMA RegularNet ==
  ASSUME NEW b \in Boards, NEW c \in b.confs, Regular(b, c), NEW n \in DOMAIN c.nets, NEW p \in Netdevs(b)
  PROVE  /\ {[vid |-> m.vid, tagged |-> m.tagged] :
               m \in {m \in Resolve(c, Netdevs(b), DeviceOf(c, n)) : m.port = p}} = OnWire(c, Netdevs(b), n, p)
         /\ \A m \in Resolve(c, Netdevs(b), DeviceOf(c, n)) : m.tagged \in BOOLEAN /\ m.port \in Netdevs(b)
<1>1. ConfOk(c)
  BY ConfIsOk
<1> QED BY <1>1, ReachesIs DEF Regular

\* ... whether it is on a port or on none.
LEMMA RegularWays ==
  ASSUME NEW b \in Boards, NEW c \in b.confs, Regular(b, c), NEW n \in DOMAIN c.nets
  PROVE  \A m \in Resolve(c, Netdevs(b), DeviceOf(c, n)) : m.tagged \in BOOLEAN /\ m.port \in Netdevs(b)
<1> DEFINE T == Netdevs(b)
           d == DeviceOf(c, n)
<1>1. ConfOk(c) /\ d \in STRING
  BY ConfIsOk DEF DeviceOf, ConfOk
<1>2. Resolve(c, T, d) = Arrived(T, Down(c, T, Down(c, T, Down(c, T, {Sent(d)}))))
  BY <1>1, ResolveTells DEF Regular
<1>3. ASSUME NEW m \in Resolve(c, T, d) PROVE m.tagged \in BOOLEAN /\ m.port \in T
  <2>1. PICK f : f.at \in T /\ m = Way(f)
    BY <1>2 DEF Arrived
  <2> QED BY <2>1, LookIs
<1> QED BY <1>3

LEMMA NetdevMembers ==
  ASSUME NEW b \in Boards, NEW c \in b.confs, NEW res, Whole(b, res)
  PROVE  \A m : m \in OnNetdevs(b, c, res) <=>
           \E n \in DOMAIN c.nets : \E r \in Resolve(c, Netdevs(b), DeviceOf(c, n)) :
             m = [port |-> r.port, vid |-> r.vid, tagged |-> r.tagged, net |-> n]
<1>1. Targets(b, res) = Netdevs(b)
  BY CardPorts
<1>2. OnNetdevs(b, c, res) =
        UNION {{[port |-> r.port, vid |-> r.vid, tagged |-> r.tagged, net |-> n] :
                  r \in Resolve(c, Netdevs(b), DeviceOf(c, n))} : n \in DOMAIN c.nets}
  BY <1>1 DEF OnNetdevs, Whole
<1> QED BY <1>2

\* The networks that a VLAN of the switch has from the CPU port.
Through(b, X, w) == {m \in X :
  /\ m.port = b.cpu
  /\ IF w.cpu = "t" THEN m.vid = w.vid /\ m.tagged ELSE w.cpu = "u" /\ m.vid = None}
NetsOf(b, X, w) == IF Through(b, X, w) = {} THEN {None} ELSE {m.net : m \in Through(b, X, w)}

LEMMA SwitchMembers ==
  ASSUME NEW b, NEW c, NEW X
  PROVE  \A m : m \in OnSwitch(b, c, X) <=>
           \E w \in c.switch : \E p \in DOMAIN w.ports : \E k \in NetsOf(b, X, w) :
             m = [port |-> p, vid |-> w.vid, tagged |-> w.ports[p] = "t", net |-> k]
<1>1. OnSwitch(b, c, X) =
        UNION {{[port |-> member[1], vid |-> w.vid, tagged |-> w.ports[member[1]] = "t", net |-> member[2]] :
                  member \in (DOMAIN w.ports) \X NetsOf(b, X, w)} : w \in c.switch}
  BY DEF OnSwitch, NetsOf, Through
<1>2. ASSUME NEW w \in c.switch, NEW p \in DOMAIN w.ports, NEW k \in NetsOf(b, X, w)
      PROVE  [port |-> p, vid |-> w.vid, tagged |-> w.ports[p] = "t", net |-> k] \in OnSwitch(b, c, X)
  <2>1. <<p, k>> \in (DOMAIN w.ports) \X NetsOf(b, X, w) /\ <<p, k>>[1] = p /\ <<p, k>>[2] = k
    OBVIOUS
  <2> QED BY <1>1, <2>1
<1>3. ASSUME NEW m \in OnSwitch(b, c, X)
      PROVE  \E w \in c.switch : \E p \in DOMAIN w.ports : \E k \in NetsOf(b, X, w) :
               m = [port |-> p, vid |-> w.vid, tagged |-> w.ports[p] = "t", net |-> k]
  <2>1. PICK w \in c.switch : \E member \in (DOMAIN w.ports) \X NetsOf(b, X, w) :
          m = [port |-> member[1], vid |-> w.vid, tagged |-> w.ports[member[1]] = "t", net |-> member[2]]
    BY <1>1
  <2>2. PICK member \in (DOMAIN w.ports) \X NetsOf(b, X, w) :
          m = [port |-> member[1], vid |-> w.vid, tagged |-> w.ports[member[1]] = "t", net |-> member[2]]
    BY <2>1
  <2>3. member[1] \in DOMAIN w.ports /\ member[2] \in NetsOf(b, X, w)
    OBVIOUS
  <2> QED BY <2>2, <2>3
<1> QED BY <1>2, <1>3

\* The members of network n on port id.
MembersOn(b, c, res, n, id) == {m \in Members(b, c, res) : m.port = id /\ m.net = n}

LEMMA MembersOnNetdev ==
  ASSUME NEW b \in Boards, NEW c \in b.confs, Regular(b, c), NEW res, Whole(b, res),
         NEW n \in DOMAIN c.nets, NEW id \in Netdevs(b)
  PROVE  {[vid |-> m.vid, tagged |-> m.tagged] : m \in MembersOn(b, c, res, n, id)} = OnWire(c, Netdevs(b), n, id)
<1> DEFINE X == OnNetdevs(b, c, res)
           R == Resolve(c, Netdevs(b), DeviceOf(c, n))
<1>1. n # None
  BY ConfIsOk, NamesAssumption DEF NamesAssumption, ConfOk
<1>2. ASSUME NEW m \in OnBridges(c) PROVE m.net # n
  BY <1>1 DEF OnBridges
<1>3. ASSUME NEW m \in OnSwitch(b, c, X) PROVE m.port # id
  <2>1. PICK w \in c.switch : m.port \in DOMAIN w.ports
    BY SwitchMembers
  <2> QED BY <2>1, ConfIsOk, CardPorts
<1>4. MembersOn(b, c, res, n, id) = {m \in X : m.port = id /\ m.net = n}
  BY <1>2, <1>3 DEF MembersOn, Members, Whole
<1>5. \A m : m \in X <=> \E k \in DOMAIN c.nets : \E r \in Resolve(c, Netdevs(b), DeviceOf(c, k)) :
                           m = [port |-> r.port, vid |-> r.vid, tagged |-> r.tagged, net |-> k]
  BY NetdevMembers
<1> HIDE DEF X
<1>6. ASSUME NEW m \in X, m.port = id, m.net = n
      PROVE  \E r \in R : r.port = id /\ r.vid = m.vid /\ r.tagged = m.tagged
  BY <1>5, <1>6
<1>7. ASSUME NEW r \in R, r.port = id
      PROVE  \E m \in X : m.port = id /\ m.net = n /\ r.vid = m.vid /\ r.tagged = m.tagged
  <2> DEFINE m == [port |-> r.port, vid |-> r.vid, tagged |-> r.tagged, net |-> n]
  <2>1. m \in X
    BY <1>5
  <2>2. m.port = id /\ m.net = n /\ r.vid = m.vid /\ r.tagged = m.tagged
    BY <1>7
  <2> QED BY <2>1, <2>2
<1> HIDE DEF R
<1>8. {[vid |-> m.vid, tagged |-> m.tagged] : m \in {m \in X : m.port = id /\ m.net = n}}
        = {[vid |-> r.vid, tagged |-> r.tagged] : r \in {r \in R : r.port = id}}
  BY <1>6, <1>7
<1>9. {[vid |-> r.vid, tagged |-> r.tagged] : r \in {r \in R : r.port = id}} = OnWire(c, Netdevs(b), n, id)
  BY RegularNet DEF R
<1> QED BY <1>4, <1>8, <1>9

\* A VLAN of the switch has the network just where it has its frames.
LEMMA ThroughCpu ==
  ASSUME NEW b \in Boards, NEW c \in b.confs, Regular(b, c), NEW res, Whole(b, res),
         NEW n \in DOMAIN c.nets, NEW w
  PROVE  n \in NetsOf(b, OnNetdevs(b, c, res), w) <=>
           \E m \in OnWire(c, Netdevs(b), n, b.cpu) :
             IF m.tagged THEN w.cpu = "t" /\ m.vid = w.vid ELSE w.cpu = "u"
<1> DEFINE X == OnNetdevs(b, c, res)
           R == Resolve(c, Netdevs(b), DeviceOf(c, n))
           thru == Through(b, X, w)
<1>1. n # None /\ ConfOk(c)
  BY ConfIsOk, NamesAssumption DEF NamesAssumption, ConfOk
<1>2. n \in NetsOf(b, X, w) <=> \E m \in thru : m.net = n
  BY <1>1 DEF NetsOf
<1>3. \A m : m \in X <=> \E k \in DOMAIN c.nets : \E r \in Resolve(c, Netdevs(b), DeviceOf(c, k)) :
                           m = [port |-> r.port, vid |-> r.vid, tagged |-> r.tagged, net |-> k]
  BY NetdevMembers
<1> HIDE DEF X
<1>4. (\E m \in thru : m.net = n) <=>
      \E r \in R : r.port = b.cpu /\ IF w.cpu = "t" THEN r.vid = w.vid /\ r.tagged ELSE w.cpu = "u" /\ r.vid = None
  <2>1. ASSUME NEW m \in thru, m.net = n
        PROVE  \E r \in R : r.port = b.cpu /\ IF w.cpu = "t" THEN r.vid = w.vid /\ r.tagged ELSE w.cpu = "u" /\ r.vid = None
    <3>1. m \in X /\ m.port = b.cpu /\ IF w.cpu = "t" THEN m.vid = w.vid /\ m.tagged ELSE w.cpu = "u" /\ m.vid = None
      BY DEF Through
    <3>2. PICK r \in R : m = [port |-> r.port, vid |-> r.vid, tagged |-> r.tagged, net |-> n]
      BY <1>3, <2>1, <3>1
    <3>3. r.port = b.cpu /\ r.vid = m.vid /\ r.tagged = m.tagged
      BY <3>1, <3>2
    <3> QED BY <3>1, <3>3
  <2>2. ASSUME NEW r \in R, r.port = b.cpu,
               IF w.cpu = "t" THEN r.vid = w.vid /\ r.tagged ELSE w.cpu = "u" /\ r.vid = None
        PROVE  \E m \in thru : m.net = n
    <3> DEFINE m == [port |-> r.port, vid |-> r.vid, tagged |-> r.tagged, net |-> n]
    <3>1. m \in X
      BY <1>3
    <3>2. m.port = b.cpu /\ m.vid = r.vid /\ m.tagged = r.tagged /\ m.net = n
      BY <2>2
    <3> HIDE DEF m
    <3>3. m \in thru
      BY <2>2, <3>1, <3>2 DEF Through
    <3> QED BY <3>2, <3>3
  <2> QED BY <2>1, <2>2
<1>5. CASE b.cpu \in Netdevs(b)
  <2>1. {[vid |-> r.vid, tagged |-> r.tagged] : r \in {r \in R : r.port = b.cpu}} = OnWire(c, Netdevs(b), n, b.cpu)
    BY <1>5, RegularNet
  <2>2. CpuTagged(c, b.cpu)
    BY DEF Regular, CpuTagged
  <2>3. \A m \in OnWire(c, Netdevs(b), n, b.cpu) : m.tagged \in BOOLEAN /\ (m.tagged <=> m.vid # None)
    BY <1>1, <2>2, CpuLook
  <2> HIDE DEF R
  <2>4. (\E r \in R : r.port = b.cpu /\ IF w.cpu = "t" THEN r.vid = w.vid /\ r.tagged ELSE w.cpu = "u" /\ r.vid = None)
        <=> \E m \in OnWire(c, Netdevs(b), n, b.cpu) :
              IF w.cpu = "t" THEN m.vid = w.vid /\ m.tagged ELSE w.cpu = "u" /\ m.vid = None
    <3> DEFINE ok(m) == IF w.cpu = "t" THEN m.vid = w.vid /\ m.tagged ELSE w.cpu = "u" /\ m.vid = None
               look(r) == [vid |-> r.vid, tagged |-> r.tagged]
    <3>1. \A r : ok(look(r)) <=> ok(r)
      OBVIOUS
    <3>2. \A r \in R : r.port = b.cpu => look(r) \in OnWire(c, Netdevs(b), n, b.cpu)
      BY <2>1
    <3>3. \A m \in OnWire(c, Netdevs(b), n, b.cpu) : \E r \in R : r.port = b.cpu /\ m = look(r)
      BY <2>1
    <3> HIDE DEF look, ok
    <3>4. (\E r \in R : r.port = b.cpu /\ ok(r)) <=> \E m \in OnWire(c, Netdevs(b), n, b.cpu) : ok(m)
      BY <3>1, <3>2, <3>3
    <3> QED BY <3>4 DEF ok
  <2>5. ASSUME NEW m \in OnWire(c, Netdevs(b), n, b.cpu)
        PROVE  (IF w.cpu = "t" THEN m.vid = w.vid /\ m.tagged ELSE w.cpu = "u" /\ m.vid = None)
               <=> (IF m.tagged THEN w.cpu = "t" /\ m.vid = w.vid ELSE w.cpu = "u")
    BY <2>3
  <2> HIDE DEF thru
  <2>6. (\E m \in OnWire(c, Netdevs(b), n, b.cpu) :
           IF w.cpu = "t" THEN m.vid = w.vid /\ m.tagged ELSE w.cpu = "u" /\ m.vid = None)
        <=> \E m \in OnWire(c, Netdevs(b), n, b.cpu) : IF m.tagged THEN w.cpu = "t" /\ m.vid = w.vid ELSE w.cpu = "u"
    BY <2>5
  <2>7. (n \in NetsOf(b, X, w)) <=> \E m \in OnWire(c, Netdevs(b), n, b.cpu) :
           IF m.tagged THEN w.cpu = "t" /\ m.vid = w.vid ELSE w.cpu = "u"
    BY <1>2, <1>4, <2>4, <2>6
  <2> QED BY <2>7 DEF X
<1>6. CASE b.cpu \notin Netdevs(b)
  <2>1. \A r \in R : r.port # b.cpu
    BY <1>6, RegularWays
  <2>2. b.cpu = None
    BY <1>6, RolesAssumption DEF RolesAssumption, Netdevs
  <2>3. OnWire(c, Netdevs(b), n, b.cpu) = {}
    <3>1. Bare(b.cpu, Arriving(c, Netdevs(b), n))
      BY <1>1, ArrivingOk DEF Regular, CpuTagged
    <3>2. None \notin STRING
      BY NamesAssumption DEF NamesAssumption
    <3>3. \A f \in Arriving(c, Netdevs(b), n) : f.at # b.cpu
      BY <2>2, <3>1, <3>2 DEF Bare, Frames
    <3> QED BY <3>3, OnWireIs
  <2> HIDE DEF R, thru
  <2>4. n \notin NetsOf(b, X, w)
    BY <1>2, <1>4, <2>1
  <2> QED BY <2>3, <2>4 DEF X
<1> QED BY <1>5, <1>6

LEMMA MembersOnFront ==
  ASSUME NEW b \in Boards, NEW c \in b.confs, Regular(b, c), NEW res, Whole(b, res),
         NEW n \in DOMAIN c.nets, NEW id \in Elements(b.front)
  PROVE  {[vid |-> m.vid, tagged |-> m.tagged] : m \in MembersOn(b, c, res, n, id)} = OnFront(b, c, Netdevs(b), n, id)
<1> DEFINE X == OnNetdevs(b, c, res)
           S == OnSwitch(b, c, X)
           carry(w) == n \in NetsOf(b, X, w)
           look(w) == [vid |-> w.vid, tagged |-> w.ports[id] = "t"]
<1>1. n # None
  BY ConfIsOk, NamesAssumption DEF NamesAssumption, ConfOk
<1>2. ASSUME NEW m \in OnBridges(c) PROVE m.net # n
  BY <1>1 DEF OnBridges
<1>3. ASSUME NEW m \in X PROVE m.port # id
  <2>1. PICK k \in DOMAIN c.nets : \E r \in Resolve(c, Netdevs(b), DeviceOf(c, k)) : m.port = r.port
    BY NetdevMembers
  <2> QED BY <2>1, RegularWays, CardPorts
<1>4. MembersOn(b, c, res, n, id) = {m \in S : m.port = id /\ m.net = n}
  BY <1>2, <1>3 DEF MembersOn, Members, Whole
<1>5. \A m : m \in S <=> \E w \in c.switch : \E p \in DOMAIN w.ports : \E k \in NetsOf(b, X, w) :
                           m = [port |-> p, vid |-> w.vid, tagged |-> w.ports[p] = "t", net |-> k]
  BY SwitchMembers
<1>6. OnFront(b, c, Netdevs(b), n, id) = {look(w) : w \in {w \in c.switch : id \in DOMAIN w.ports /\ carry(w)}}
  BY ThroughCpu DEF OnFront
<1> HIDE DEF S, X
<1>7. ASSUME NEW m \in S, m.port = id, m.net = n
      PROVE  \E w \in c.switch : id \in DOMAIN w.ports /\ carry(w) /\ [vid |-> m.vid, tagged |-> m.tagged] = look(w)
  <2>1. PICK w \in c.switch : \E p \in DOMAIN w.ports : \E k \in NetsOf(b, X, w) :
          m = [port |-> p, vid |-> w.vid, tagged |-> w.ports[p] = "t", net |-> k]
    BY <1>5
  <2>2. PICK p \in DOMAIN w.ports : \E k \in NetsOf(b, X, w) :
          m = [port |-> p, vid |-> w.vid, tagged |-> w.ports[p] = "t", net |-> k]
    BY <2>1
  <2>3. p = id /\ carry(w) /\ m.vid = w.vid /\ m.tagged = (w.ports[id] = "t")
    BY <1>7, <2>2
  <2> QED BY <2>3
<1>8. ASSUME NEW w \in c.switch, id \in DOMAIN w.ports, carry(w)
      PROVE  \E m \in S : m.port = id /\ m.net = n /\ [vid |-> m.vid, tagged |-> m.tagged] = look(w)
  <2> DEFINE m == [port |-> id, vid |-> w.vid, tagged |-> w.ports[id] = "t", net |-> n]
  <2>1. m \in S
    BY <1>5, <1>8
  <2> QED BY <2>1
<1> HIDE DEF look, carry
<1>9. {[vid |-> m.vid, tagged |-> m.tagged] : m \in {m \in S : m.port = id /\ m.net = n}}
        = {look(w) : w \in {w \in c.switch : id \in DOMAIN w.ports /\ carry(w)}}
  BY <1>7, <1>8
<1> QED BY <1>4, <1>6, <1>9

-----------------------------------------------------------------------------
(* The card tells what is on the wire                                     *)

\* What the property asks of the card.
Tells(b, c, lit, ports) ==
  LET leave(n) == {i \in DOMAIN ports : Wire(b, c, n, ports[i].id) # {}}
      wan == UNION {leave(n) : n \in Wan \cap DOMAIN c.nets}
  IN /\ {ports[i].id : i \in DOMAIN ports} = DOMAIN b.role \ Behind(b)
     /\ \A i \in DOMAIN ports :
          /\ \A n \in DOMAIN c.nets : Networks(ports, i, n) = Wire(b, c, n, ports[i].id)
          /\ ports[i].state = "up" => ports[i].id \in lit
          /\ wan = {i} => \A j \in DOMAIN ports : ports[j].uplink <=> j = i

LEMMA CardTells ==
  ASSUME NEW b \in Boards, NEW c \in b.confs, Regular(b, c), NEW res, Whole(b, res)
  PROVE  Tells(b, c, res.links, Collect(b, c, res))
<1> DEFINE all == Devices(b, res) \o Front(b, res)
           ports == Collect(b, c, res)
           M == Members(b, c, res)
           carrying == [id \in Elements(all) |-> {m.net : m \in {m \in M : m.port = id}}]
           leave(n) == {i \in DOMAIN ports : Wire(b, c, n, ports[i].id) # {}}
           wan == UNION {leave(n) : n \in Wan \cap DOMAIN c.nets}
<1>1. /\ \A i, j \in DOMAIN all : all[i] = all[j] => i = j
      /\ Elements(all) = DOMAIN b.role \ Behind(b)
      /\ Elements(b.front) \cap Netdevs(b) = {}
      /\ Elements(all) = Elements(b.front) \cup (Netdevs(b) \ {b.cpu})
  BY CardPorts
<1>2. /\ DOMAIN ports = DOMAIN all
      /\ \A i \in DOMAIN all : /\ ports[i].id = all[i]
                               /\ ports[i].state = SpeedClass(c, res, all[i])
                               /\ ports[i].uplink = (all[i] \in Uplinks(b, Elements(all), carrying))
  BY DEF Collect
<1>3. \A n \in DOMAIN c.nets : n # None
  BY ConfIsOk, NamesAssumption DEF NamesAssumption, ConfOk
<1>4. ASSUME NEW id \in Elements(all), NEW n \in DOMAIN c.nets
      PROVE  {[vid |-> m.vid, tagged |-> m.tagged] : m \in MembersOn(b, c, res, n, id)} = Wire(b, c, n, id)
  <2>1. CASE id \in Elements(b.front)
    BY <2>1, MembersOnFront DEF Wire
  <2>2. CASE id \notin Elements(b.front)
    <3>1. id \in Netdevs(b)
      BY <1>1, <2>2
    <3> QED BY <2>2, <3>1, MembersOnNetdev DEF Wire
  <2> QED BY <2>1, <2>2
<1>5. ASSUME NEW n \in DOMAIN c.nets
      PROVE  \A m \in M : m.net = n => m.tagged \in BOOLEAN
  <2>1. ASSUME NEW m \in OnNetdevs(b, c, res) PROVE m.tagged \in BOOLEAN
    <3>1. PICK k \in DOMAIN c.nets : \E r \in Resolve(c, Netdevs(b), DeviceOf(c, k)) : m.tagged = r.tagged
      BY NetdevMembers
    <3> QED BY <3>1, RegularWays
  <2>2. ASSUME NEW m \in OnBridges(c) PROVE m.net # n
    BY <1>3 DEF OnBridges
  <2>3. ASSUME NEW m \in OnSwitch(b, c, OnNetdevs(b, c, res)) PROVE m.tagged \in BOOLEAN
    <3>1. PICK w \in c.switch : \E p \in DOMAIN w.ports : m.tagged = (w.ports[p] = "t")
      BY SwitchMembers
    <3> QED BY <3>1
  <2> QED BY <2>1, <2>2, <2>3 DEF Members
<1>6. ASSUME NEW i \in DOMAIN all, NEW n \in DOMAIN c.nets
      PROVE  Networks(ports, i, n) = Wire(b, c, n, all[i])
  <2>1. all[i] \in Elements(all)
    BY DEF Elements
  <2>2. Networks(ports, i, n) = {[vid |-> m.vid, tagged |-> m.tagged] : m \in MembersOn(b, c, res, n, all[i])}
    BY <1>3, <1>5, NetworksAre DEF MembersOn
  <2> QED BY <1>4, <2>1, <2>2
<1> HIDE DEF all, ports
<1>7. {ports[i].id : i \in DOMAIN ports} = DOMAIN b.role \ Behind(b)
  <2>1. {ports[i].id : i \in DOMAIN ports} = {all[i] : i \in DOMAIN all}
    BY <1>2
  <2> QED BY <1>1, <2>1 DEF Elements
<1>8. \A i \in DOMAIN ports : ports[i].state = "up" => ports[i].id \in res.links
  BY <1>2 DEF SpeedClass
\* A WAN leaves through the ports that carry one.
<1>9. ASSUME NEW id \in Elements(all)
      PROVE  carrying[id] \cap Wan # {} <=> \E n \in Wan \cap DOMAIN c.nets : Wire(b, c, n, id) # {}
  <2>1. carrying[id] = {m.net : m \in {m \in M : m.port = id}}
    OBVIOUS
  <2>2. \A m \in M : m.net \in DOMAIN c.nets \cup {None}
    <3>1. \A m \in OnNetdevs(b, c, res) : m.net \in DOMAIN c.nets
      BY NetdevMembers
    <3>2. \A m \in OnBridges(c) : m.net = None
      BY DEF OnBridges
    <3>3. ASSUME NEW m \in OnSwitch(b, c, OnNetdevs(b, c, res)) PROVE m.net \in DOMAIN c.nets \cup {None}
      <4>1. PICK w \in c.switch : m.net \in NetsOf(b, OnNetdevs(b, c, res), w)
        BY SwitchMembers
      <4> QED BY <3>1, <4>1 DEF NetsOf, Through
    <3> QED BY <3>1, <3>2, <3>3 DEF Members
  <2>3. None \notin Wan
    BY NamesAssumption DEF NamesAssumption
  <2>4. \A n \in DOMAIN c.nets : Wire(b, c, n, id) # {} <=> \E m \in M : m.port = id /\ m.net = n
    <3>1. ASSUME NEW n \in DOMAIN c.nets PROVE Wire(b, c, n, id) # {} <=> \E m \in M : m.port = id /\ m.net = n
      <4>1. {[vid |-> m.vid, tagged |-> m.tagged] : m \in MembersOn(b, c, res, n, id)} = Wire(b, c, n, id)
        BY <1>4
      <4>2. MembersOn(b, c, res, n, id) = {m \in M : m.port = id /\ m.net = n}
        BY DEF MembersOn
      <4> HIDE DEF M
      <4> QED BY <4>1, <4>2
    <3> QED BY <3>1
  <2> HIDE DEF M, carrying
  <2> QED BY <2>1, <2>2, <2>3, <2>4
<1>10. ASSUME NEW i \in DOMAIN ports, wan = {i}
       PROVE  \A j \in DOMAIN ports : ports[j].uplink <=> j = i
  <2> DEFINE leaving == {id \in Elements(all) : carrying[id] \cap Wan # {}}
  <2>1. \A j \in DOMAIN all : all[j] \in Elements(all) /\ (all[j] \in leaving <=> j \in wan)
    <3>1. \A j \in DOMAIN all : all[j] \in Elements(all)
      BY DEF Elements
    <3>2. \A j : j \in wan <=> \E n \in Wan \cap DOMAIN c.nets : j \in DOMAIN ports /\ Wire(b, c, n, ports[j].id) # {}
      OBVIOUS
    <3> HIDE DEF carrying, wan
    <3>3. \A j \in DOMAIN all : all[j] \in leaving <=> \E n \in Wan \cap DOMAIN c.nets : Wire(b, c, n, all[j]) # {}
      BY <1>9, <3>1
    <3>4. \A j \in DOMAIN all : j \in wan <=> \E n \in Wan \cap DOMAIN c.nets : Wire(b, c, n, all[j]) # {}
      BY <1>2, <3>2
    <3> QED BY <3>1, <3>3, <3>4
  <2> HIDE DEF wan, carrying
  <2>2. leaving = {all[i]}
    <3>1. i \in DOMAIN all /\ all[i] \in leaving
      BY <1>2, <1>10, <2>1
    <3>2. ASSUME NEW id \in leaving PROVE id = all[i]
      <4>1. PICK j \in DOMAIN all : id = all[j]
        BY DEF Elements
      <4>2. j \in wan
        BY <2>1, <4>1
      <4> QED BY <1>10, <4>1, <4>2
    <3> QED BY <3>1, <3>2
  <2>3. Uplinks(b, Elements(all), carrying) = leaving
    BY <2>2 DEF Uplinks
  <2>4. \A j \in DOMAIN all : all[j] = all[i] <=> j = i
    BY <1>1, <1>2
  <2> HIDE DEF leaving
  <2>5. \A j \in DOMAIN all : ports[j].uplink = (all[j] = all[i])
    BY <1>2, <2>2, <2>3
  <2> QED BY <1>2, <2>4, <2>5
<1>11. \A i \in DOMAIN ports : \A n \in DOMAIN c.nets : Networks(ports, i, n) = Wire(b, c, n, ports[i].id)
  BY <1>2, <1>6
<1> QED BY <1>7, <1>8, <1>10, <1>11 DEF Tells, ports

-----------------------------------------------------------------------------
\* A card that is current is what a load would make now of the router as it is.
CurrentInv ==
  /\ UserInv /\ conf \in board.confs
  /\ current => (IF card = None THEN <<>> ELSE card.squares) = Collect(board, conf, Got(All))

LEMMA CurrentStep ==
  ASSUME NoneIsNoCard, CurrentInv, [Next]_vars
  PROVE  CurrentInv'
<1>1. UserInv'
  BY UserStep DEF CurrentInv
<1>2. CASE UNCHANGED <<board, conf, links, card, current>>
  BY <1>1, <1>2 DEF CurrentInv, Got
<1>3. CASE Answer
  <2> DEFINE ports == Collect(board, conf, loading)
  <2>1. UNCHANGED <<board, conf, links>> /\ current' = (loading = Got(All))
    BY <1>3 DEF Answer, router
  <2>2. card' = Drawn(ports)
    BY <1>3 DEF Answer, Redrawn, Patched
  <2> HIDE DEF ports
  <2>3. (IF card' = None THEN <<>> ELSE card'.squares) = ports
    BY <2>2 DEF Drawn, NoneIsNoCard
  <2>4. current' => loading = Got(All)
    BY <2>1
  <2>5. current' => ports = Collect(board, conf, Got(All))
    BY <2>4 DEF ports
  <2>6. Collect(board, conf, Got(All))' = Collect(board, conf, Got(All))
    BY <2>1 DEF Got
  <2> QED BY <1>1, <2>1, <2>3, <2>5, <2>6 DEF CurrentInv
<1>4. CASE Toggle
  <2>1. UNCHANGED <<board, conf, links, current>> /\ card # None
        /\ card' = [card EXCEPT !.list = IF open' THEN "open" ELSE "closed"]
    BY <1>4 DEF Toggle, router
  <2>2. card = [squares |-> card.ports, ports |-> card.ports, list |-> card.list]
    BY <2>1 DEF CurrentInv, UserInv, CardOk
  <2>3. card' = [squares |-> card.ports, ports |-> card.ports, list |-> IF open' THEN "open" ELSE "closed"]
    BY <2>1, <2>2
  <2>4. card' # None /\ card'.squares = card.squares
    BY <2>2, <2>3 DEF NoneIsNoCard
  <2> QED BY <1>1, <2>1, <2>4 DEF CurrentInv, Got
<1>5. CASE Changes
  <2>1. board' = board /\ current' = FALSE /\ (conf' \in board.confs \/ conf' = conf)
    BY <1>5 DEF Changes
  <2> QED BY <1>1, <2>1 DEF CurrentInv
<1>6. CASE UNCHANGED vars
  BY <1>2, <1>6 DEF vars, router
<1>7. CASE Ask \/ Blur \/ Hide
  BY <1>2, <1>7 DEF Ask, Blur, Hide, router
<1>8. ASSUME NEW i \in Squares, Enter(i) \/ Focus(i) PROVE CurrentInv'
  BY <1>2, <1>8 DEF Enter, Focus, router
<1> QED BY <1>3, <1>4, <1>5, <1>6, <1>7, <1>8 DEF Next

\* Whatever the polls brought before and whoever changes what: a card drawn from the
\* router as it is shows, on each port, the networks whose frames leave through it, as
\* they leave, on every board and in every configuration that has its networks within
\* three layers of the ports and none of the three departures.
THEOREM TellsTheWire == NoneIsNoCard => (Spec => [](Regular(board, conf) => PanelTellsTheWire))
<1> SUFFICES ASSUME NoneIsNoCard PROVE Spec => [](Regular(board, conf) => PanelTellsTheWire)
  OBVIOUS
<1>1. Init => CurrentInv
  BY UserInit DEF Init, CurrentInv
<1>2. CurrentInv => (Regular(board, conf) => PanelTellsTheWire)
  <2> SUFFICES ASSUME CurrentInv, Regular(board, conf), current PROVE PanelTellsTheWire
    BY DEF PanelTellsTheWire
  <2>1. board \in Boards /\ conf \in board.confs /\ links \subseteq DOMAIN board.role
        /\ (IF card = None THEN <<>> ELSE card.squares) = Collect(board, conf, Got(All))
    BY DEF CurrentInv, UserInv
  <2>2. Whole(board, Got(All)) /\ Got(All).links = links
    BY <2>1 DEF Whole, Got, All, Results
  <2>3. Tells(board, conf, links, Collect(board, conf, Got(All)))
    BY <2>1, <2>2, CardTells
  <2> DEFINE ports == IF card = None THEN <<>> ELSE card.squares
  <2>4. Tells(board, conf, links, ports)
    BY <2>1, <2>3
  <2> HIDE DEF ports
  <2>5. /\ {ports[i].id : i \in DOMAIN ports} = DOMAIN board.role \ Behind(board)
        /\ \A i \in DOMAIN ports :
             /\ \A n \in DOMAIN conf.nets : Networks(ports, i, n) = Wire(board, conf, n, ports[i].id)
             /\ ports[i].state = "up" => ports[i].id \in links
             /\ UNION {{k \in DOMAIN ports : Wire(board, conf, n, ports[k].id) # {}} : n \in Wan \cap DOMAIN conf.nets} = {i}
                  => \A j \in DOMAIN ports : ports[j].uplink <=> j = i
    BY <2>4, Zenon DEF Tells
  <2> QED BY <2>5, Zenon DEF PanelTellsTheWire, ports
<1> QED BY <1>1, <1>2, CurrentStep, PTL DEF Spec
=============================================================================
