---------------------------- MODULE RoamingProofs ----------------------------
(***************************************************************************)
(* What is reported of a client happened, and what it announced is reported,  *)
(* for any clients, BSSes and bounds.  The daemon is behind: the invariant     *)
(* speaks of what it will know once it has read the log (Ahead), which is in    *)
(* step with the client and hostapd's list at every moment.                  *)
(***************************************************************************)
EXTENDS Roaming, FiniteSetTheorems, SequenceTheorems, WellFoundedInduction, TLAPS

-----------------------------------------------------------------------------
(***************************************************************************)
(* Induction over the naturals for sets, and what recursive functions on an  *)
(* initial segment are: they exist, and two with the same steps are equal.     *)
(***************************************************************************)
LEMMA NatMin ==
  ASSUME NEW T, T \subseteq Nat, T # {}
  PROVE  \E x \in T : \A y \in T : x <= y
<1> DEFINE R == {ss \in Nat \X Nat : ss[1] < ss[2]}
<1>1. IsWellFoundedOn(R, Nat)
  BY NatLessThanWellFounded DEF OpToRel
<1> HIDE DEF R
<1>2. PICK x \in T : \A y \in T : ~(<<y, x>> \in R)
  BY <1>1, WFMin
<1>3. ASSUME NEW y \in T PROVE x <= y
  <2>1. <<y, x>> \in Nat \X Nat /\ <<y, x>>[1] = y /\ <<y, x>>[2] = x
    OBVIOUS
  <2>2. ~(y < x)
    BY <1>2, <2>1 DEF R
  <2> QED BY <2>2
<1> QED BY <1>3

LEMMA SetInduction ==
  ASSUME NEW S, 0 \in S, \A n \in Nat : n \in S => n + 1 \in S
  PROVE  Nat \subseteq S
<1> SUFFICES ASSUME NEW m \in Nat, m \notin S PROVE FALSE
  OBVIOUS
<1> DEFINE T == {n \in Nat : n \notin S}
<1>1. PICK x \in T : \A y \in T : x <= y
  BY NatMin
<1>2. x # 0 /\ x \in Nat
  OBVIOUS
<1>3. x - 1 \in S /\ x - 1 \in Nat
  BY <1>1, <1>2
<1> QED BY <1>2, <1>3

LEMMA UpTo ==
  ASSUME NEW n \in Nat, NEW S, 0 \in S, \A i \in 1..n : i - 1 \in S => i \in S
  PROVE  0..n \subseteq S
<1> DEFINE T == {i \in Nat : i <= n => i \in S}
<1>1. 0 \in T
  OBVIOUS
<1>2. ASSUME NEW i \in Nat, i \in T PROVE i + 1 \in T
  <2>1. i + 1 <= n => (i + 1 \in 1..n /\ (i + 1) - 1 = i /\ i \in S)
    BY <1>2
  <2> QED BY <2>1
<1>3. Nat \subseteq T
  <2> HIDE DEF T
  <2> QED BY <1>1, <1>2, SetInduction
<1> QED BY <1>3

\* Two functions that take the same steps from the same value agree.
Alike(f, g, n) == f[0] = g[0] /\ \A i \in 1..n : f[i - 1] = g[i - 1] => f[i] = g[i]

LEMMA SameSteps ==
  ASSUME NEW n \in Nat, NEW f, NEW g, Alike(f, g, n)
  PROVE  \A i \in 0..n : f[i] = g[i]
<1> USE DEF Alike
<1> DEFINE S == {i \in 0..n : f[i] = g[i]}
<1>1. 0 \in S
  OBVIOUS
<1>2. ASSUME NEW i \in 1..n, i - 1 \in S PROVE i \in S
  BY <1>2
<1>3. 0..n \subseteq S
  <2> HIDE DEF S
  <2> QED BY <1>1, <1>2, UpTo
<1> QED BY <1>3

\* f starts at s and goes on by the steps of G.
StepsOf(n, S) == [S \X (1..n) -> S]
Follows(f, G, s, n, S) ==
  f \in [0..n -> S] /\ f[0] = s /\ \A i \in 1..n : f[i] = G[<<f[i - 1], i>>]

LEMMA StepsExist ==
  ASSUME NEW S, NEW s, NEW n, NEW G, s \in S, n \in Nat, G \in StepsOf(n, S)
  PROVE  \E f : Follows(f, G, s, n, S)
<1> DEFINE T == {k \in 0..n : \E f : Follows(f, G, s, k, S)}
<1>1. 0 \in T
  <2>1. Follows([i \in 0..0 |-> s], G, s, 0, S)
    BY DEF Follows
  <2> QED BY <2>1
<1>2. ASSUME NEW k \in 1..n, k - 1 \in T PROVE k \in T
  <2>1. PICK f : Follows(f, G, s, k - 1, S)
    BY <1>2
  <2> DEFINE g == [i \in 0..k |-> IF i = k THEN G[<<f[k - 1], k>>] ELSE f[i]]
  <2>2. k - 1 \in 0..(k - 1) /\ f[k - 1] \in S /\ <<f[k - 1], k>> \in S \X (1..n)
    BY <2>1 DEF Follows
  <2>3. g \in [0..k -> S]
    BY <2>1, <2>2 DEF Follows, StepsOf
  <2>4. g[0] = s
    BY <2>1 DEF Follows
  <2>5. ASSUME NEW i \in 1..k PROVE g[i] = G[<<g[i - 1], i>>]
    <3>1. CASE i = k
      <4>1. g[k] = G[<<f[k - 1], k>>] /\ g[k - 1] = f[k - 1]
        OBVIOUS
      <4> QED BY <3>1, <4>1
    <3>2. CASE i # k
      <4>1. i \in 1..(k - 1) /\ g[i] = f[i] /\ g[i - 1] = f[i - 1]
        BY <3>2
      <4> QED BY <4>1, <2>1 DEF Follows
    <3> QED BY <3>1, <3>2
  <2> HIDE DEF g
  <2>6. Follows(g, G, s, k, S)
    BY <2>3, <2>4, <2>5 DEF Follows
  <2> QED BY <2>6
<1>3. 0..n \subseteq T
  <2> HIDE DEF T
  <2> QED BY <1>1, <1>2, UpTo
<1> QED BY <1>3

-----------------------------------------------------------------------------
(***************************************************************************)
(* The states, and what the invariant says of them.                         *)
(***************************************************************************)
Places == Bss \cup {None}
Lines == [ev : {"assoc", "sta-authorized", "disassoc", "fdb"}, mac : Clients, bss : Places]
States == [here : [Clients -> [bss : Places, fresh : BOOLEAN]], roamed : SUBSET Clients,
           joined : [Clients -> Nat], departed : [Clients -> Nat]]

TypeInv ==
  /\ at \in [Clients -> Places]
  /\ station \in [Clients -> [Bss -> {"no", "assoc", "ready"}]]
  /\ moving \subseteq Clients
  /\ kept \in Seq(Lines) /\ log \in Seq(Lines)
  /\ pc \in {"wait", "built"} /\ Known \in States
  /\ obs \in [Clients -> [bss : Places, heard : BOOLEAN]]
  /\ came \in [Clients -> Nat] /\ went \in [Clients -> Nat] /\ told \in [Clients -> Nat]
  /\ amiss \in BOOLEAN

\* What the daemon goes on from, and what it will know when it has read the log.
Base == IF pc = "wait" THEN Known ELSE Compared
Ahead == Ingested(Base, log)

\* A client at a, listed as l by hostapd, is in step with what is known of it (h,
\* r: is marked as away) and the numbers reported.
Fits(a, l, m, h, r, j, d, cm, w, tl) ==
  /\ tl <= d /\ d <= w /\ j <= cm
  /\ \A x, y \in Bss : (l[x] # "no" /\ l[y] # "no") => x = y
  /\ a # None => /\ l[a] # "no" /\ h.bss = a /\ (h.fresh <=> l[a] = "assoc") /\ ~r
                 /\ m => l[a] = "assoc"
  /\ (a = None /\ h.bss # None) => (l[h.bss] # "no" /\ (~h.fresh => d < w))
  /\ (a = None /\ h.bss = None) => (~h.fresh /\ ((\E x \in Bss : l[x] # "no") => r))

InStep(c, s) == Fits(at[c], station[c], c \in moving, s.here[c], c \in s.roamed,
                     s.joined[c], s.departed[c], came[c], went[c], told[c])

Apart(s) == \A c \in s.roamed : s.here[c].bss = None

RoamInv ==
  /\ TypeInv /\ Apart(Known)
  /\ ~amiss => \A c \in Clients : InStep(c, Ahead)

-----------------------------------------------------------------------------
(***************************************************************************)
(* One event.                                                               *)
(***************************************************************************)
Entries == [bss : Places, fresh : BOOLEAN]
St(h, r, j, d) == [here |-> h, roamed |-> r, joined |-> j, departed |-> d]

\* What an event makes of a client's entry h and of the marks r, and what it reports.
Leaves(h, e) == \/ e.ev = "disassoc" /\ h.bss = e.bss
                \/ e.ev = "fdb" /\ h.bss # None /\ ~h.fresh
Arrives(h, e) == e.ev = "sta-authorized" /\ h = [bss |-> e.bss, fresh |-> TRUE]
HereAfter(h, e) ==
  IF e.ev = "assoc" THEN [bss |-> e.bss, fresh |-> TRUE]
  ELSE IF Arrives(h, e) THEN [h EXCEPT !.fresh = FALSE]
  ELSE IF Leaves(h, e) THEN Unknown ELSE h
RoamedAfter(h, r, e) ==
  IF e.ev \in {"assoc", "disassoc"} THEN r \ {e.mac}
  ELSE IF Leaves(h, e) THEN r \cup {e.mac} ELSE r
JoinedAfter(h, j, e) == IF Arrives(h, e) THEN More(j, e.mac) ELSE j
DepartedAfter(h, d, e) == IF Leaves(h, e) /\ ~h.fresh THEN More(d, e.mac) ELSE d

LEMMA IsState ==
  /\ \A s \in States : /\ s = St(s.here, s.roamed, s.joined, s.departed)
                       /\ s.here \in [Clients -> Entries] /\ s.roamed \in SUBSET Clients
                       /\ s.joined \in [Clients -> Nat] /\ s.departed \in [Clients -> Nat]
  /\ \A h \in [Clients -> Entries], r \in SUBSET Clients,
        j \in [Clients -> Nat], d \in [Clients -> Nat] : St(h, r, j, d) \in States
BY DEF States, St, Entries

LEMMA IngestIs ==
  ASSUME NEW H \in [Clients -> Entries], NEW R \in SUBSET Clients,
         NEW J \in [Clients -> Nat], NEW D \in [Clients -> Nat], NEW e \in Lines
  PROVE  LET h == H[e.mac] IN
         Ingest(St(H, R, J, D), e) =
           St([H EXCEPT ![e.mac] = HereAfter(h, e)], RoamedAfter(h, R, e),
              JoinedAfter(h, J, e), DepartedAfter(h, D, e))
<1> DEFINE h == H[e.mac]
           s == St(H, R, J, D)
           Put(k) == [H EXCEPT ![e.mac] = k]
<1>1. e.mac \in Clients /\ e.ev \in {"assoc", "sta-authorized", "disassoc", "fdb"}
  BY DEF Lines
<1>2. h \in [bss : Places, fresh : BOOLEAN] /\ Put(h) = H
  BY <1>1 DEF Entries
<1>3. s.here = H /\ s.roamed = R /\ s.joined = J /\ s.departed = D
  BY DEF St
<1>4. CASE e.ev = "assoc"
  <2>1. Ingest(s, e) = St(Put([bss |-> e.bss, fresh |-> TRUE]), R \ {e.mac}, J, D)
    BY <1>4 DEF Ingest, OnAssoc, St
  <2>2. ~Leaves(h, e) /\ ~Arrives(h, e)
    BY <1>4 DEF Leaves, Arrives
  <2> QED BY <2>1, <2>2, <1>4 DEF HereAfter, RoamedAfter, JoinedAfter, DepartedAfter
<1>5. CASE e.ev = "sta-authorized"
  <2>1. Ingest(s, e) = OnAuthorized(s, e)
    BY <1>5 DEF Ingest
  <2>2. ~Leaves(h, e)
    BY <1>5 DEF Leaves
  <2>3. CASE Arrives(h, e)
    <3>2. OnAuthorized(s, e) = [s EXCEPT !.here[e.mac].fresh = FALSE, !.joined = More(@, e.mac)]
      BY <2>3, <1>3 DEF Arrives, OnAuthorized
    <3>3. OnAuthorized(s, e) = St(Put([h EXCEPT !.fresh = FALSE]), R, More(J, e.mac), D)
      BY <3>2 DEF St
    <3> QED BY <2>1, <2>2, <2>3, <3>3, <1>5
            DEF HereAfter, RoamedAfter, JoinedAfter, DepartedAfter
  <2>4. CASE ~Arrives(h, e)
    <3>1. OnAuthorized(s, e) = s
      BY <2>4, <1>3, <1>5 DEF Arrives, OnAuthorized
    <3> QED BY <2>1, <2>2, <2>4, <3>1, <1>2, <1>5
            DEF HereAfter, RoamedAfter, JoinedAfter, DepartedAfter
  <2> QED BY <2>3, <2>4
<1>6. CASE e.ev = "disassoc"
  <2> DEFINE t == [s EXCEPT !.roamed = @ \ {e.mac}]
  <2>1. Ingest(s, e) = OnDisassoc(s, e)
    BY <1>6 DEF Ingest
  <2>2. ~Arrives(h, e) /\ (Leaves(h, e) <=> h.bss = e.bss)
    BY <1>6 DEF Leaves, Arrives
  <2>3. t = St(H, R \ {e.mac}, J, D)
    <3>1. \A X, Y : [[here |-> H, roamed |-> X, joined |-> J, departed |-> D] EXCEPT !.roamed = Y]
                    = [here |-> H, roamed |-> Y, joined |-> J, departed |-> D]
      OBVIOUS
    <3> QED BY <1>3, <3>1 DEF St
  <2>4. CASE h.bss # e.bss
    <3>1. OnDisassoc(s, e) = t
      BY <2>4, <1>3 DEF OnDisassoc
    <3>2. OnDisassoc(s, e) = St(Put(h), R \ {e.mac}, J, D)
      BY <3>1, <2>3, <1>2
    <3> QED BY <2>1, <2>2, <2>4, <3>2, <1>6
            DEF HereAfter, RoamedAfter, JoinedAfter, DepartedAfter
  <2>5. CASE h.bss = e.bss /\ h.fresh
    <3>1. OnDisassoc(s, e) = [t EXCEPT !.here[e.mac] = Unknown]
      BY <2>5, <1>3 DEF OnDisassoc
    <3>2. OnDisassoc(s, e) = St(Put(Unknown), R \ {e.mac}, J, D)
      BY <3>1, <2>3 DEF St
    <3> QED BY <2>1, <2>2, <2>5, <3>2, <1>6
            DEF HereAfter, RoamedAfter, JoinedAfter, DepartedAfter
  <2>6. CASE h.bss = e.bss /\ ~h.fresh
    <3>1. OnDisassoc(s, e) =
            [t EXCEPT !.here[e.mac] = Unknown, !.departed = More(@, e.mac)]
      BY <2>6, <1>3 DEF OnDisassoc
    <3>2. OnDisassoc(s, e) = St(Put(Unknown), R \ {e.mac}, J, More(D, e.mac))
      BY <3>1, <2>3 DEF St
    <3> QED BY <2>1, <2>2, <2>6, <3>2, <1>6
            DEF HereAfter, RoamedAfter, JoinedAfter, DepartedAfter
  <2> QED BY <2>4, <2>5, <2>6, <1>2
<1>7. CASE e.ev = "fdb"
  <2>1. Ingest(s, e) = OnUplink(s, e)
    BY <1>7 DEF Ingest
  <2>2. ~Arrives(h, e)
    BY <1>7 DEF Arrives
  <2>3. CASE Leaves(h, e)
    <3>1. h.bss # None /\ ~h.fresh
      BY <2>3, <1>7 DEF Leaves
    <3>2. OnUplink(s, e) = St(Put(Unknown), R \cup {e.mac}, J, More(D, e.mac))
      BY <3>1, <1>3 DEF OnUplink, St
    <3> QED BY <2>1, <2>2, <2>3, <3>1, <3>2, <1>7
            DEF HereAfter, RoamedAfter, JoinedAfter, DepartedAfter
  <2>4. CASE ~Leaves(h, e)
    <3>1. OnUplink(s, e) = s
      BY <2>4, <1>3, <1>7 DEF Leaves, OnUplink
    <3> QED BY <2>1, <2>2, <2>4, <3>1, <1>2, <1>7
            DEF HereAfter, RoamedAfter, JoinedAfter, DepartedAfter
  <2> QED BY <2>3, <2>4
<1> QED BY <1>1, <1>4, <1>5, <1>6, <1>7

LEMMA IngestType ==
  ASSUME NEW s \in States, NEW e \in Lines
  PROVE  Ingest(s, e) \in States
<1> DEFINE h == s.here[e.mac]
           new == HereAfter(h, e)
<1>1. e.mac \in Clients /\ e.bss \in Places
  BY DEF Lines
<1>2. /\ s.here \in [Clients -> Entries] /\ s.roamed \in SUBSET Clients
      /\ s.joined \in [Clients -> Nat] /\ s.departed \in [Clients -> Nat]
      /\ s = St(s.here, s.roamed, s.joined, s.departed)
  BY IsState
<1>3. h \in Entries
  BY <1>1, <1>2
<1>4. new \in Entries
  BY <1>1, <1>3 DEF HereAfter, Entries, Unknown, Places
<1>5. JoinedAfter(h, s.joined, e) \in [Clients -> Nat]
      /\ DepartedAfter(h, s.departed, e) \in [Clients -> Nat]
  BY <1>1, <1>2 DEF JoinedAfter, DepartedAfter, More
<1>6. RoamedAfter(h, s.roamed, e) \in SUBSET Clients
  BY <1>1, <1>2 DEF RoamedAfter
<1>7. [s.here EXCEPT ![e.mac] = new] \in [Clients -> Entries]
  BY <1>1, <1>2, <1>4
<1>8. Ingest(St(s.here, s.roamed, s.joined, s.departed), e)
        = St([s.here EXCEPT ![e.mac] = new], RoamedAfter(h, s.roamed, e),
             JoinedAfter(h, s.joined, e), DepartedAfter(h, s.departed, e))
  <2>1. /\ s.here \in [Clients -> Entries] /\ s.roamed \in SUBSET Clients
        /\ s.joined \in [Clients -> Nat] /\ s.departed \in [Clients -> Nat]
    BY <1>2
  <2> QED BY <2>1, IngestIs
<1>9. Ingest(St(s.here, s.roamed, s.joined, s.departed), e) \in States
  BY <1>5, <1>6, <1>7, <1>8, IsState
<1> QED BY <1>2, <1>9

\* All that is new in the log, in its order.
Folded(f, s, lines) ==
  /\ f \in [0..Len(lines) -> States] /\ f[0] = s
  /\ \A i \in 1..Len(lines) : f[i] = Ingest(f[i - 1], lines[i])
  /\ Ingested(s, lines) = f[Len(lines)]

LEMMA IngestedIs ==
  ASSUME NEW s \in States, NEW lines \in Seq(Lines)
  PROVE  \E f : Folded(f, s, lines)
<1> DEFINE n == Len(lines)
           G == [p \in States \X (1..n) |-> Ingest(p[1], lines[p[2]])]
<1>1. n \in Nat /\ lines \in [1..n -> Lines]
  BY LenProperties
<1>2. \A i \in 1..n : lines[i] \in Lines
  BY <1>1
<1>3. G \in StepsOf(n, States)
  BY <1>1, <1>2, IngestType DEF StepsOf
<1>4. \A x \in States, i \in 1..n : G[<<x, i>>] = Ingest(x, lines[i])
  OBVIOUS
<1> HIDE DEF G, n
<1>5. PICK f : Follows(f, G, s, n, States)
  BY <1>1, <1>3, StepsExist
<1>6. f \in [0..n -> States] /\ f[0] = s
      /\ \A i \in 1..n : f[i] = Ingest(f[i - 1], lines[i])
  BY <1>1, <1>4, <1>5 DEF Follows
<1> DEFINE R(h) == [i \in 0..n |-> IF i = 0 THEN s ELSE Ingest(h[i - 1], lines[i])]
           g == CHOOSE h : h = R(h)
<1>7. f = R(f)
  BY <1>1, <1>6
<1>8. g = R(g)
  <2> HIDE DEF R
  <2> QED BY <1>7
<1> HIDE DEF g
<1>9. g[0] = s /\ \A i \in 1..n : g[i] = Ingest(g[i - 1], lines[i])
  BY <1>1, <1>8
<1>10. Ingested(s, lines) = g[n]
  BY DEF Ingested, n, g
<1>11. Alike(f, g, n)
  BY <1>6, <1>9 DEF Alike
<1>12. \A i \in 0..n : f[i] = g[i]
  BY <1>1, <1>11, SameSteps
<1>13. Folded(f, s, lines)
  BY <1>1, <1>6, <1>10, <1>12 DEF n, Folded
<1> QED BY <1>13

LEMMA EntryIs ==
  ASSUME NEW h \in Entries, NEW b
  PROVE  /\ h = [bss |-> b, fresh |-> TRUE] <=> (h.bss = b /\ h.fresh)
         /\ [h EXCEPT !.fresh = FALSE].bss = h.bss /\ ~[h EXCEPT !.fresh = FALSE].fresh
         /\ Unknown.bss = None /\ ~Unknown.fresh
         /\ [bss |-> b, fresh |-> TRUE].bss = b /\ [bss |-> b, fresh |-> TRUE].fresh
<1> USE DEF Entries
<1>1. ASSUME h = [bss |-> b, fresh |-> TRUE] PROVE h.bss = b /\ h.fresh
  BY <1>1
<1>2. ASSUME h.bss = b, h.fresh PROVE h = [bss |-> b, fresh |-> TRUE]
  <2>1. h = [bss |-> h.bss, fresh |-> h.fresh] /\ h.fresh = TRUE
    BY <1>2
  <2> QED BY <2>1, <1>2
<1>3. [h EXCEPT !.fresh = FALSE].bss = h.bss /\ ~[h EXCEPT !.fresh = FALSE].fresh
  OBVIOUS
<1> QED BY <1>1, <1>2, <1>3 DEF Unknown

\* An event is about one client, and reports are never taken back.
LEMMA IngestParts ==
  ASSUME NEW s \in States, NEW e \in Lines
  PROVE  /\ \A c \in Clients \ {e.mac} :
              /\ Ingest(s, e).here[c] = s.here[c]
              /\ c \in Ingest(s, e).roamed <=> c \in s.roamed
              /\ Ingest(s, e).joined[c] = s.joined[c]
              /\ Ingest(s, e).departed[c] = s.departed[c]
         /\ LET h == s.here[e.mac] IN
              /\ Ingest(s, e).here[e.mac] = HereAfter(h, e)
              /\ Ingest(s, e).roamed = RoamedAfter(h, s.roamed, e)
              /\ Ingest(s, e).joined[e.mac] = s.joined[e.mac] + (IF Arrives(h, e) THEN 1 ELSE 0)
              /\ Ingest(s, e).departed[e.mac] =
                   s.departed[e.mac] + (IF Leaves(h, e) /\ ~h.fresh THEN 1 ELSE 0)
<1> DEFINE h == s.here[e.mac]
           new == HereAfter(h, e)
           t == St([s.here EXCEPT ![e.mac] = new], RoamedAfter(h, s.roamed, e),
                   JoinedAfter(h, s.joined, e), DepartedAfter(h, s.departed, e))
<1>1. e.mac \in Clients
  BY DEF Lines
<1>2. /\ s.here \in [Clients -> Entries] /\ s.roamed \in SUBSET Clients
      /\ s.joined \in [Clients -> Nat] /\ s.departed \in [Clients -> Nat]
  BY IsState
<1>3. s = St(s.here, s.roamed, s.joined, s.departed)
  BY IsState
<1>4. Ingest(St(s.here, s.roamed, s.joined, s.departed), e) = t
  BY <1>2, IngestIs
<1>5. Ingest(s, e) = t
  BY <1>3, <1>4
<1>6. /\ t.here = [s.here EXCEPT ![e.mac] = new] /\ t.roamed = RoamedAfter(h, s.roamed, e)
      /\ t.joined = JoinedAfter(h, s.joined, e) /\ t.departed = DepartedAfter(h, s.departed, e)
  BY DEF St
<1> HIDE DEF t, new
<1>7. /\ t.here[e.mac] = new /\ \A c \in Clients \ {e.mac} : t.here[c] = s.here[c]
  BY <1>1, <1>2, <1>6
<1>8. \A c \in Clients \ {e.mac} : c \in t.roamed <=> c \in s.roamed
  BY <1>6 DEF RoamedAfter
<1>9. /\ t.joined[e.mac] = s.joined[e.mac] + (IF Arrives(h, e) THEN 1 ELSE 0)
      /\ \A c \in Clients \ {e.mac} : t.joined[c] = s.joined[c]
  BY <1>1, <1>2, <1>6 DEF JoinedAfter, More
<1>10. /\ t.departed[e.mac] = s.departed[e.mac] + (IF Leaves(h, e) /\ ~h.fresh THEN 1 ELSE 0)
       /\ \A c \in Clients \ {e.mac} : t.departed[c] = s.departed[c]
  BY <1>1, <1>2, <1>6 DEF DepartedAfter, More
<1> QED BY <1>5, <1>6, <1>7, <1>8, <1>9, <1>10 DEF new

\* The client the event is about, event by event.
LEMMA IngestOwn ==
  ASSUME NEW s \in States, NEW e \in Lines, NEW c, e.mac = c, NEW t, t = Ingest(s, e),
         NEW h, h = s.here[c]
  PROVE  /\ t \in States /\ c \in Clients /\ h \in Entries
         /\ t.here[c] = HereAfter(h, e) /\ t.roamed = RoamedAfter(h, s.roamed, e)
         /\ t.joined[c] = s.joined[c] + (IF Arrives(h, e) THEN 1 ELSE 0)
         /\ t.departed[c] = s.departed[c] + (IF Leaves(h, e) /\ ~h.fresh THEN 1 ELSE 0)
         /\ s.joined[c] \in Nat /\ s.departed[c] \in Nat
<1>1. LET k == s.here[e.mac] IN
      /\ t.here[e.mac] = HereAfter(k, e) /\ t.roamed = RoamedAfter(k, s.roamed, e)
      /\ t.joined[e.mac] = s.joined[e.mac] + (IF Arrives(k, e) THEN 1 ELSE 0)
      /\ t.departed[e.mac] = s.departed[e.mac] + (IF Leaves(k, e) /\ ~k.fresh THEN 1 ELSE 0)
  BY IngestParts
<1>2. e.mac \in Clients /\ s.here \in [Clients -> Entries]
      /\ s.joined \in [Clients -> Nat] /\ s.departed \in [Clients -> Nat]
  BY IsState DEF Lines
<1> QED BY <1>1, <1>2, IngestType

LEMMA OwnAssoc ==
  ASSUME NEW s \in States, NEW e \in Lines, NEW c, e.mac = c, NEW t, t = Ingest(s, e),
         e.ev = "assoc"
  PROVE  /\ t.here[c].bss = e.bss /\ t.here[c].fresh /\ c \notin t.roamed
         /\ t.joined[c] = s.joined[c] /\ t.departed[c] = s.departed[c]
<1> DEFINE h == s.here[c]
<1>1. ~Arrives(h, e) /\ ~Leaves(h, e)
  BY DEF Arrives, Leaves
<1> HIDE DEF h
<1>2. /\ h \in Entries /\ t.here[c] = HereAfter(h, e) /\ t.roamed = RoamedAfter(h, s.roamed, e)
      /\ t.joined[c] = s.joined[c] + (IF Arrives(h, e) THEN 1 ELSE 0)
      /\ t.departed[c] = s.departed[c] + (IF Leaves(h, e) /\ ~h.fresh THEN 1 ELSE 0)
      /\ s.joined[c] \in Nat /\ s.departed[c] \in Nat
  BY IngestOwn DEF h
<1>3. t.here[c] = [bss |-> e.bss, fresh |-> TRUE] /\ c \notin t.roamed
  BY <1>2 DEF HereAfter, RoamedAfter
<1>4. t.here[c].bss = e.bss /\ t.here[c].fresh
  BY <1>3
<1> QED BY <1>1, <1>2, <1>3, <1>4

LEMMA OwnAuthorized ==
  ASSUME NEW s \in States, NEW e \in Lines, NEW c, e.mac = c, NEW t, t = Ingest(s, e),
         e.ev = "sta-authorized"
  PROVE  /\ c \in t.roamed <=> c \in s.roamed
         /\ t.departed[c] = s.departed[c] /\ t.here[c].bss = s.here[c].bss
         /\ (s.here[c].bss = e.bss /\ s.here[c].fresh) =>
              ~t.here[c].fresh /\ t.joined[c] = s.joined[c] + 1
         /\ ~(s.here[c].bss = e.bss /\ s.here[c].fresh) =>
              (t.here[c].fresh <=> s.here[c].fresh) /\ t.joined[c] = s.joined[c]
<1>1. PICK h : h = s.here[c]
  OBVIOUS
<1>2. /\ h \in Entries /\ t.here[c] = HereAfter(h, e) /\ t.roamed = RoamedAfter(h, s.roamed, e)
      /\ t.joined[c] = s.joined[c] + (IF Arrives(h, e) THEN 1 ELSE 0)
      /\ t.departed[c] = s.departed[c] + (IF Leaves(h, e) /\ ~h.fresh THEN 1 ELSE 0)
      /\ s.joined[c] \in Nat /\ s.departed[c] \in Nat
  BY <1>1, IngestOwn
<1>3. ~Leaves(h, e)
  BY DEF Leaves
<1>4. Arrives(h, e) <=> (h.bss = e.bss /\ h.fresh)
  BY <1>2, EntryIs DEF Arrives
<1>5. [h EXCEPT !.fresh = FALSE].bss = h.bss /\ ~[h EXCEPT !.fresh = FALSE].fresh
  BY <1>2, EntryIs
<1>6. t.here[c] = IF Arrives(h, e) THEN [h EXCEPT !.fresh = FALSE] ELSE h
  BY <1>2, <1>3 DEF HereAfter
<1>7. t.roamed = s.roamed
  BY <1>2, <1>3 DEF RoamedAfter
<1> QED BY <1>1, <1>2, <1>3, <1>4, <1>5, <1>6, <1>7

LEMMA OwnDisassoc ==
  ASSUME NEW s \in States, NEW e \in Lines, NEW c, e.mac = c, NEW t, t = Ingest(s, e),
         e.ev = "disassoc"
  PROVE  /\ c \notin t.roamed /\ t.joined[c] = s.joined[c]
         /\ s.here[c].bss = e.bss =>
              /\ t.here[c].bss = None /\ ~t.here[c].fresh
              /\ t.departed[c] = s.departed[c] + (IF s.here[c].fresh THEN 0 ELSE 1)
         /\ s.here[c].bss # e.bss =>
              t.here[c] = s.here[c] /\ t.departed[c] = s.departed[c]
<1>1. PICK h : h = s.here[c]
  OBVIOUS
<1>2. /\ h \in Entries /\ t.here[c] = HereAfter(h, e) /\ t.roamed = RoamedAfter(h, s.roamed, e)
      /\ t.joined[c] = s.joined[c] + (IF Arrives(h, e) THEN 1 ELSE 0)
      /\ t.departed[c] = s.departed[c] + (IF Leaves(h, e) /\ ~h.fresh THEN 1 ELSE 0)
      /\ s.joined[c] \in Nat /\ s.departed[c] \in Nat
  BY <1>1, IngestOwn
<1>3. ~Arrives(h, e) /\ (Leaves(h, e) <=> h.bss = e.bss)
  BY DEF Leaves, Arrives
<1>4. t.here[c] = IF Leaves(h, e) THEN Unknown ELSE h
  BY <1>2, <1>3 DEF HereAfter
<1>5. c \notin t.roamed
  BY <1>2 DEF RoamedAfter
<1> QED BY <1>1, <1>2, <1>3, <1>4, <1>5, EntryIs

LEMMA OwnUplink ==
  ASSUME NEW s \in States, NEW e \in Lines, NEW c, e.mac = c, NEW t, t = Ingest(s, e),
         e.ev = "fdb"
  PROVE  /\ t.joined[c] = s.joined[c]
         /\ (s.here[c].bss # None /\ ~s.here[c].fresh) =>
              /\ t.here[c].bss = None /\ ~t.here[c].fresh /\ c \in t.roamed
              /\ t.departed[c] = s.departed[c] + 1
         /\ ~(s.here[c].bss # None /\ ~s.here[c].fresh) =>
              /\ t.here[c] = s.here[c] /\ t.departed[c] = s.departed[c]
              /\ c \in t.roamed <=> c \in s.roamed
<1>1. PICK h : h = s.here[c]
  OBVIOUS
<1>2. /\ h \in Entries /\ t.here[c] = HereAfter(h, e) /\ t.roamed = RoamedAfter(h, s.roamed, e)
      /\ t.joined[c] = s.joined[c] + (IF Arrives(h, e) THEN 1 ELSE 0)
      /\ t.departed[c] = s.departed[c] + (IF Leaves(h, e) /\ ~h.fresh THEN 1 ELSE 0)
      /\ s.joined[c] \in Nat /\ s.departed[c] \in Nat
  BY <1>1, IngestOwn
<1>3. ~Arrives(h, e) /\ (Leaves(h, e) <=> (h.bss # None /\ ~h.fresh))
  BY DEF Leaves, Arrives
<1>4. t.here[c] = IF Leaves(h, e) THEN Unknown ELSE h
  BY <1>2, <1>3 DEF HereAfter
<1>5. t.roamed = IF Leaves(h, e) THEN s.roamed \cup {c} ELSE s.roamed
  BY <1>2 DEF RoamedAfter
<1> QED BY <1>1, <1>2, <1>3, <1>4, <1>5, EntryIs

LEMMA IngestApart ==
  ASSUME NEW s \in States, NEW e \in Lines, Apart(s)
  PROVE  Apart(Ingest(s, e))
<1> DEFINE t == Ingest(s, e)
           h == s.here[e.mac]
<1>1. e.mac \in Clients /\ t \in States
  BY IngestType DEF Lines
<1>2. t.roamed \in SUBSET Clients
  BY <1>1, IsState
<1>3. /\ \A c \in Clients \ {e.mac} : t.here[c] = s.here[c] /\ (c \in t.roamed <=> c \in s.roamed)
      /\ t.here[e.mac] = HereAfter(h, e) /\ t.roamed = RoamedAfter(h, s.roamed, e)
  BY IngestParts
<1>4. e.mac \in s.roamed => h.bss = None
  BY DEF Apart
<1> HIDE DEF t, h
<1>5. e.mac \in t.roamed => t.here[e.mac].bss = None
  <2>1. CASE e.ev \in {"assoc", "disassoc"}
    BY <2>1, <1>3 DEF RoamedAfter
  <2>2. CASE e.ev \notin {"assoc", "disassoc"} /\ Leaves(h, e)
    <3>1. ~Arrives(h, e)
      BY <2>2 DEF Leaves, Arrives
    <3> QED BY <2>2, <3>1, <1>3 DEF HereAfter, Unknown
  <2>3. CASE e.ev \notin {"assoc", "disassoc"} /\ ~Leaves(h, e)
    <3>1. SUFFICES ASSUME e.mac \in s.roamed PROVE t.here[e.mac].bss = None
      BY <2>3, <1>3 DEF RoamedAfter
    <3>2. h.bss = None
      BY <3>1, <1>4
    <3>3. \A z : [h EXCEPT !.fresh = z].bss = h.bss \/ h \notin Entries
      BY DEF Entries
    <3>4. h \in Entries
      BY <1>1, IsState DEF h
    <3> QED BY <2>3, <3>2, <3>3, <3>4, <1>3 DEF HereAfter
  <2> QED BY <2>1, <2>2, <2>3
<1>6. ASSUME NEW c \in t.roamed PROVE t.here[c].bss = None
  BY <1>2, <1>3, <1>5 DEF Apart
<1> QED BY <1>6 DEF Apart, t

LEMMA IngestedNone ==
  ASSUME NEW s \in States
  PROVE  Ingested(s, <<>>) = s
<1>1. <<>> \in Seq(Lines) /\ Len(<<>>) = 0
  OBVIOUS
<1>2. PICK f : Folded(f, s, <<>>)
  BY <1>1, IngestedIs
<1> QED BY <1>1, <1>2 DEF Folded

LEMMA IngestedMore ==
  ASSUME NEW s \in States, NEW lines \in Seq(Lines), NEW e \in Lines
  PROVE  Ingested(s, Append(lines, e)) = Ingest(Ingested(s, lines), e)
<1> DEFINE n == Len(lines)
           more == Append(lines, e)
<1>1. /\ n \in Nat /\ more \in Seq(Lines) /\ Len(more) = n + 1 /\ more[n + 1] = e
      /\ \A i \in 1..n : more[i] = lines[i]
  BY AppendProperties
<1>2. PICK f : Folded(f, s, lines)
  BY IngestedIs
<1>3. PICK g : Folded(g, s, more)
  BY <1>1, IngestedIs
<1> HIDE DEF n, more
<1>4. /\ f[0] = s /\ \A i \in 1..n : f[i] = Ingest(f[i - 1], lines[i])
      /\ Ingested(s, lines) = f[n]
  BY <1>2 DEF Folded, n
<1>5. /\ g[0] = s /\ \A i \in 1..(n + 1) : g[i] = Ingest(g[i - 1], more[i])
      /\ Ingested(s, more) = g[n + 1]
  BY <1>1, <1>3 DEF Folded
<1>6. Alike(f, g, n)
  BY <1>1, <1>4, <1>5 DEF Alike
<1>7. f[n] = g[n]
  BY <1>1, <1>6, SameSteps
<1>8. g[n + 1] = Ingest(g[n], e)
  BY <1>1, <1>5
<1> QED BY <1>4, <1>5, <1>7, <1>8 DEF more

\* What holds of s and survives every event holds when all lines are read.
LEMMA IngestedType ==
  ASSUME NEW s \in States, NEW lines \in Seq(Lines)
  PROVE  /\ Ingested(s, lines) \in States
         /\ Apart(s) => Apart(Ingested(s, lines))
         /\ \A c \in Clients :
              /\ s.joined[c] <= Ingested(s, lines).joined[c]
              /\ s.departed[c] <= Ingested(s, lines).departed[c]
              /\ (\A i \in 1..Len(lines) : lines[i].mac # c) =>
                   Ingested(s, lines).departed[c] = s.departed[c]
<1> DEFINE n == Len(lines)
           Kept(t) == /\ Apart(s) => Apart(t)
                      /\ \A c \in Clients :
                           /\ s.joined[c] <= t.joined[c] /\ s.departed[c] <= t.departed[c]
                           /\ (\A i \in 1..n : lines[i].mac # c) => t.departed[c] = s.departed[c]
<1>1. n \in Nat /\ \A i \in 1..n : lines[i] \in Lines
  BY LenProperties
<1>2. PICK f : Folded(f, s, lines)
  BY IngestedIs
<1>3. /\ f \in [0..n -> States] /\ f[0] = s
      /\ \A i \in 1..n : f[i] = Ingest(f[i - 1], lines[i])
      /\ Ingested(s, lines) = f[n]
  BY <1>2 DEF Folded
<1> HIDE DEF n
<1>4. \A t \in States, c \in Clients : t.joined[c] \in Nat /\ t.departed[c] \in Nat
  BY IsState
<1> DEFINE I == {i \in 0..n : Kept(f[i])}
<1>5. 0 \in I
  BY <1>1, <1>3, <1>4
<1>6. ASSUME NEW i \in 1..n, i - 1 \in I PROVE i \in I
  <2>1. lines[i] \in Lines /\ f[i - 1] \in States /\ f[i] = Ingest(f[i - 1], lines[i])
    BY <1>1, <1>3
  <2>2. Kept(f[i - 1])
    BY <1>6
  <2> DEFINE t == f[i - 1]
             e == lines[i]
  <2> HIDE DEF t, e
  <2>3. t \in States /\ e \in Lines /\ f[i] = Ingest(t, e) /\ e.mac \in Clients
        /\ f[i] \in States
    BY <2>1, <1>3 DEF t, e, Lines
  <2>4. Apart(t) => Apart(f[i])
    BY <2>3, IngestApart
  <2>5. ASSUME NEW c \in Clients
        PROVE  /\ t.joined[c] <= f[i].joined[c] /\ t.departed[c] <= f[i].departed[c]
               /\ e.mac # c => f[i].departed[c] = t.departed[c]
    <3>1. t.joined[c] \in Nat /\ t.departed[c] \in Nat
      BY <2>3, <1>4
    <3>2. CASE c = e.mac
      BY <2>3, <3>1, <3>2, IngestParts
    <3>3. CASE c # e.mac
      BY <2>3, <3>1, <3>3, IngestParts
    <3> QED BY <3>2, <3>3
  <2>6. Kept(f[i])
    <3>1. ASSUME NEW c \in Clients
          PROVE  /\ s.joined[c] <= f[i].joined[c] /\ s.departed[c] <= f[i].departed[c]
                 /\ (\A k \in 1..n : lines[k].mac # c) => f[i].departed[c] = s.departed[c]
      <4>1. /\ t.joined[c] \in Nat /\ t.departed[c] \in Nat /\ s.joined[c] \in Nat
            /\ s.departed[c] \in Nat /\ f[i].joined[c] \in Nat /\ f[i].departed[c] \in Nat
        BY <2>3, <1>4
      <4>2. /\ s.joined[c] <= t.joined[c] /\ s.departed[c] <= t.departed[c]
            /\ (\A k \in 1..n : lines[k].mac # c) => t.departed[c] = s.departed[c]
        BY <2>2 DEF t
      <4>3. (\A k \in 1..n : lines[k].mac # c) => e.mac # c
        BY DEF e
      <4>4. /\ t.joined[c] <= f[i].joined[c] /\ t.departed[c] <= f[i].departed[c]
            /\ e.mac # c => f[i].departed[c] = t.departed[c]
        BY <2>5
      <4>5. s.joined[c] <= f[i].joined[c] /\ s.departed[c] <= f[i].departed[c]
        BY <4>1, <4>2, <4>4
      <4>6. ASSUME \A k \in 1..n : lines[k].mac # c PROVE f[i].departed[c] = s.departed[c]
        BY <4>2, <4>3, <4>4, <4>6
      <4> QED BY <4>5, <4>6
    <3> QED BY <3>1, <2>2, <2>4 DEF t
  <2> HIDE DEF Kept
  <2> QED BY <2>6
<1>7. 0..n \subseteq I
  <2> HIDE DEF I
  <2> QED BY <1>1, <1>5, <1>6, UpTo
<1>8. Kept(f[n])
  <2> HIDE DEF Kept
  <2> QED BY <1>1, <1>7
<1> QED BY <1>1, <1>3, <1>8 DEF n

-----------------------------------------------------------------------------
(***************************************************************************)
(* The log.                                                                 *)
(***************************************************************************)
Picked(f, lines, I) ==
  /\ f \in [0..Len(lines) -> Seq(Lines)] /\ f[0] = <<>>
  /\ \A i \in 1..Len(lines) :
       f[i] = IF i \in I THEN f[i - 1] ELSE Append(f[i - 1], lines[i])
  /\ Without(lines, I) = f[Len(lines)]

LEMMA WithoutIs ==
  ASSUME NEW lines \in Seq(Lines), NEW I
  PROVE  \E f : Picked(f, lines, I)
<1> DEFINE n == Len(lines)
           S == Seq(Lines)
           Step(x, i) == IF i \in I THEN x ELSE Append(x, lines[i])
           G == [p \in S \X (1..n) |-> Step(p[1], p[2])]
<1>1. n \in Nat /\ lines \in [1..n -> Lines]
  BY LenProperties
<1>2. \A x \in S, i \in 1..n : Step(x, i) \in S
  BY <1>1, AppendProperties
<1>3. <<>> \in S
  OBVIOUS
<1> HIDE DEF n, Step, S
<1>4. G \in StepsOf(n, S)
  BY <1>1, <1>2 DEF StepsOf
<1>5. \A x \in S, i \in 1..n : G[<<x, i>>] = Step(x, i)
  OBVIOUS
<1> HIDE DEF G
<1>6. PICK f : Follows(f, G, <<>>, n, S)
  BY <1>1, <1>3, <1>4, StepsExist
<1>7. f \in [0..n -> S] /\ f[0] = <<>> /\ \A i \in 1..n : f[i] = Step(f[i - 1], i)
  BY <1>1, <1>5, <1>6 DEF Follows
<1> DEFINE R(h) == [i \in 0..n |-> IF i = 0 THEN <<>> ELSE Step(h[i - 1], i)]
           g == CHOOSE h : h = R(h)
<1>8. f = R(f)
  BY <1>1, <1>7
<1>9. g = R(g)
  <2> HIDE DEF R
  <2> QED BY <1>8
<1> HIDE DEF g
<1>10. g[0] = <<>> /\ \A i \in 1..n : g[i] = Step(g[i - 1], i)
  BY <1>1, <1>9
<1>11. Without(lines, I) = g[n]
  BY DEF Without, n, g, Step
<1>12. Alike(f, g, n)
  BY <1>7, <1>10 DEF Alike
<1>13. \A i \in 0..n : f[i] = g[i]
  BY <1>1, <1>12, SameSteps
<1>14. Picked(f, lines, I)
  BY <1>1, <1>7, <1>11, <1>13 DEF n, S, Step, Picked
<1> QED BY <1>14

LEMMA WithoutType ==
  ASSUME NEW lines \in Seq(Lines), NEW I
  PROVE  Without(lines, I) \in Seq(Lines) /\ (I = {} => Without(lines, I) = lines)
<1> DEFINE n == Len(lines)
<1>1. n \in Nat /\ lines \in [1..n -> Lines]
  BY LenProperties
<1>2. PICK f : Picked(f, lines, I)
  BY WithoutIs
<1>3. /\ f \in [0..n -> Seq(Lines)] /\ f[0] = <<>>
      /\ \A i \in 1..n : f[i] = IF i \in I THEN f[i - 1] ELSE Append(f[i - 1], lines[i])
      /\ Without(lines, I) = f[n]
  BY <1>2 DEF Picked
<1> HIDE DEF n
<1>4. ASSUME I = {} PROVE f[n] = lines
  <2> DEFINE S == {i \in 0..n : Len(f[i]) = i /\ \A k \in 1..i : f[i][k] = lines[k]}
  <2>1. 0 \in S
    BY <1>1, <1>3
  <2>2. ASSUME NEW i \in 1..n, i - 1 \in S PROVE i \in S
    <3>1. f[i] = Append(f[i - 1], lines[i]) /\ lines[i] \in Lines
      BY <1>1, <1>3, <1>4
    <3>4. f[i - 1] \in Seq(Lines)
      <4>1. i - 1 \in 0..n
        BY <1>1
      <4> QED BY <4>1, <1>3
    <3>2. Len(f[i - 1]) = i - 1 /\ \A k \in 1..(i - 1) : f[i - 1][k] = lines[k]
      BY <2>2
    <3>3. Len(f[i]) = i /\ f[i][i] = lines[i] /\ \A k \in 1..(i - 1) : f[i][k] = f[i - 1][k]
      BY <3>1, <3>2, <3>4, AppendProperties
    <3> QED BY <3>2, <3>3
  <2>3. 0..n \subseteq S
    <3> HIDE DEF S
    <3> QED BY <1>1, <2>1, <2>2, UpTo
  <2>5. n \in 0..n
    BY <1>1
  <2>4. f[n] \in Seq(Lines) /\ Len(f[n]) = n /\ \A k \in 1..n : f[n][k] = lines[k]
    <3>1. n \in S
      BY <2>3, <2>5
    <3> QED BY <1>3, <2>5, <3>1
  <2> QED BY <2>4, SeqEqual DEF n
<1> QED BY <1>1, <1>3, <1>4

LEMMA AnnounceLog ==
  ASSUME kept \in Seq(Lines), log \in Seq(Lines), amiss \in BOOLEAN,
         NEW lines \in Seq(Lines), Announce(lines)
  PROVE  /\ kept' \in Seq(Lines) /\ log' \in Seq(Lines) /\ amiss' \in BOOLEAN
         /\ ~amiss' => (~amiss /\ log' = log \o lines)
<1> DEFINE all == log \o lines
           out == PushedOut(all)
<1>1. all \in Seq(Lines)
  BY ConcatProperties
<1>2. log' = Without(all, out) /\ amiss' = (amiss \/ out # {})
      /\ kept' = LastOf(kept, Ring - Cardinality(Announced(all)))
  BY DEF Announce
<1> HIDE DEF all, out
<1>3. Cardinality(Announced(all)) \in Nat
  <2> DEFINE n == Len(all)
  <2>2. n \in Nat /\ DOMAIN all = 1..n
    BY <1>1, LenProperties
  <2> HIDE DEF n
  <2>1. IsFiniteSet(1..n) /\ Announced(all) \in SUBSET (1..n)
    BY <2>2, FS_Interval DEF Announced
  <2> QED BY <2>1, FS_Subset, FS_CardinalityType
<1>4. ASSUME NEW k \in Int PROVE LastOf(kept, k) \in Seq(Lines)
  <2>1. Len(kept) \in Nat /\ \A i \in 1..Len(kept) : kept[i] \in Lines
    BY LenProperties
  <2>2. CASE k >= Len(kept)
    BY <2>2 DEF LastOf
  <2>3. CASE k < Len(kept)
    <3> DEFINE a == Len(kept) - k + 1
    <3>1. a \in Int /\ a >= 1
      BY <2>1, <2>3
    <3>2. \A i \in a..Len(kept) : kept[i] \in Lines
      BY <2>1, <3>1
    <3>3. LastOf(kept, k) = SubSeq(kept, a, Len(kept))
      BY <2>1, <2>3 DEF LastOf
    <3> HIDE DEF a
    <3> QED BY <2>1, <3>1, <3>2, <3>3, SubSeqProperties
  <2> QED BY <2>1, <2>2, <2>3
<1>5. kept' \in Seq(Lines)
  BY <1>2, <1>3, <1>4, RoamingAssumption
<1>6. log' \in Seq(Lines) /\ (out = {} => log' = all)
  BY <1>1, <1>2, WithoutType
<1> QED BY <1>2, <1>5, <1>6 DEF all

LEMMA DropLines ==
  ASSUME NEW c \in Clients, NEW old \in SUBSET Bss
  PROVE  LET D == {Line("disassoc", c, x) : x \in old} IN
         /\ SetToSeq(D) \in Seq(Lines)
         /\ old = {} => SetToSeq(D) = <<>>
         /\ \A x \in Bss : old = {x} => SetToSeq(D) = <<Line("disassoc", c, x)>>
<1> DEFINE D == {Line("disassoc", c, x) : x \in old}
           f == [x \in old |-> Line("disassoc", c, x)]
           q == SetToSeq(D)
<1>1. IsFiniteSet(old)
  BY RoamingAssumption, FS_Subset
<1>2. f \in Surjection(old, D)
  BY DEF Surjection
<1>3. IsFiniteSet(D)
  <2> HIDE DEF f, D
  <2> QED BY <1>1, <1>2, FS_Surjection
<1>4. D \subseteq Lines
  BY DEF Line, Lines, Places
<1>5. Cardinality(D) \in Nat /\ q \in [1..Cardinality(D) -> D]
  <2> HIDE DEF D
  <2>1. Cardinality(D) \in Nat /\ ExistsBijection(1..Cardinality(D), D)
    BY <1>3, FS_CardinalityType
  <2>2. \E g \in [1..Cardinality(D) -> D] : IsInjective(g)
    BY <2>1 DEF ExistsBijection, Bijection, Injection
  <2> QED BY <2>1, <2>2 DEF SetToSeq, q
<1>6. q \in Seq(Lines)
  <2> HIDE DEF D, q
  <2>1. q \in [1..Cardinality(D) -> Lines]
    BY <1>4, <1>5
  <2> QED BY <1>5, <2>1
<1>7. ASSUME old = {} PROVE q = <<>>
  <2>1. D = {}
    BY <1>7
  <2>2. Cardinality(D) = 0
    BY <2>1, FS_EmptySet
  <2> HIDE DEF D, q
  <2>3. q \in [1..0 -> D]
    BY <1>5, <2>2
  <2>4. DOMAIN q = 1..0 /\ Len(q) = 0
    BY <2>3, <1>6
  <2> QED BY <1>6, <2>4, EmptySeq
<1>8. ASSUME NEW x \in Bss, old = {x} PROVE q = <<Line("disassoc", c, x)>>
  <2>1. D = {Line("disassoc", c, x)}
    BY <1>8
  <2>2. Cardinality(D) = 1
    BY <2>1, FS_Singleton
  <2>3. q \in [1..1 -> D]
    <3> HIDE DEF D, q
    <3> QED BY <1>5, <2>2
  <2>4. q[1] = Line("disassoc", c, x)
    <3> HIDE DEF D, q
    <3> QED BY <2>1, <2>3
  <2> DEFINE e == Line("disassoc", c, x)
  <2> HIDE DEF D, q, e
  <2>5. q \in Seq(Lines) /\ <<e>> \in Seq({e}) /\ Len(q) = 1 /\ q[1] = e
    BY <1>6, <2>3, <2>4 DEF e
  <2> QED BY <2>5 DEF e
<1> QED BY <1>6, <1>7, <1>8

-----------------------------------------------------------------------------
(***************************************************************************)
(* Types.                                                                   *)
(***************************************************************************)
LEMMA LineType ==
  ASSUME NEW ev \in {"assoc", "sta-authorized", "disassoc", "fdb"}, NEW c \in Clients,
         NEW b \in Places
  PROVE  Line(ev, c, b) \in Lines
BY DEF Line, Lines

LEMMA KnownType ==
  Known \in States <=> /\ here \in [Clients -> Entries] /\ roamed \in SUBSET Clients
                       /\ joined \in [Clients -> Nat] /\ departed \in [Clients -> Nat]
<1>1. Known = St(here, roamed, joined, departed)
  BY DEF Known, St
<1>2. /\ Known.here = here /\ Known.roamed = roamed
      /\ Known.joined = joined /\ Known.departed = departed
  BY DEF Known
<1> QED BY <1>1, <1>2, IsState

LEMMA BaseType ==
  ASSUME TypeInv
  PROVE  /\ Base \in States /\ Compared \in States /\ Ahead \in States
         /\ Apart(Known) => Apart(Base) /\ Apart(Compared)
<1>1. /\ here \in [Clients -> Entries] /\ roamed \in SUBSET Clients
      /\ joined \in [Clients -> Nat] /\ departed \in [Clients -> Nat]
      /\ Known \in States /\ log \in Seq(Lines)
  BY KnownType DEF TypeInv
<1>2. \A c \in Clients : obs[c] \in [bss : Places, heard : BOOLEAN] /\ here[c] \in Entries
  BY <1>1 DEF TypeInv
<1> DEFINE H == [c \in Clients |-> Observed(c)]
<1>3. \A c \in Clients : Observed(c) \in Entries
  BY <1>2 DEF Observed, Unknown, Entries, Places
<1>4. H \in [Clients -> Entries] /\ Away \in SUBSET Clients
  BY <1>1, <1>3 DEF Away, StillAway
<1> HIDE DEF H
<1>5. Compared = St(H, Away, joined, departed)
  BY DEF Compared, H, St
<1>6. Compared \in States
  BY <1>1, <1>4, <1>5, IsState
<1>7. Apart(Compared)
  <2>1. Compared.here = H /\ Compared.roamed = Away
    BY <1>5 DEF St
  <2>2. \A c \in Away : c \in Clients /\ H[c] = Unknown
    BY <1>1 DEF Away, StillAway, H, Observed
  <2> QED BY <2>1, <2>2 DEF Apart, Unknown
<1>8. Base \in States /\ (Apart(Known) => Apart(Base))
  BY <1>1, <1>6, <1>7 DEF Base
<1>9. Ahead \in States
  BY <1>1, <1>8, IngestedType DEF Ahead
<1> QED BY <1>6, <1>7, <1>8, <1>9

\* What a poll leaves: all that is new is known, and read.
LEMMA ComparedType == TypeInv => Compared \in States
BY BaseType

LEMMA ComparedTypeNext == (TypeInv => Compared \in States)'
BY ComparedType, PTL

LEMMA PollIs ==
  ASSUME NEW s \in States, log \in Seq(Lines), kept \in Seq(Lines), Poll(s)
  PROVE  /\ Known' = Ingested(s, log) /\ log' = <<>>
         /\ kept' \in Seq(Lines) /\ log' \in Seq(Lines) /\ Known' \in States
         /\ Apart(s) => Apart(Known')
<1> DEFINE after == Ingested(s, log)
<1>1. after \in States /\ (Apart(s) => Apart(after))
  BY IngestedType
<1>2. after = St(after.here, after.roamed, after.joined, after.departed)
  BY <1>1, IsState
<1>3. /\ here' = after.here /\ roamed' = after.roamed
      /\ joined' = after.joined /\ departed' = after.departed
  BY DEF Poll
<1> HIDE DEF after
<1>4. Known' = after
  BY <1>2, <1>3 DEF Known, St
<1>5. log' = <<>> /\ kept' = kept \o Without(log, DOMAIN log \ Announced(log))
  BY DEF Poll
<1>6. kept' \in Seq(Lines)
  BY <1>5, WithoutType, ConcatProperties
<1> QED BY <1>1, <1>4, <1>5, <1>6 DEF after

LEMMA MoreType ==
  ASSUME NEW f \in [Clients -> Nat], NEW c \in Clients
  PROVE  /\ More(f, c) \in [Clients -> Nat] /\ More(f, c)[c] = f[c] + 1
         /\ \A x \in Clients \ {c} : More(f, c)[x] = f[x]
BY DEF More

LEMMA OneMoreIs ==
  ASSUME NEW f \in [Clients -> Nat], NEW c \in Clients, at[c] # None
  PROVE  /\ OneMore(f, c)[c] = f[c] + (IF station[c][at[c]] = "ready" THEN 1 ELSE 0)
         /\ \A x \in Clients \ {c} : OneMore(f, c)[x] = f[x]
<1>1. f[c] \in Nat
  OBVIOUS
<1>2. CASE station[c][at[c]] = "ready"
  BY <1>1, <1>2, MoreType DEF OneMore
<1>3. CASE station[c][at[c]] # "ready"
  BY <1>1, <1>3 DEF OneMore
<1> QED BY <1>2, <1>3

LEMMA TypeStep == TypeInv /\ Apart(Known) /\ Next => TypeInv' /\ Apart(Known)'
<1> SUFFICES ASSUME TypeInv, Apart(Known), Next PROVE TypeInv' /\ Apart(Known)'
  OBVIOUS
<1> USE DEF TypeInv
<1>1. /\ kept \in Seq(Lines) /\ log \in Seq(Lines) /\ amiss \in BOOLEAN /\ Known \in States
      /\ Base \in States /\ Compared \in States /\ Apart(Compared)
  BY BaseType
<1>2. /\ \A c \in Clients : at[c] \in Places
      /\ \A c \in Clients : at[c] # None => at[c] \in Bss
      /\ \A ev \in {"assoc", "sta-authorized", "disassoc", "fdb"}, c \in Clients, b \in Places :
           <<Line(ev, c, b)>> \in Seq(Lines)
  BY LineType DEF Places
<1>3. ASSUME UNCHANGED <<here, roamed, joined, departed>>
      PROVE  Known' \in States /\ Apart(Known)' /\ Known' = Known
  <2>1. Known' = Known
    BY <1>3 DEF Known
  <2> QED BY <2>1, <1>1 DEF Apart
<1>4. ASSUME NEW c \in Clients, NEW b \in Bss, Associate(c, b) PROVE TypeInv' /\ Apart(Known)'
  <2> DEFINE old == Listed(c) \ {b}
             lines == <<Line("assoc", c, b)>> \o SetToSeq({Line("disassoc", c, x) : x \in old})
  <2>1. old \in SUBSET Bss
    BY DEF Listed
  <2>2. lines \in Seq(Lines)
    <3> HIDE DEF old
    <3>1. SetToSeq({Line("disassoc", c, x) : x \in old}) \in Seq(Lines)
      BY <2>1, DropLines
    <3> QED BY <3>1, <1>2, ConcatProperties DEF Places
  <2> HIDE DEF lines
  <2>3. /\ at' = [at EXCEPT ![c] = b]
        /\ station' = [station EXCEPT ![c] = [x \in Bss |->
                         IF x = b THEN "assoc" ELSE IF x \in old THEN "no" ELSE station[c][x]]]
        /\ Announce(lines)
        /\ UNCHANGED <<moving, daemon, truth, reports>>
    BY <1>4 DEF Associate, lines
  <2>4. kept' \in Seq(Lines) /\ log' \in Seq(Lines) /\ amiss' \in BOOLEAN
    BY <2>2, <2>3, <1>1, AnnounceLog
  <2>5. at' \in [Clients -> Places] /\ station' \in [Clients -> [Bss -> {"no", "assoc", "ready"}]]
    BY <2>3 DEF Places
  <2> QED BY <2>3, <2>4, <2>5, <1>3 DEF daemon, truth, reports
<1>5. ASSUME NEW c \in Clients, Authorize(c) PROVE TypeInv' /\ Apart(Known)'
  <2>1. kept' \in Seq(Lines) /\ log' \in Seq(Lines) /\ amiss' \in BOOLEAN
    BY <1>1, <1>2, <1>5, AnnounceLog DEF Authorize
  <2>2. station' \in [Clients -> [Bss -> {"no", "assoc", "ready"}]] /\ came' \in [Clients -> Nat]
    BY <1>2, <1>5, MoreType DEF Authorize
  <2> QED BY <2>1, <2>2, <1>3, <1>5 DEF Authorize, daemon, bounds, reports
<1>6. ASSUME NEW c \in Clients, Rekey(c) PROVE TypeInv' /\ Apart(Known)'
  <2>1. kept' \in Seq(Lines) /\ log' \in Seq(Lines) /\ amiss' \in BOOLEAN
    BY <1>1, <1>2, <1>6, AnnounceLog DEF Rekey
  <2> QED BY <2>1, <1>3, <1>6 DEF Rekey, air, daemon, truth, reports
<1>7. ASSUME NEW c \in Clients, Depart(c) PROVE TypeInv' /\ Apart(Known)'
  <2>1. kept' \in Seq(Lines) /\ log' \in Seq(Lines) /\ amiss' \in BOOLEAN
    BY <1>1, <1>2, <1>7, AnnounceLog DEF Depart
  <2>2. /\ station' \in [Clients -> [Bss -> {"no", "assoc", "ready"}]]
        /\ at' \in [Clients -> Places]
        /\ went' \in [Clients -> Nat] /\ told' \in [Clients -> Nat]
    BY <1>2, <1>7, MoreType DEF Depart, OneMore, Places
  <2> QED BY <2>1, <2>2, <1>3, <1>7 DEF Depart, daemon, bounds, reports
<1>8. ASSUME NEW c \in Clients, Vanish(c) PROVE TypeInv' /\ Apart(Known)'
  <2>1. at' \in [Clients -> Places] /\ went' \in [Clients -> Nat] /\ moving' \subseteq Clients
    BY <1>8, MoreType DEF Vanish, OneMore, Places
  <2> QED BY <2>1, <1>3, <1>8 DEF Vanish, daemon, bounds, reports
<1>9. ASSUME NEW c \in Clients, NEW b \in Bss, Drop(c, b) PROVE TypeInv' /\ Apart(Known)'
  <2>1. kept' \in Seq(Lines) /\ log' \in Seq(Lines) /\ amiss' \in BOOLEAN
    BY <1>1, <1>2, <1>9, AnnounceLog DEF Drop, Places
  <2>2. station' \in [Clients -> [Bss -> {"no", "assoc", "ready"}]]
    BY <1>9 DEF Drop
  <2> QED BY <2>1, <2>2, <1>3, <1>9 DEF Drop, daemon, bounds, truth, reports
<1>10. ASSUME NEW c \in Clients, LearnUplink(c) PROVE TypeInv' /\ Apart(Known)'
  <2>1. log' \in Seq(Lines)
    BY <1>1, <1>10, LineType, AppendProperties DEF LearnUplink, Places
  <2>2. moving' \subseteq Clients
    BY <1>10 DEF LearnUplink
  <2> QED BY <2>1, <2>2, <1>3, <1>10 DEF LearnUplink, daemon, bounds, truth, reports
<1>11. CASE IdlePoll
  <2>1. Poll(Known) /\ UNCHANGED <<air, pc, obs, bounds, truth, amiss>>
    BY <1>11 DEF IdlePoll
  <2>2. kept' \in Seq(Lines) /\ log' \in Seq(Lines) /\ Known' \in States /\ Apart(Known')
    BY <2>1, <1>1, PollIs
  <2> QED BY <2>1, <2>2 DEF air, truth, Apart
<1>12. CASE Build
  <2>1. PICK list \in [Clients -> UNION {Sightings(c) : c \in Clients}] :
          (\A c \in Clients : list[c] \in Sightings(c)) /\ Dump(list)
    BY <1>12 DEF Build
  <2>2. \A c \in Clients : list[c] \in [bss : Places, heard : BOOLEAN]
    <3>1. ASSUME NEW c \in Clients PROVE Sightings(c) \subseteq [bss : Places, heard : BOOLEAN]
      <4>1. CASE Listed(c) = {}
        BY <4>1 DEF Sightings, Nobody, Places
      <4>2. CASE Listed(c) # {}
        <5>1. Listed(c) \subseteq Places
          BY DEF Listed, Places
        <5> QED BY <4>2, <5>1 DEF Sightings
      <4> QED BY <4>1, <4>2
    <3> QED BY <2>1, <3>1
  <2>3. /\ pc' = "built" /\ obs' = list /\ roamed' = StillAway(list)
        /\ amiss' = (amiss \/ log # <<>>)
        /\ UNCHANGED <<air, kept, log, here, bounds, truth, reports>>
    BY <2>1 DEF Dump
  <2>4. /\ here \in [Clients -> Entries] /\ roamed \in SUBSET Clients
        /\ joined \in [Clients -> Nat] /\ departed \in [Clients -> Nat]
    BY <1>1, KnownType
  <2>5. roamed' \subseteq roamed
    BY <2>3 DEF StillAway
  <2>6. Known' \in States
    <3>1. /\ here' \in [Clients -> Entries] /\ roamed' \in SUBSET Clients
          /\ joined' \in [Clients -> Nat] /\ departed' \in [Clients -> Nat]
      BY <2>3, <2>4, <2>5 DEF reports
    <3>2. Known' = St(here', roamed', joined', departed')
      BY DEF Known, St
    <3> QED BY <3>1, <3>2, IsState
  <2>7. Apart(Known)'
    <3>1. Known.here = here /\ Known.roamed = roamed /\ Known'.here = here' /\ Known'.roamed = roamed'
      BY DEF Known
    <3> QED BY <2>3, <2>5, <3>1 DEF Apart
  <2>8. obs' \in [Clients -> [bss : Places, heard : BOOLEAN]]
    BY <2>1, <2>2, <2>3
  <2> QED BY <2>3, <2>6, <2>7, <2>8, <1>1 DEF air, truth
<1>13. CASE Observe
  <2>1. pc' = "wait" /\ Poll(Compared) /\ obs' = Nobody /\ UNCHANGED <<air, bounds, truth, amiss>>
    BY <1>13 DEF Observe
  <2>2. kept' \in Seq(Lines) /\ log' \in Seq(Lines) /\ Known' \in States /\ Apart(Known')
    BY <2>1, <1>1, PollIs
  <2>3. obs' \in [Clients -> [bss : Places, heard : BOOLEAN]]
    BY <2>1 DEF Nobody, Places
  <2> QED BY <2>1, <2>2, <2>3 DEF air, truth, Apart
<1>14. CASE Restart
  <2>1. /\ pc' = "wait" /\ obs' = Nobody /\ amiss' = TRUE
        /\ here' = [c \in Clients |-> Unknown] /\ roamed' = {}
        /\ log' = kept \o log /\ kept' = <<>>
        /\ UNCHANGED <<air, truth, reports>>
    BY <1>14 DEF Restart
  <2>2. kept' \in Seq(Lines) /\ log' \in Seq(Lines)
    BY <2>1, <1>1, ConcatProperties
  <2>3. obs' \in [Clients -> [bss : Places, heard : BOOLEAN]]
    BY <2>1 DEF Nobody, Places
  <2>4. Known' \in States /\ Known'.roamed = {}
    <3>1. joined \in [Clients -> Nat] /\ departed \in [Clients -> Nat]
      BY <1>1, KnownType
    <3>2. here' \in [Clients -> Entries]
      BY <2>1 DEF Unknown, Entries, Places
    <3>3. Known' = St(here', roamed', joined', departed') /\ Known'.roamed = roamed'
      BY DEF Known, St
    <3>4. roamed' \in SUBSET Clients /\ joined' = joined /\ departed' = departed
      BY <2>1 DEF reports
    <3> QED BY <2>1, <3>1, <3>2, <3>3, <3>4, IsState
  <2>5. Apart(Known)'
    BY <2>4 DEF Apart
  <2> QED BY <2>1, <2>2, <2>3, <2>4, <2>5 DEF air, truth
<1> QED BY <1>4, <1>5, <1>6, <1>7, <1>8, <1>9, <1>10, <1>11, <1>12, <1>13, <1>14
        DEF Next, Client, Kernel

-----------------------------------------------------------------------------
(***************************************************************************)
(* In step.                                                                 *)
(***************************************************************************)
LEMMA SameBase ==
  ASSUME UNCHANGED <<daemon, reports>>
  PROVE  Base' = Base /\ Known' = Known
BY DEF Base, Known, Compared, Observed, StillAway, Away, daemon, reports

LEMMA AheadMore ==
  ASSUME TypeInv, UNCHANGED <<daemon, reports>>, NEW e \in Lines, log' = Append(log, e)
  PROVE  Ahead' = Ingest(Ahead, e)
<1>1. Base' = Base /\ Base \in States /\ log \in Seq(Lines)
  BY SameBase, BaseType DEF TypeInv
<1> QED BY <1>1, IngestedMore DEF Ahead

LEMMA AheadAnnounced ==
  ASSUME TypeInv, UNCHANGED <<daemon, reports>>, NEW e \in Lines, Announce(<<e>>), ~amiss'
  PROVE  ~amiss /\ Ahead' = Ingest(Ahead, e)
<1>1. <<e>> \in Seq(Lines) /\ kept \in Seq(Lines) /\ log \in Seq(Lines) /\ amiss \in BOOLEAN
  BY DEF TypeInv
<1>2. ~amiss /\ log' = log \o <<e>>
  BY <1>1, AnnounceLog
<1>3. log' = Append(log, e)
  BY <1>1, <1>2, AppendIsConcat
<1> QED BY <1>2, <1>3, AheadMore

LEMMA Lift ==
  ASSUME NEW t, t = Ahead', NEW c,
         Fits(at'[c], station'[c], c \in moving', t.here[c], c \in t.roamed,
              t.joined[c], t.departed[c], came'[c], went'[c], told'[c])
  PROVE  InStep(c, Ahead)'
BY DEF InStep

\* Who is not concerned stays in step.
LEMMA Others ==
  ASSUME NEW s, NEW t, s = Ahead, t = Ahead', NEW x, InStep(x, Ahead),
         at'[x] = at[x], station'[x] = station[x], x \in moving' <=> x \in moving,
         came'[x] = came[x], went'[x] = went[x], told'[x] = told[x],
         t.here[x] = s.here[x], x \in t.roamed <=> x \in s.roamed,
         t.joined[x] = s.joined[x], t.departed[x] = s.departed[x]
  PROVE  InStep(x, Ahead)'
<1>1. Fits(at[x], station[x], x \in moving, s.here[x], x \in s.roamed,
           s.joined[x], s.departed[x], came[x], went[x], told[x])
  BY DEF InStep
<1>2. Fits(at'[x], station'[x], x \in moving', t.here[x], x \in t.roamed,
           t.joined[x], t.departed[x], came'[x], went'[x], told'[x])
  BY <1>1 DEF Fits
<1> QED BY <1>2, Lift

\* What client c's values are, and that they fit.
LEMMA Local ==
  ASSUME TypeInv, NEW c \in Clients, NEW s, s = Ahead, InStep(c, Ahead)
  PROVE  /\ s \in States /\ at[c] \in Places /\ station[c] \in [Bss -> {"no", "assoc", "ready"}]
         /\ s.here[c] \in Entries /\ s.joined[c] \in Nat /\ s.departed[c] \in Nat
         /\ came[c] \in Nat /\ went[c] \in Nat /\ told[c] \in Nat
         /\ Fits(at[c], station[c], c \in moving, s.here[c], c \in s.roamed,
                 s.joined[c], s.departed[c], came[c], went[c], told[c])
<1>1. s \in States
  BY BaseType
<1>2. /\ s.here[c] \in Entries /\ s.joined[c] \in Nat /\ s.departed[c] \in Nat
  BY <1>1, IsState
<1>3. Fits(at[c], station[c], c \in moving, s.here[c], c \in s.roamed,
           s.joined[c], s.departed[c], came[c], went[c], told[c])
  BY DEF InStep
<1> QED BY <1>1, <1>2, <1>3 DEF TypeInv

AllInStep == \A c \in Clients : InStep(c, Ahead)

\* One client's event, which leaves the others where they are.
OthersStay(c) ==
  \A x \in Clients \ {c} :
    /\ at'[x] = at[x] /\ station'[x] = station[x] /\ (x \in moving' <=> x \in moving)
    /\ came'[x] = came[x] /\ went'[x] = went[x] /\ told'[x] = told[x]

\* What is known of the others is as it was.
Elsewhere(s, t, c) ==
  \A x \in Clients \ {c} :
    /\ t.here[x] = s.here[x] /\ (x \in t.roamed <=> x \in s.roamed)
    /\ t.joined[x] = s.joined[x] /\ t.departed[x] = s.departed[x]

LEMMA OneClientOnly ==
  ASSUME AllInStep, NEW s, NEW t, s = Ahead, t = Ahead', NEW c \in Clients,
         Elsewhere(s, t, c), OthersStay(c),
         Fits(at'[c], station'[c], c \in moving', t.here[c], c \in t.roamed,
              t.joined[c], t.departed[c], came'[c], went'[c], told'[c])
  PROVE  AllInStep'
<1>1. ASSUME NEW x \in Clients \ {c} PROVE InStep(x, Ahead)'
  BY Others DEF AllInStep, OthersStay, Elsewhere
<1>2. InStep(c, Ahead)'
  BY Lift
<1> QED BY <1>1, <1>2 DEF AllInStep

LEMMA OneClient ==
  ASSUME AllInStep, NEW s \in States, NEW t, s = Ahead, t = Ahead', NEW c \in Clients,
         NEW e \in Lines, e.mac = c, t = Ingest(s, e), OthersStay(c),
         Fits(at'[c], station'[c], c \in moving', t.here[c], c \in t.roamed,
              t.joined[c], t.departed[c], came'[c], went'[c], told'[c])
  PROVE  AllInStep'
<1>1. Elsewhere(s, t, c)
  BY IngestParts DEF Elsewhere
<1> QED BY <1>1, OneClientOnly

LEMMA StepAuthorize ==
  ASSUME TypeInv, AllInStep, NEW c \in Clients, Authorize(c), ~amiss'
  PROVE  AllInStep'
<1> DEFINE e == Line("sta-authorized", c, at[c])
<1>1. /\ c \notin moving /\ at[c] # None /\ station[c][at[c]] = "assoc"
      /\ station' = [station EXCEPT ![c][at[c]] = "ready"]
      /\ Announce(<<e>>) /\ came' = More(came, c)
      /\ UNCHANGED <<at, moving, daemon, bounds, went, told, reports>>
  BY DEF Authorize
<1>2. e \in Lines /\ e.mac = c /\ e.ev = "sta-authorized" /\ e.bss = at[c]
  BY LineType DEF Line, TypeInv
<1> HIDE DEF e
<1>3. PICK s, t : s = Ahead /\ t = Ahead'
  OBVIOUS
<1>4. s \in States /\ t = Ingest(s, e)
  BY <1>1, <1>2, <1>3, AheadAnnounced, BaseType
<1>5. OthersStay(c)
  <2>1. \A x \in Clients \ {c} : came'[x] = came[x]
    <3>1. came \in [Clients -> Nat] /\ came' = More(came, c)
      BY <1>1 DEF TypeInv
    <3> QED BY <3>1, MoreType
  <2>2. \A x \in Clients \ {c} : station'[x] = station[x]
    BY <1>1 DEF TypeInv
  <2> QED BY <1>1, <2>1, <2>2 DEF OthersStay
<1> DEFINE l == station[c]
<1>6. /\ at[c] \in Bss /\ l \in [Bss -> {"no", "assoc", "ready"}]
      /\ s.joined[c] \in Nat /\ s.departed[c] \in Nat
      /\ came[c] \in Nat /\ went[c] \in Nat /\ told[c] \in Nat
      /\ Fits(at[c], l, c \in moving, s.here[c], c \in s.roamed,
              s.joined[c], s.departed[c], came[c], went[c], told[c])
  BY <1>1, <1>3, Local DEF AllInStep, Places
<1>7. s.here[c].bss = at[c] /\ s.here[c].fresh /\ c \notin s.roamed
  BY <1>1, <1>6 DEF Fits
<1>8. /\ t.here[c].bss = at[c] /\ ~t.here[c].fresh /\ (c \in t.roamed <=> c \in s.roamed)
      /\ t.joined[c] = s.joined[c] + 1 /\ t.departed[c] = s.departed[c]
  BY <1>2, <1>4, <1>7, OwnAuthorized
<1>9. /\ station'[c][at[c]] = "ready" /\ came'[c] = came[c] + 1
      /\ \A x \in Bss \ {at[c]} : station'[c][x] = l[x]
  BY <1>1, <1>6, MoreType DEF TypeInv
<1>10. Fits(at'[c], station'[c], c \in moving', t.here[c], c \in t.roamed,
            t.joined[c], t.departed[c], came'[c], went'[c], told'[c])
  BY <1>1, <1>6, <1>7, <1>8, <1>9 DEF Fits
<1> QED BY <1>2, <1>3, <1>4, <1>5, <1>10, OneClient

LEMMA StepRekey ==
  ASSUME TypeInv, AllInStep, NEW c \in Clients, Rekey(c), ~amiss'
  PROVE  AllInStep'
<1> DEFINE e == Line("sta-authorized", c, at[c])
<1>1. /\ at[c] # None /\ station[c][at[c]] = "ready" /\ Announce(<<e>>)
      /\ UNCHANGED <<at, station, moving, daemon, truth, reports>>
  BY DEF Rekey, air
<1>2. e \in Lines /\ e.mac = c /\ e.ev = "sta-authorized" /\ e.bss = at[c]
  BY LineType DEF Line, TypeInv
<1> HIDE DEF e
<1>3. PICK s, t : s = Ahead /\ t = Ahead'
  OBVIOUS
<1>4. s \in States /\ t = Ingest(s, e)
  BY <1>1, <1>2, <1>3, AheadAnnounced, BaseType
<1>5. OthersStay(c)
  BY <1>1 DEF OthersStay, truth
<1>6. Fits(at[c], station[c], c \in moving, s.here[c], c \in s.roamed,
           s.joined[c], s.departed[c], came[c], went[c], told[c])
  BY <1>3, Local DEF AllInStep
<1>7. ~s.here[c].fresh
  BY <1>1, <1>6 DEF Fits
<1>8. /\ t.here[c].bss = s.here[c].bss /\ (t.here[c].fresh <=> s.here[c].fresh)
      /\ (c \in t.roamed <=> c \in s.roamed)
      /\ t.joined[c] = s.joined[c] /\ t.departed[c] = s.departed[c]
  BY <1>2, <1>4, <1>7, OwnAuthorized
<1>9. Fits(at'[c], station'[c], c \in moving', t.here[c], c \in t.roamed,
           t.joined[c], t.departed[c], came'[c], went'[c], told'[c])
  BY <1>1, <1>6, <1>8 DEF Fits, truth
<1> QED BY <1>2, <1>3, <1>4, <1>5, <1>9, OneClient

LEMMA StepDepart ==
  ASSUME TypeInv, AllInStep, NEW c \in Clients, Depart(c), ~amiss'
  PROVE  AllInStep'
<1> DEFINE e == Line("disassoc", c, at[c])
<1>1. /\ at[c] # None /\ went' = OneMore(went, c) /\ told' = OneMore(told, c)
      /\ at' = [at EXCEPT ![c] = None] /\ station' = [station EXCEPT ![c][at[c]] = "no"]
      /\ Announce(<<e>>) /\ UNCHANGED <<moving, daemon, bounds, came, reports>>
  BY DEF Depart
<1>2. e \in Lines /\ e.mac = c /\ e.ev = "disassoc" /\ e.bss = at[c]
  BY LineType DEF Line, TypeInv
<1> HIDE DEF e
<1>3. PICK s, t : s = Ahead /\ t = Ahead'
  OBVIOUS
<1>4. s \in States /\ t = Ingest(s, e)
  BY <1>1, <1>2, <1>3, AheadAnnounced, BaseType
<1>5. OthersStay(c)
  <2>1. went \in [Clients -> Nat] /\ told \in [Clients -> Nat] /\ at[c] # None
    BY <1>1 DEF TypeInv
  <2>2. \A x \in Clients \ {c} : went'[x] = went[x] /\ told'[x] = told[x]
    BY <1>1, <2>1, OneMoreIs
  <2>3. \A x \in Clients \ {c} : at'[x] = at[x] /\ station'[x] = station[x]
    BY <1>1 DEF TypeInv
  <2> QED BY <1>1, <2>2, <2>3 DEF OthersStay
<1> DEFINE l == station[c]
<1>6. /\ at[c] \in Bss /\ l \in [Bss -> {"no", "assoc", "ready"}]
      /\ s.joined[c] \in Nat /\ s.departed[c] \in Nat
      /\ came[c] \in Nat /\ went[c] \in Nat /\ told[c] \in Nat
      /\ Fits(at[c], l, c \in moving, s.here[c], c \in s.roamed,
              s.joined[c], s.departed[c], came[c], went[c], told[c])
  BY <1>1, <1>3, Local DEF AllInStep, Places
<1>7. s.here[c].bss = at[c] /\ (s.here[c].fresh <=> l[at[c]] = "assoc") /\ l[at[c]] # "no"
  BY <1>1, <1>6 DEF Fits
<1>8. /\ t.here[c].bss = None /\ ~t.here[c].fresh /\ c \notin t.roamed
      /\ t.joined[c] = s.joined[c]
      /\ t.departed[c] = s.departed[c] + (IF s.here[c].fresh THEN 0 ELSE 1)
  BY <1>2, <1>4, <1>7, OwnDisassoc
<1>9. /\ station'[c][at[c]] = "no" /\ \A x \in Bss \ {at[c]} : station'[c][x] = l[x]
      /\ at'[c] = None
  BY <1>1, <1>6 DEF TypeInv
<1>10. /\ went'[c] = went[c] + (IF l[at[c]] = "ready" THEN 1 ELSE 0)
       /\ told'[c] = told[c] + (IF l[at[c]] = "ready" THEN 1 ELSE 0)
  BY <1>1, OneMoreIs DEF TypeInv
<1>11. \A x \in Bss : station'[c][x] = "no"
  BY <1>1, <1>6, <1>7, <1>9 DEF Fits
<1>12. l[at[c]] \in {"assoc", "ready"}
  BY <1>6, <1>7
<1>13. Fits(at'[c], station'[c], c \in moving', t.here[c], c \in t.roamed,
            t.joined[c], t.departed[c], came'[c], went'[c], told'[c])
  BY <1>1, <1>6, <1>7, <1>8, <1>9, <1>10, <1>11, <1>12 DEF Fits
<1> QED BY <1>2, <1>3, <1>4, <1>5, <1>13, OneClient

LEMMA StepVanish ==
  ASSUME TypeInv, AllInStep, NEW c \in Clients, Vanish(c), ~amiss'
  PROVE  AllInStep'
<1>1. /\ at[c] # None /\ went' = OneMore(went, c) /\ at' = [at EXCEPT ![c] = None]
      /\ moving' \in {moving, moving \cup {c}}
      /\ UNCHANGED <<station, log, daemon, came, told, reports>>
  BY DEF Vanish
<1>2. PICK s, t : s = Ahead /\ t = Ahead'
  OBVIOUS
<1>3. s = t
  BY <1>1, <1>2, SameBase DEF Ahead
<1>4. /\ at[c] \in Bss /\ station[c] \in [Bss -> {"no", "assoc", "ready"}]
      /\ s.joined[c] \in Nat /\ s.departed[c] \in Nat
      /\ came[c] \in Nat /\ went[c] \in Nat /\ told[c] \in Nat
      /\ Fits(at[c], station[c], c \in moving, s.here[c], c \in s.roamed,
              s.joined[c], s.departed[c], came[c], went[c], told[c])
  BY <1>1, <1>2, Local DEF AllInStep, Places
<1>5. at'[c] = None /\ went'[c] = went[c] + (IF station[c][at[c]] = "ready" THEN 1 ELSE 0)
  BY <1>1, OneMoreIs DEF TypeInv
<1>6. s.here[c].bss = at[c] /\ at[c] # None /\ station[c][at[c]] # "no"
      /\ (s.here[c].fresh <=> station[c][at[c]] = "assoc")
  BY <1>1, <1>4 DEF Fits
<1>7. station[c][at[c]] \in {"assoc", "ready"}
  BY <1>4, <1>6
<1>8. Fits(at'[c], station'[c], c \in moving', t.here[c], c \in t.roamed,
           t.joined[c], t.departed[c], came'[c], went'[c], told'[c])
  BY <1>1, <1>3, <1>4, <1>5, <1>6, <1>7 DEF Fits
<1>9. OthersStay(c)
  <2>1. went \in [Clients -> Nat] /\ told \in [Clients -> Nat] /\ at[c] # None
    BY <1>1, <1>6 DEF TypeInv
  <2>2. \A x \in Clients \ {c} : went'[x] = went[x] /\ told'[x] = told[x]
    BY <1>1, <2>1, OneMoreIs
  <2>3. \A x \in Clients \ {c} : at'[x] = at[x] /\ station'[x] = station[x]
    BY <1>1 DEF TypeInv
  <2> QED BY <1>1, <2>2, <2>3 DEF OthersStay
<1>10. ASSUME NEW x \in Clients \ {c} PROVE InStep(x, Ahead)'
  BY <1>2, <1>3, <1>9, Others DEF OthersStay, AllInStep
<1> QED BY <1>2, <1>8, <1>10, Lift DEF AllInStep

LEMMA StepDrop ==
  ASSUME TypeInv, AllInStep, NEW c \in Clients, NEW b \in Bss, Drop(c, b), ~amiss'
  PROVE  AllInStep'
<1> DEFINE e == Line("disassoc", c, b)
<1>1. /\ at[c] # b /\ station[c][b] # "no" /\ station' = [station EXCEPT ![c][b] = "no"]
      /\ Announce(<<e>>) /\ UNCHANGED <<at, moving, daemon, bounds, truth, reports>>
  BY DEF Drop
<1>2. e \in Lines /\ e.mac = c /\ e.ev = "disassoc" /\ e.bss = b
  BY LineType DEF Line, Places
<1> HIDE DEF e
<1>3. PICK s, t : s = Ahead /\ t = Ahead'
  OBVIOUS
<1>4. s \in States /\ t = Ingest(s, e)
  BY <1>1, <1>2, <1>3, AheadAnnounced, BaseType
<1>5. OthersStay(c)
  BY <1>1 DEF TypeInv, OthersStay, truth
<1> DEFINE l == station[c]
<1>6. /\ at[c] \in Places /\ l \in [Bss -> {"no", "assoc", "ready"}]
      /\ s.joined[c] \in Nat /\ s.departed[c] \in Nat /\ s.here[c] \in Entries
      /\ came[c] \in Nat /\ went[c] \in Nat /\ told[c] \in Nat
      /\ Fits(at[c], l, c \in moving, s.here[c], c \in s.roamed,
              s.joined[c], s.departed[c], came[c], went[c], told[c])
  BY <1>3, Local DEF AllInStep
<1>7. at[c] = None
  BY <1>1, <1>6 DEF Fits, Places
<1>8. s.here[c].bss # None => s.here[c].bss = b /\ (~s.here[c].fresh => s.departed[c] < went[c])
  BY <1>1, <1>6, <1>7 DEF Fits, Entries, Places
<1>9. s.here[c].bss = None => s.here[c].bss # b /\ ~s.here[c].fresh
  BY <1>6, <1>7, RoamingAssumption DEF Fits
<1>10. /\ c \notin t.roamed /\ t.joined[c] = s.joined[c]
       /\ t.here[c].bss = None /\ ~t.here[c].fresh
       /\ s.departed[c] <= t.departed[c] /\ t.departed[c] <= went[c]
  <2>1. CASE s.here[c].bss = None
    BY <1>2, <1>4, <1>6, <1>9, <2>1, OwnDisassoc DEF Fits
  <2>2. CASE s.here[c].bss # None
    BY <1>2, <1>4, <1>6, <1>8, <2>2, OwnDisassoc DEF Fits
  <2> QED BY <2>1, <2>2
<1>11. \A x \in Bss : station'[c][x] = "no"
  BY <1>1, <1>6 DEF Fits, TypeInv
<1>12. t.departed[c] \in Nat
  BY <1>2, <1>4, IngestType, IsState
<1>13. Fits(at'[c], station'[c], c \in moving', t.here[c], c \in t.roamed,
            t.joined[c], t.departed[c], came'[c], went'[c], told'[c])
  BY <1>1, <1>6, <1>7, <1>10, <1>11, <1>12 DEF Fits, truth
<1> QED BY <1>2, <1>3, <1>4, <1>5, <1>13, OneClient

LEMMA StepLearn ==
  ASSUME TypeInv, AllInStep, NEW c \in Clients, LearnUplink(c), ~amiss'
  PROVE  AllInStep'
<1> DEFINE e == Line("fdb", c, None)
<1>1. /\ c \in moving /\ moving' = moving \ {c} /\ log' = Append(log, e)
      /\ UNCHANGED <<at, station, daemon, truth, reports>>
  BY DEF LearnUplink
<1>2. e \in Lines /\ e.mac = c /\ e.ev = "fdb"
  BY LineType DEF Line, Places
<1> HIDE DEF e
<1>3. PICK s, t : s = Ahead /\ t = Ahead'
  OBVIOUS
<1>4. s \in States /\ t = Ingest(s, e)
  BY <1>1, <1>2, <1>3, AheadMore, BaseType
<1>5. OthersStay(c)
  BY <1>1 DEF OthersStay, truth
<1>6. /\ s.joined[c] \in Nat /\ s.departed[c] \in Nat
      /\ came[c] \in Nat /\ went[c] \in Nat /\ told[c] \in Nat
      /\ Fits(at[c], station[c], c \in moving, s.here[c], c \in s.roamed,
              s.joined[c], s.departed[c], came[c], went[c], told[c])
  BY <1>3, Local DEF AllInStep
<1>7. CASE s.here[c].bss # None /\ ~s.here[c].fresh
  <2>1. at[c] = None /\ s.departed[c] < went[c]
    BY <1>1, <1>6, <1>7 DEF Fits
  <2>2. /\ t.joined[c] = s.joined[c] /\ t.here[c].bss = None /\ ~t.here[c].fresh
        /\ c \in t.roamed /\ t.departed[c] = s.departed[c] + 1
    BY <1>2, <1>4, <1>7, OwnUplink
  <2>3. Fits(at'[c], station'[c], c \in moving', t.here[c], c \in t.roamed,
             t.joined[c], t.departed[c], came'[c], went'[c], told'[c])
    BY <1>1, <1>6, <2>1, <2>2 DEF Fits, truth
  <2> QED BY <1>2, <1>3, <1>4, <1>5, <2>3, OneClient
<1>8. CASE ~(s.here[c].bss # None /\ ~s.here[c].fresh)
  <2>1. /\ t.joined[c] = s.joined[c] /\ t.here[c] = s.here[c]
        /\ t.departed[c] = s.departed[c] /\ (c \in t.roamed <=> c \in s.roamed)
    BY <1>2, <1>4, <1>8, OwnUplink
  <2>2. Fits(at'[c], station'[c], c \in moving', t.here[c], c \in t.roamed,
             t.joined[c], t.departed[c], came'[c], went'[c], told'[c])
    BY <1>1, <1>6, <2>1 DEF Fits, truth
  <2> QED BY <1>2, <1>3, <1>4, <1>5, <2>2, OneClient
<1> QED BY <1>7, <1>8

LEMMA LinesJoin ==
  ASSUME NEW x \in Seq(Lines), NEW y \in Seq(Lines), NEW z \in Seq(Lines)
  PROVE  (x \o y) \o z = x \o (y \o z)
<1> DEFINE S == Lines
<1> HIDE DEF S
<1>1. x \in Seq(S) /\ y \in Seq(S) /\ z \in Seq(S)
  BY DEF S
<1> QED BY <1>1, ConcatAssociative

LEMMA StepAssociate ==
  ASSUME TypeInv, AllInStep, NEW c \in Clients, NEW b \in Bss, Associate(c, b), ~amiss'
  PROVE  AllInStep'
<1> DEFINE old == Listed(c) \ {b}
           D == {Line("disassoc", c, x) : x \in old}
           lines == <<Line("assoc", c, b)>> \o SetToSeq(D)
           e == Line("assoc", c, b)
<1>1. /\ at' = [at EXCEPT ![c] = b]
      /\ station' = [station EXCEPT ![c] = [x \in Bss |->
                       IF x = b THEN "assoc" ELSE IF x \in old THEN "no" ELSE station[c][x]]]
      /\ Announce(<<e>> \o SetToSeq(D))
      /\ UNCHANGED <<moving, daemon, truth, reports>>
  BY DEF Associate
<1>2. e \in Lines /\ e.mac = c /\ e.ev = "assoc" /\ e.bss = b
  BY LineType DEF Line, Places
<1>3. old \in SUBSET Bss
  BY DEF Listed
<1>4. \A x \in Bss : station'[c][x] = IF x = b THEN "assoc" ELSE "no"
  BY <1>1 DEF TypeInv, Listed
<1>5. PICK s, t : s = Ahead /\ t = Ahead'
  OBVIOUS
<1>6. /\ s \in States /\ s.joined[c] \in Nat /\ s.departed[c] \in Nat
      /\ came[c] \in Nat /\ went[c] \in Nat /\ told[c] \in Nat
      /\ Fits(at[c], station[c], c \in moving, s.here[c], c \in s.roamed,
              s.joined[c], s.departed[c], came[c], went[c], told[c])
  BY <1>5, Local DEF AllInStep
<1>7. \A x, y \in old : x = y
  BY <1>6 DEF Fits, Listed
<1>8. /\ <<e>> \in Seq(Lines) /\ SetToSeq(D) \in Seq(Lines)
      /\ old = {} => SetToSeq(D) = <<>>
      /\ \A x \in Bss : old = {x} => SetToSeq(D) = <<Line("disassoc", c, x)>>
  <2> HIDE DEF old
  <2>1. <<e>> \in Seq(Lines)
    <3> HIDE DEF e
    <3> QED BY <1>2
  <2> QED BY <2>1, <1>3, DropLines
<1> HIDE DEF e, D, old
<1>9. /\ <<e>> \o SetToSeq(D) \in Seq(Lines)
      /\ kept \in Seq(Lines) /\ log \in Seq(Lines) /\ amiss \in BOOLEAN
  BY <1>8, ConcatProperties DEF TypeInv
<1>10. log' = log \o (<<e>> \o SetToSeq(D))
  BY <1>1, <1>9, AnnounceLog
<1>11. Append(log, e) \in Seq(Lines) /\ Append(log, e) = log \o <<e>>
  BY <1>2, <1>9, AppendProperties, AppendIsConcat
<1>12. log' = Append(log, e) \o SetToSeq(D)
  <2>1. PICK p, q : p = <<e>> /\ q = SetToSeq(D)
    OBVIOUS
  <2>2. p \in Seq(Lines) /\ q \in Seq(Lines)
    BY <2>1, <1>8
  <2>3. (log \o p) \o q = log \o (p \o q)
    <3>1. log \in Seq(Lines)
      BY <1>9
    <3> QED BY <2>2, <3>1, LinesJoin
  <2>4. log' = log \o (p \o q) /\ Append(log, e) = log \o p
    BY <2>1, <1>10, <1>11
  <2> QED BY <2>1, <2>3, <2>4
<1> DEFINE u == Ingest(s, e)
<1>13. Base' = Base /\ Base \in States /\ s = Ingested(Base, log)
  BY <1>1, <1>5, SameBase, BaseType DEF Ahead
<1>14. Ingested(Base, Append(log, e)) = u
  BY <1>2, <1>9, <1>13, IngestedMore
<1>15. /\ u \in States /\ u.here[c].bss = b /\ u.here[c].fresh /\ c \notin u.roamed
       /\ u.joined[c] = s.joined[c] /\ u.departed[c] = s.departed[c]
  BY <1>2, <1>6, OwnAssoc, IngestType
<1>16. Elsewhere(s, u, c)
  BY <1>2, <1>6, IngestParts DEF Elsewhere
<1> HIDE DEF u
<1>17. /\ Elsewhere(s, t, c) /\ t.here[c].bss = b /\ t.here[c].fresh /\ c \notin t.roamed
       /\ t.joined[c] = s.joined[c] /\ t.departed[c] = s.departed[c]
  <2>1. CASE old = {}
    <3>1. log' = Append(log, e)
      BY <1>8, <1>11, <1>12, <2>1, ConcatEmptySeq
    <3>2. t = u
      BY <3>1, <1>5, <1>13, <1>14 DEF Ahead
    <3> QED BY <3>2, <1>15, <1>16
  <2>2. CASE old # {}
    <3>1. PICK x \in Bss : old = {x}
      BY <1>3, <1>7, <2>2
    <3> DEFINE d == Line("disassoc", c, x)
    <3>2. d \in Lines /\ d.mac = c /\ d.ev = "disassoc" /\ d.bss = x /\ x # b
      BY <3>1, LineType DEF Line, Places, old
    <3> HIDE DEF d
    <3>3. log' = Append(Append(log, e), d)
      BY <3>1, <3>2, <1>8, <1>11, <1>12, AppendIsConcat DEF d
    <3>4. t = Ingest(u, d)
      BY <3>2, <3>3, <1>5, <1>11, <1>13, <1>14, IngestedMore DEF Ahead
    <3>5. /\ c \notin t.roamed /\ t.joined[c] = u.joined[c]
          /\ t.here[c] = u.here[c] /\ t.departed[c] = u.departed[c]
      BY <3>2, <3>4, <1>15, OwnDisassoc
    <3>6. Elsewhere(u, t, c)
      BY <3>2, <3>4, <1>15, IngestParts DEF Elsewhere
    <3> QED BY <3>5, <3>6, <1>15, <1>16 DEF Elsewhere
  <2> QED BY <2>1, <2>2
<1>18. OthersStay(c)
  BY <1>1 DEF TypeInv, OthersStay, truth
<1>19. at'[c] = b
  BY <1>1 DEF TypeInv
<1>20. /\ station'[c][b] = "assoc" /\ b # None
       /\ \A x, y \in Bss : (station'[c][x] # "no" /\ station'[c][y] # "no") => x = y
  BY <1>4, RoamingAssumption
<1>21. /\ told'[c] <= t.departed[c] /\ t.departed[c] <= went'[c] /\ t.joined[c] <= came'[c]
  BY <1>1, <1>6, <1>17 DEF Fits, truth
<1>22. Fits(at'[c], station'[c], c \in moving', t.here[c], c \in t.roamed,
            t.joined[c], t.departed[c], came'[c], went'[c], told'[c])
  BY <1>17, <1>19, <1>20, <1>21 DEF Fits
<1> QED BY <1>5, <1>17, <1>18, <1>22, OneClientOnly

LEMMA StepPoll ==
  ASSUME TypeInv, AllInStep, Poll(Base), pc' = "wait", UNCHANGED <<air, truth>>
  PROVE  AllInStep'
<1>1. Base \in States /\ kept \in Seq(Lines) /\ log \in Seq(Lines)
  BY BaseType DEF TypeInv
<1>2. Known' = Ingested(Base, log) /\ log' = <<>> /\ Known' \in States
  BY <1>1, PollIs
<1>3. Base' = Known'
  BY DEF Base
<1>4. Ahead' = Ahead
  BY <1>2, <1>3, IngestedNone DEF Ahead
<1>5. PICK s, t : s = Ahead /\ t = Ahead'
  OBVIOUS
<1>6. ASSUME NEW c \in Clients PROVE InStep(c, Ahead)'
  BY <1>4, <1>5, Others DEF AllInStep, air, truth
<1> QED BY <1>6 DEF AllInStep

LEMMA StepBuild ==
  ASSUME TypeInv, Apart(Known), AllInStep, Build, ~amiss'
  PROVE  AllInStep'
<1>1. PICK list \in [Clients -> UNION {Sightings(c) : c \in Clients}] :
        (\A c \in Clients : list[c] \in Sightings(c)) /\ Dump(list)
  BY DEF Build
<1>2. /\ pc = "wait" /\ pc' = "built" /\ obs' = list /\ roamed' = StillAway(list)
      /\ log = <<>> /\ log' = <<>> /\ UNCHANGED <<at, station, moving, here, truth, reports>>
  BY <1>1 DEF Dump, air, TypeInv
<1>3. PICK s, t : s = Ahead /\ t = Ahead'
  OBVIOUS
<1>4. s = Known /\ Known \in States
  BY <1>2, <1>3, IngestedNone DEF Ahead, Base, TypeInv
<1>5. TypeInv'
  BY TypeStep DEF Next
<1>6. t = Compared'
  <2>1. Compared' \in States
    BY <1>5, ComparedTypeNext
  <2>2. Base' = Compared'
    BY <1>2 DEF Base
  <2> QED BY <2>1, <2>2, <1>2, <1>3, IngestedNone DEF Ahead
<1>7. /\ s.here = here /\ s.roamed = roamed /\ s.joined = joined /\ s.departed = departed
  BY <1>4 DEF Known
<1>8. /\ t.here = [c \in Clients |-> Observed(c)'] /\ t.roamed = Away'
      /\ t.joined = joined /\ t.departed = departed
  BY <1>2, <1>6 DEF Compared, reports
<1>9. ASSUME NEW c \in Clients PROVE InStep(c, Ahead)'
  <2>1. /\ at[c] \in Places /\ station[c] \in [Bss -> {"no", "assoc", "ready"}]
        /\ here[c] \in Entries /\ roamed \in SUBSET Clients
        /\ joined[c] \in Nat /\ departed[c] \in Nat
        /\ Fits(at[c], station[c], c \in moving, here[c], c \in roamed,
                joined[c], departed[c], came[c], went[c], told[c])
    BY <1>3, <1>4, <1>7, Local, IsState DEF AllInStep
  <2> DEFINE away == c \in roamed /\ ~list[c].heard
  <2>2. t.here[c] = IF list[c].bss = None \/ away THEN Unknown
                    ELSE [here[c] EXCEPT !.bss = list[c].bss]
    BY <1>2, <1>8 DEF Observed, StillAway
  <2>3. c \in t.roamed <=> away /\ list[c].bss # None
    BY <1>2, <1>8, <2>1 DEF Away, StillAway
  <2>4. list[c] \in Sightings(c)
    BY <1>1
  <2>5. \A k : [here[c] EXCEPT !.bss = k].bss = k /\ ([here[c] EXCEPT !.bss = k].fresh <=> here[c].fresh)
    BY <2>1 DEF Entries
  <2>6. CASE Listed(c) = {}
    <3>1. list[c].bss = None /\ at[c] = None /\ here[c].bss = None
      BY <2>1, <2>4, <2>6 DEF Sightings, Nobody, Listed, Fits, Places, Entries
    <3>2. t.here[c] = Unknown /\ c \notin t.roamed
      BY <2>2, <2>3, <3>1
    <3>3. Fits(at'[c], station'[c], c \in moving', t.here[c], c \in t.roamed,
               t.joined[c], t.departed[c], came'[c], went'[c], told'[c])
      BY <1>2, <1>8, <2>1, <2>6, <3>1, <3>2 DEF Fits, Listed, Unknown, truth
    <3> QED BY <3>3, <1>3, Lift
  <2>7. CASE Listed(c) # {}
    <3>1. list[c].bss \in Listed(c) /\ (list[c].heard => at[c] = list[c].bss)
          /\ list[c].bss \in Bss /\ list[c].bss # None
      BY <2>4, <2>7, RoamingAssumption DEF Sightings, Listed
    <3>2. CASE at[c] # None
      <4>1. list[c].bss = at[c] /\ c \notin roamed /\ here[c].bss = at[c]
        BY <2>1, <3>1, <3>2 DEF Fits, Listed, Places
      <4>2. /\ t.here[c].bss = here[c].bss /\ (t.here[c].fresh <=> here[c].fresh)
            /\ c \notin t.roamed
        BY <2>2, <2>3, <2>5, <3>1, <4>1
      <4>3. Fits(at'[c], station'[c], c \in moving', t.here[c], c \in t.roamed,
                 t.joined[c], t.departed[c], came'[c], went'[c], told'[c])
        BY <1>2, <1>8, <2>1, <3>2, <4>1, <4>2 DEF Fits, truth
      <4> QED BY <4>3, <1>3, Lift
    <3>3. CASE at[c] = None /\ c \in roamed
      <4>1. t.here[c] = Unknown /\ c \in t.roamed
        BY <2>2, <2>3, <3>1, <3>3
      <4>2. Fits(at'[c], station'[c], c \in moving', t.here[c], c \in t.roamed,
                 t.joined[c], t.departed[c], came'[c], went'[c], told'[c])
        BY <1>2, <1>8, <2>1, <3>3, <4>1 DEF Fits, Unknown, truth
      <4> QED BY <4>2, <1>3, Lift
    <3>4. CASE at[c] = None /\ c \notin roamed
      <4>1. here[c].bss # None
        BY <2>1, <3>1, <3>4 DEF Fits, Listed
      <4>2. here[c].bss = list[c].bss
        BY <2>1, <3>1, <3>4, <4>1 DEF Fits, Listed, Entries, Places
      <4>3. /\ t.here[c].bss = here[c].bss /\ (t.here[c].fresh <=> here[c].fresh)
            /\ c \notin t.roamed
        BY <2>2, <2>3, <2>5, <3>1, <3>4, <4>2
      <4>4. Fits(at'[c], station'[c], c \in moving', t.here[c], c \in t.roamed,
                 t.joined[c], t.departed[c], came'[c], went'[c], told'[c])
        BY <1>2, <1>8, <2>1, <3>4, <4>1, <4>3 DEF Fits, truth
      <4> QED BY <4>4, <1>3, Lift
    <3> QED BY <3>2, <3>3, <3>4
  <2> QED BY <2>6, <2>7
<1> QED BY <1>9 DEF AllInStep

-----------------------------------------------------------------------------
(***************************************************************************)
(* The invariant, and what follows from it.                                  *)
(***************************************************************************)
LEMMA RoamInit == Init => RoamInv
<1> SUFFICES ASSUME Init PROVE RoamInv
  OBVIOUS
<1>1. /\ here = [c \in Clients |-> Unknown] /\ roamed = {} /\ joined = Zero /\ departed = Zero
      /\ log = <<>> /\ kept = <<>> /\ pc = "wait" /\ moving = {}
  BY DEF Init
<1>2. Known \in States
  <2>1. \A c \in Clients : Unknown \in Entries
    BY DEF Unknown, Entries, Places
  <2>2. here \in [Clients -> Entries] /\ Zero \in [Clients -> Nat]
    BY <1>1, <2>1 DEF Zero
  <2> QED BY <1>1, <2>2, KnownType
<1>3. log \in Seq(Lines) /\ kept \in Seq(Lines)
  BY <1>1, EmptySeq
<1>4. TypeInv
  BY <1>1, <1>2, <1>3 DEF Init, TypeInv, Nobody, Zero, Places
<1>5. Apart(Known)
  BY <1>1 DEF Apart, Known
<1>6. Ahead = Known
  BY <1>1, <1>2, IngestedNone DEF Ahead, Base
<1>7. Known.here = here /\ Known.roamed = roamed /\ Known.joined = joined
      /\ Known.departed = departed
  BY DEF Known
<1>8. ASSUME NEW c \in Clients PROVE InStep(c, Ahead)
  <2>1. /\ at[c] = None /\ station[c] = [b \in Bss |-> "no"] /\ came[c] = 0 /\ went[c] = 0
        /\ told[c] = 0 /\ joined[c] = 0 /\ departed[c] = 0
        /\ here[c].bss = None /\ ~here[c].fresh /\ c \notin roamed
    BY <1>1 DEF Init, Zero, Unknown
  <2>2. Fits(at[c], station[c], c \in moving, here[c], c \in roamed,
             joined[c], departed[c], came[c], went[c], told[c])
    BY <2>1 DEF Fits
  <2> QED BY <1>6, <1>7, <2>2 DEF InStep
<1> QED BY <1>4, <1>5, <1>8 DEF RoamInv

\* Once something is amiss it stays so.
LEMMA AmissStays ==
  ASSUME TypeInv, Next, ~amiss'
  PROVE  ~amiss
BY DEF TypeInv, Next, Client, Kernel, Associate, Authorize, Rekey, Depart, Vanish, Drop,
       LearnUplink, IdlePoll, Build, Dump, Observe, Restart, Announce

LEMMA RoamStep == RoamInv /\ [Next]_vars => RoamInv'
<1> SUFFICES ASSUME RoamInv, [Next]_vars PROVE RoamInv'
  OBVIOUS
<1>1. TypeInv /\ Apart(Known) /\ (~amiss => AllInStep)
  BY DEF RoamInv, AllInStep
<1>2. CASE UNCHANGED vars
  <2>1. /\ UNCHANGED <<at, station, moving, kept, log, pc, here, roamed, obs>>
        /\ UNCHANGED <<came, went, told, joined, departed, amiss>>
    BY <1>2 DEF vars, air, daemon, truth, reports
  <2>2. Known' = Known /\ Base' = Base
    BY <2>1, SameBase DEF daemon, reports
  <2>3. Ahead' = Ahead
    BY <2>1, <2>2 DEF Ahead
  <2>4. TypeInv' /\ Apart(Known)'
    BY <1>1, <2>1, <2>2 DEF TypeInv, Apart
  <2>5. ASSUME ~amiss', NEW c \in Clients PROVE InStep(c, Ahead)'
    <3>1. PICK s, t : s = Ahead /\ t = Ahead'
      OBVIOUS
    <3>2. InStep(c, Ahead)
      BY <1>1, <2>1, <2>5 DEF AllInStep
    <3> QED BY <2>1, <2>3, <3>1, <3>2, Others
  <2> QED BY <2>4, <2>5 DEF RoamInv
<1>3. CASE Next
  <2>1. TypeInv' /\ Apart(Known)'
    BY <1>1, <1>3, TypeStep
  <2>2. ASSUME ~amiss' PROVE AllInStep'
    <3>1. AllInStep
      BY <1>1, <1>3, <2>2, AmissStays
    <3>2. CASE \E c \in Clients, b \in Bss : Associate(c, b)
      BY <1>1, <2>2, <3>1, <3>2, StepAssociate
    <3>3. CASE \E c \in Clients : Authorize(c)
      BY <1>1, <2>2, <3>1, <3>3, StepAuthorize
    <3>4. CASE \E c \in Clients : Rekey(c)
      BY <1>1, <2>2, <3>1, <3>4, StepRekey
    <3>5. CASE \E c \in Clients : Depart(c)
      BY <1>1, <2>2, <3>1, <3>5, StepDepart
    <3>6. CASE \E c \in Clients : Vanish(c)
      BY <1>1, <2>2, <3>1, <3>6, StepVanish
    <3>7. CASE \E c \in Clients, b \in Bss : Drop(c, b)
      BY <1>1, <2>2, <3>1, <3>7, StepDrop
    <3>8. CASE \E c \in Clients : LearnUplink(c)
      BY <1>1, <2>2, <3>1, <3>8, StepLearn
    <3>9. CASE IdlePoll
      <4>1. pc = "wait" /\ Poll(Known) /\ pc' = "wait" /\ UNCHANGED <<air, truth>>
        BY <3>9 DEF IdlePoll
      <4>2. Poll(Base)
        BY <4>1 DEF Base
      <4> QED BY <1>1, <3>1, <4>1, <4>2, StepPoll
    <3>10. CASE Build
      BY <1>1, <2>2, <3>1, <3>10, StepBuild
    <3>11. CASE Observe
      <4>1. pc = "built" /\ Poll(Compared) /\ pc' = "wait" /\ UNCHANGED <<air, truth>>
        BY <3>11 DEF Observe
      <4>2. Poll(Base)
        BY <4>1 DEF Base
      <4> QED BY <1>1, <3>1, <4>1, <4>2, StepPoll
    <3>12. CASE Restart
      BY <2>2, <3>12 DEF Restart
    <3> QED BY <1>3, <3>2, <3>3, <3>4, <3>5, <3>6, <3>7, <3>8, <3>9, <3>10, <3>11, <3>12
            DEF Next, Client, Kernel
  <2> QED BY <2>1, <2>2 DEF RoamInv, AllInStep
<1> QED BY <1>2, <1>3

LEMMA Invariant == Spec => []RoamInv
BY RoamInit, RoamStep, PTL DEF Spec

\* What the daemon will report once the log is read is no less than what it has
\* reported, and no more for a client the log does not name.
LEMMA AheadReports ==
  ASSUME RoamInv, NEW c \in Clients
  PROVE  /\ joined[c] \in Nat /\ departed[c] \in Nat
         /\ joined[c] <= Ahead.joined[c] /\ departed[c] <= Ahead.departed[c]
         /\ Settled(c) => Ahead.departed[c] = departed[c]
<1>1. TypeInv
  BY DEF RoamInv
<1>2. Base \in States /\ log \in Seq(Lines)
      /\ joined \in [Clients -> Nat] /\ departed \in [Clients -> Nat]
  BY <1>1, BaseType, KnownType DEF TypeInv
<1>3. Base.joined = joined /\ Base.departed = departed
  BY DEF Base, Known, Compared
<1>4. /\ Base.joined[c] <= Ahead.joined[c] /\ Base.departed[c] <= Ahead.departed[c]
      /\ (\A i \in 1..Len(log) : log[i].mac # c) => Ahead.departed[c] = Base.departed[c]
  BY <1>2, IngestedType DEF Ahead
<1>5. Settled(c) => \A i \in 1..Len(log) : log[i].mac # c
  BY <1>2, LenProperties DEF Settled
<1> QED BY <1>2, <1>3, <1>4, <1>5

\* No departure is reported that did not happen, and none twice, and no arrival
\* either: whatever the clients, the collector's ring and the heartbeats do, until a
\* line is lost, read twice or still unread when the stations are listed (roam_ingest).
THEOREM ReportsAreTrue == Spec => []ReportsHappened
<1>1. RoamInv => ReportsHappened
  <2> SUFFICES ASSUME RoamInv, ~amiss, NEW c \in Clients
               PROVE  departed[c] <= went[c] /\ joined[c] <= came[c]
    BY DEF ReportsHappened
  <2>1. PICK s : s = Ahead
    OBVIOUS
  <2>2. /\ joined[c] \in Nat /\ departed[c] \in Nat
        /\ joined[c] <= s.joined[c] /\ departed[c] <= s.departed[c]
    BY <2>1, AheadReports
  <2>3. /\ s.departed[c] \in Nat /\ s.joined[c] \in Nat /\ came[c] \in Nat /\ went[c] \in Nat
        /\ s.departed[c] <= went[c] /\ s.joined[c] <= came[c]
    BY <2>1, Local DEF RoamInv, Fits
  <2> QED BY <2>2, <2>3
<1> QED BY <1>1, Invariant, PTL

\* Each departure that a client announced is reported once its lines are read.
THEOREM WordsAreReported == Spec => []AnnouncedReported
<1>1. RoamInv => AnnouncedReported
  <2> SUFFICES ASSUME RoamInv, ~amiss, NEW c \in Clients, Settled(c)
               PROVE  departed[c] >= told[c]
    BY DEF AnnouncedReported
  <2>1. PICK s : s = Ahead
    OBVIOUS
  <2>2. departed[c] \in Nat /\ s.departed[c] = departed[c]
    BY <2>1, AheadReports
  <2>3. told[c] \in Nat /\ told[c] <= s.departed[c]
    BY <2>1, Local DEF RoamInv, Fits
  <2> QED BY <2>2, <2>3
<1> QED BY <1>1, Invariant, PTL

\* A client that is marked as behind another AP is never known here as well, whatever
\* lines were lost or read twice.
THEOREM AwayApart == Spec => []AwayIsNotHere
<1>1. RoamInv => AwayIsNotHere
  BY DEF RoamInv, Apart, Known, AwayIsNotHere
<1> QED BY <1>1, Invariant, PTL

\* Between two heartbeats, with every line read: who is here is known where it is and
\* not marked as away, and of who is gone nothing is known once hostapd has dropped it.
\* It is what StayerIsKnown and GoneIsForgotten come to, at the moments when no line
\* was lost, read twice or left unread when the stations were listed.
InTouch ==
  ~amiss /\ pc = "wait" /\ log = <<>> =>
    \A c \in Clients :
      /\ at[c] # None => here[c].bss = at[c] /\ c \notin roamed
      /\ (at[c] = None /\ Listed(c) = {}) => here[c].bss = None

\* In whatever order the events and the lists of stations came in, the daemon knows who
\* is here and who is gone, once it has read the log (roam_ingest, roam_observe).
THEOREM WhoIsHereIsKnown == Spec => []InTouch
<1>1. RoamInv => InTouch
  <2> SUFFICES ASSUME RoamInv, ~amiss, pc = "wait", log = <<>>, NEW c \in Clients
               PROVE  /\ at[c] # None => here[c].bss = at[c] /\ c \notin roamed
                      /\ (at[c] = None /\ Listed(c) = {}) => here[c].bss = None
    BY DEF InTouch
  <2>1. TypeInv /\ InStep(c, Ahead)
    BY DEF RoamInv
  <2>2. Known \in States
    BY <2>1 DEF TypeInv
  <2>3. Ahead = Known
    BY <2>2, IngestedNone DEF Ahead, Base
  <2>4. Known.here = here /\ Known.roamed = roamed
    BY DEF Known
  <2>5. PICK h, l : h = here[c] /\ l = station[c]
    OBVIOUS
  <2>6. /\ at[c] # None => h.bss = at[c] /\ c \notin roamed
        /\ (at[c] = None /\ h.bss # None) => l[h.bss] # "no"
    BY <2>1, <2>3, <2>4, <2>5 DEF InStep, Fits
  <2>7. h.bss \in Bss \cup {None}
    BY <2>2, <2>5, KnownType DEF Entries, Places
  <2>8. \A b \in Bss : l[b] # "no" => b \in Listed(c)
    BY <2>5 DEF Listed
  <2> QED BY <2>5, <2>6, <2>7, <2>8
<1> QED BY <1>1, Invariant, PTL
=============================================================================
