---------------------------- MODULE LogViewProofs ----------------------------
(***************************************************************************)
(* The rows of a log page are the log, their counts are theirs and their       *)
(* chunks fit, for any log, any filters and any size of a chunk; a poll that     *)
(* drops the oldest lines builds the new ones only; and a row that waits for     *)
(* its level has a read to wait for.                                         *)
(***************************************************************************)
EXTENDS LogView, FiniteSetTheorems, FunctionTheorems, SequenceTheorems,
        WellFoundedInduction, TLAPS

-----------------------------------------------------------------------------
(***************************************************************************)
(* Induction over the naturals for sets, and what recursive functions on an  *)
(* initial segment are: they exist, and two with the same steps are equal.     *)
(***************************************************************************)
\* A set of naturals has a least element.
LEMMA NatMin ==
  ASSUME NEW T, T \subseteq Nat, T # {}
  PROVE  \E x \in T : \A y \in T : x <= y
<1> DEFINE R == {ss \in Nat \X Nat : ss[1] < ss[2]}
<1>1. IsWellFoundedOn(R, Nat)
  BY NatLessThanWellFounded DEF OpToRel
<1> HIDE DEF R
<1>2. PICK x \in T : \A y \in T : ~(<<y, x>> \in R)
  BY <1>1, WFMin
<1>3. ASSUME NEW y \in T PROVE x <= y
  <2>1. <<y, x>> \in Nat \X Nat /\ <<y, x>>[1] = y /\ <<y, x>>[2] = x
    OBVIOUS
  <2>2. ~(y < x)
    BY <1>2, <2>1 DEF R
  <2> QED BY <2>2
<1> QED BY <1>3

\* What holds of 0 and is passed on holds of every natural.
LEMMA SetInduction ==
  ASSUME NEW S, 0 \in S, \A n \in Nat : n \in S => n + 1 \in S
  PROVE  Nat \subseteq S
<1> SUFFICES ASSUME NEW m \in Nat, m \notin S PROVE FALSE
  OBVIOUS
<1> DEFINE T == {n \in Nat : n \notin S}
<1>1. PICK x \in T : \A y \in T : x <= y
  BY NatMin
<1>2. x # 0 /\ x \in Nat
  OBVIOUS
<1>3. x - 1 \in S /\ x - 1 \in Nat
  BY <1>1, <1>2
<1> QED BY <1>2, <1>3

\* The same, up to n.
LEMMA UpTo ==
  ASSUME NEW n \in Nat, NEW S, 0 \in S, \A i \in 1..n : i - 1 \in S => i \in S
  PROVE  0..n \subseteq S
<1> DEFINE T == {i \in Nat : i <= n => i \in S}
<1>1. 0 \in T
  OBVIOUS
<1>2. ASSUME NEW i \in Nat, i \in T PROVE i + 1 \in T
  <2>1. i + 1 <= n => (i + 1 \in 1..n /\ (i + 1) - 1 = i /\ i \in S)
    BY <1>2
  <2> QED BY <2>1
<1>3. Nat \subseteq T
  <2> HIDE DEF T
  <2> QED BY <1>1, <1>2, SetInduction
<1> QED BY <1>3

\* Two functions that take the same steps from the same value agree.
Alike(f, g, n) == f[0] = g[0] /\ \A i \in 1..n : f[i - 1] = g[i - 1] => f[i] = g[i]

LEMMA SameSteps ==
  ASSUME NEW n \in Nat, NEW f, NEW g, Alike(f, g, n)
  PROVE  \A i \in 0..n : f[i] = g[i]
<1> USE DEF Alike
<1> DEFINE S == {i \in 0..n : f[i] = g[i]}
<1>1. 0 \in S
  OBVIOUS
<1>2. ASSUME NEW i \in 1..n, i - 1 \in S PROVE i \in S
  BY <1>2
<1>3. 0..n \subseteq S
  <2> HIDE DEF S
  <2> QED BY <1>1, <1>2, UpTo
<1> QED BY <1>3

\* f starts at s and goes on by the steps of G.
StepsOf(n, S) == [S \X (1..n) -> S]
Follows(f, G, s, n, S) ==
  f \in [0..n -> S] /\ f[0] = s /\ \A i \in 1..n : f[i] = G[<<f[i - 1], i>>]

LEMMA StepsExist ==
  ASSUME NEW S, NEW s, NEW n, NEW G, s \in S, n \in Nat, G \in StepsOf(n, S)
  PROVE  \E f : Follows(f, G, s, n, S)
<1> DEFINE T == {k \in 0..n : \E f : Follows(f, G, s, k, S)}
<1>1. 0 \in T
  <2>1. Follows([i \in 0..0 |-> s], G, s, 0, S)
    BY DEF Follows
  <2> QED BY <2>1
<1>2. ASSUME NEW k \in 1..n, k - 1 \in T PROVE k \in T
  <2>1. PICK f : Follows(f, G, s, k - 1, S)
    BY <1>2
  <2> DEFINE g == [i \in 0..k |-> IF i = k THEN G[<<f[k - 1], k>>] ELSE f[i]]
  <2>2. k - 1 \in 0..(k - 1) /\ f[k - 1] \in S /\ <<f[k - 1], k>> \in S \X (1..n)
    BY <2>1 DEF Follows
  <2>3. g \in [0..k -> S]
    BY <2>1, <2>2 DEF Follows, StepsOf
  <2>4. g[0] = s
    BY <2>1 DEF Follows
  <2>5. ASSUME NEW i \in 1..k PROVE g[i] = G[<<g[i - 1], i>>]
    <3>1. CASE i = k
      <4>1. g[k] = G[<<f[k - 1], k>>] /\ g[k - 1] = f[k - 1]
        OBVIOUS
      <4> QED BY <3>1, <4>1
    <3>2. CASE i # k
      <4>1. i \in 1..(k - 1) /\ g[i] = f[i] /\ g[i - 1] = f[i - 1]
        BY <3>2
      <4> QED BY <4>1, <2>1 DEF Follows
    <3> QED BY <3>1, <3>2
  <2> HIDE DEF g
  <2>6. Follows(g, G, s, k, S)
    BY <2>3, <2>4, <2>5 DEF Follows
  <2> QED BY <2>6
<1>3. 0..n \subseteq T
  <2> HIDE DEF T
  <2> QED BY <1>1, <1>2, UpTo
<1> QED BY <1>3

-----------------------------------------------------------------------------
(***************************************************************************)
(* Sequences put end to end.                                                *)
(***************************************************************************)
Join(a, b) == a \o b

\* Putting nothing before or after a sequence leaves it; what is put together is a
\* sequence.
LEMMA JoinFacts ==
  ASSUME NEW T, NEW a \in Seq(T)
  PROVE  /\ <<>> \in Seq(T) /\ Join(<<>>, a) = a /\ Join(a, <<>>) = a
         /\ \A b \in Seq(T) : Join(a, b) \in Seq(T)
BY EmptySeq, ConcatEmptySeq, ConcatProperties DEF Join

\* In threes, it does not matter which two are put together first.
LEMMA JoinAssoc ==
  ASSUME NEW T, NEW a \in Seq(T), NEW b \in Seq(T), NEW c \in Seq(T)
  PROVE  Join(Join(a, b), c) = Join(a, Join(b, c))
BY ConcatAssociative DEF Join

\* What n sequences are put together to, one after the other.
Glued(f, p, n) == f[0] = <<>> /\ \A i \in 1..n : f[i] = Join(f[i - 1], p[i])

\* There is such a function, for any n sequences.
LEMMA GlueExists ==
  ASSUME NEW S, NEW n \in Nat, NEW p \in [1..n -> S],
         <<>> \in S, \A a, b \in S : Join(a, b) \in S
  PROVE  \E f \in [0..n -> S] : Glued(f, p, n)
<1> DEFINE G == [q \in S \X (1..n) |-> Join(q[1], p[q[2]])]
<1>1. G \in StepsOf(n, S)
  BY DEF StepsOf
<1>2. \A x \in S, i \in 1..n : G[<<x, i>>] = Join(x, p[i])
  OBVIOUS
<1> HIDE DEF G
<1>3. PICK f : Follows(f, G, <<>>, n, S)
  BY <1>1, StepsExist
<1>4. f \in [0..n -> S] /\ f[0] = <<>> /\ \A i \in 1..n : f[i] = G[<<f[i - 1], i>>]
  BY <1>3 DEF Follows
<1>5. ASSUME NEW i \in 1..n PROVE f[i] = Join(f[i - 1], p[i])
  <2>1. f[i - 1] \in S
    BY <1>4
  <2> QED BY <1>2, <1>4, <2>1
<1> QED BY <1>4, <1>5 DEF Glued

\* The recursion of FlattenSeq comes to that.
Flatten(p, n) == CHOOSE h : h = [i \in 1..n |-> IF i = 1 THEN p[i] ELSE Join(h[i - 1], p[i])]

LEMMA FlatGlue ==
  ASSUME NEW S, NEW n \in Nat, NEW p \in [1..n -> S], NEW f \in [0..n -> S], Glued(f, p, n),
         \A a \in S : Join(<<>>, a) = a, n # 0
  PROVE  Flatten(p, n)[n] = f[n]
<1> DEFINE R(h) == [i \in 1..n |-> IF i = 1 THEN p[i] ELSE Join(h[i - 1], p[i])]
           g == Flatten(p, n)
           k == [i \in 1..n |-> f[i]]
           g0 == [i \in 0..n |-> IF i = 0 THEN <<>> ELSE g[i]]
<1>0. f[1] = p[1]
  <2>1. 1 \in 1..n /\ f[1] = Join(f[1 - 1], p[1]) /\ f[0] = <<>> /\ p[1] \in S
    BY DEF Glued
  <2> QED BY <2>1
<1>1. k = R(k)
  <2>1. ASSUME NEW i \in 1..n PROVE k[i] = R(k)[i]
    <3>1. CASE i = 1
      BY <1>0, <3>1
    <3>2. CASE i # 1
      <4>1. i - 1 \in 1..n /\ f[i] = Join(f[i - 1], p[i])
        BY <3>2 DEF Glued
      <4> QED BY <3>2, <4>1
    <3> QED BY <3>1, <3>2
  <2> QED BY <2>1
<1>2. g = R(g)
  <2>1. g = CHOOSE h : h = R(h)
    BY DEF Flatten
  <2> HIDE DEF R, k, g
  <2> QED BY <1>1, <2>1
<1>3. g[1] = p[1] /\ \A i \in 1..n : i # 1 => g[i] = Join(g[i - 1], p[i])
  <2>1. 1 \in 1..n
    OBVIOUS
  <2>2. \A i \in 1..n : g[i] = IF i = 1 THEN p[i] ELSE Join(g[i - 1], p[i])
    <3> HIDE DEF g
    <3> QED BY <1>2
  <2> QED BY <2>1, <2>2
<1>4. g0[0] = <<>> /\ \A i \in 1..n : g0[i] = g[i]
  OBVIOUS
<1> HIDE DEF g0, R, k, g
<1>5. ASSUME NEW i \in 1..n, f[i - 1] = g0[i - 1] PROVE f[i] = g0[i]
  <2>1. CASE i = 1
    BY <1>0, <1>3, <1>4, <2>1
  <2>2. CASE i # 1
    <3>1. i - 1 \in 1..n /\ f[i] = Join(f[i - 1], p[i])
      BY <2>2 DEF Glued
    <3> QED BY <1>3, <1>4, <1>5, <2>2, <3>1
  <2> QED BY <2>1, <2>2
<1>6. Alike(f, g0, n)
  BY <1>4, <1>5 DEF Alike, Glued
<1>7. f[n] = g0[n] /\ n \in 1..n
  BY <1>6, SameSteps
<1> QED BY <1>4, <1>7

\* What has been put together of ss after each of its sequences.
Parts(f, ss, T) == f \in [0..Len(ss) -> Seq(T)] /\ Glued(f, ss, Len(ss)) /\ FlattenSeq(ss) = f[Len(ss)]

\* FlattenSeq is what putting the sequences together one by one comes to.
LEMMA FlatIs ==
  ASSUME NEW T, NEW ss \in Seq(Seq(T))
  PROVE  \E f : Parts(f, ss, T)
<1> DEFINE n == Len(ss)
<1>1. n \in Nat /\ ss \in [1..n -> Seq(T)]
  BY LenProperties
<1>2. <<>> \in Seq(T) /\ \A a, b \in Seq(T) : Join(a, b) \in Seq(T) /\ Join(<<>>, a) = a
  BY JoinFacts, EmptySeq
<1> HIDE DEF n
<1>3. PICK f \in [0..n -> Seq(T)] : Glued(f, ss, n)
  BY <1>1, <1>2, GlueExists
<1>4. CASE n = 0
  <2>1. ss = <<>> /\ FlattenSeq(ss) = ss
    BY <1>4, EmptySeq DEF n, FlattenSeq
  <2>2. FlattenSeq(ss) = f[n]
    BY <1>3, <1>4, <2>1 DEF Glued
  <2> QED BY <1>3, <2>2 DEF n, Parts
<1>5. CASE n # 0
  <2>1. FlattenSeq(ss) = Flatten(ss, n)[n]
    BY <1>1, <1>5 DEF FlattenSeq, n, Join, Flatten
  <2>2. Flatten(ss, n)[n] = f[n]
    BY <1>1, <1>2, <1>3, <1>5, FlatGlue
  <2> QED BY <1>3, <2>1, <2>2 DEF n, Parts
<1> QED BY <1>4, <1>5

\* What takes the same steps is what they come to.
LEMMA FlatBy ==
  ASSUME NEW T, NEW ss \in Seq(Seq(T)), NEW g, Glued(g, ss, Len(ss))
  PROVE  FlattenSeq(ss) = g[Len(ss)]
<1> DEFINE n == Len(ss)
<1>1. n \in Nat
  BY LenProperties
<1>2. PICK f : Parts(f, ss, T)
  BY FlatIs
<1>3. f[0] = g[0] /\ \A i \in 1..n : f[i] = Join(f[i - 1], ss[i]) /\ g[i] = Join(g[i - 1], ss[i])
  BY <1>2 DEF Parts, Glued
<1> HIDE DEF n
<1>4. Alike(f, g, n)
  BY <1>3 DEF Alike
<1>5. f[n] = g[n]
  BY <1>1, <1>4, SameSteps
<1> QED BY <1>2, <1>5 DEF n, Parts

\* The elements are of the sequences' type.
LEMMA FlatType ==
  ASSUME NEW T, NEW ss \in Seq(Seq(T))
  PROVE  FlattenSeq(ss) \in Seq(T)
<1> DEFINE n == Len(ss)
<1>1. n \in 0..n
  BY LenProperties
<1>2. PICK f : Parts(f, ss, T)
  BY FlatIs
<1>3. f \in [0..n -> Seq(T)] /\ FlattenSeq(ss) = f[n]
  BY <1>2 DEF Parts
<1> HIDE DEF n
<1> QED BY <1>1, <1>3

\* Nothing put together is nothing.
LEMMA FlatEmpty == FlattenSeq(<<>>) = <<>>
BY DEF FlattenSeq

\* Up to each place, what has been put together is the flat form of what is there so far.
LEMMA FlatPrefix ==
  ASSUME NEW T, NEW ss \in Seq(Seq(T)), NEW f, Parts(f, ss, T), NEW k \in 0..Len(ss)
  PROVE  FlattenSeq(SubSeq(ss, 1, k)) = f[k]
<1> DEFINE n == Len(ss)
           sub == SubSeq(ss, 1, k)
<1>1. n \in Nat /\ \A i \in 1..n : ss[i] \in Seq(T)
  BY LenProperties
<1>2. k \in 0..n /\ f[0] = <<>> /\ \A i \in 1..n : f[i] = Join(f[i - 1], ss[i])
  BY DEF Parts, Glued
<1>3. sub \in Seq(Seq(T)) /\ Len(sub) = k /\ \A i \in 1..k : sub[i] = ss[i]
  <2>1. k \in Int /\ 1 \in Int /\ \A i \in 1..k : ss[i] \in Seq(T)
    BY <1>1, <1>2
  <2>2. /\ sub \in Seq(Seq(T))
        /\ Len(sub) = IF 1 <= k THEN k - 1 + 1 ELSE 0
        /\ \A i \in 1..(k - 1 + 1) : sub[i] = ss[1 + i - 1]
    BY <2>1, SubSeqProperties
  <2> HIDE DEF n, sub
  <2> QED BY <1>1, <1>2, <2>2
<1> HIDE DEF n, sub
<1>4. Glued(f, sub, Len(sub))
  <2>1. \A i \in 1..k : i \in 1..n
    BY <1>1, <1>2
  <2>2. \A i \in 1..k : f[i] = Join(f[i - 1], sub[i])
    BY <1>2, <1>3, <2>1
  <2> QED BY <1>2, <1>3, <2>2 DEF Glued
<1>5. FlattenSeq(sub) = f[Len(sub)]
  BY <1>3, <1>4, FlatBy
<1> QED BY <1>3, <1>5 DEF sub

\* Each place adds its sequence to what was there.
LEMMA FlatAppend ==
  ASSUME NEW T, NEW ss \in Seq(Seq(T)), NEW f, Parts(f, ss, T), NEW k \in 1..Len(ss)
  PROVE  /\ f[k] = Join(f[k - 1], ss[k]) /\ f[0] = <<>>
         /\ f[k] \in Seq(T) /\ f[k - 1] \in Seq(T) /\ ss[k] \in Seq(T)
<1> DEFINE n == Len(ss)
<1>1. n \in Nat /\ \A i \in 1..n : ss[i] \in Seq(T)
  BY LenProperties
<1>2. k \in 1..n /\ f \in [0..n -> Seq(T)] /\ f[0] = <<>> /\ \A i \in 1..n : f[i] = Join(f[i - 1], ss[i])
  BY DEF Parts, Glued
<1> HIDE DEF n
<1> QED BY <1>1, <1>2

\* Two sequences of sequences are put together one after the other.
LEMMA FlatConcat ==
  ASSUME NEW T, NEW a \in Seq(Seq(T)), NEW b \in Seq(Seq(T))
  PROVE  FlattenSeq(a \o b) = Join(FlattenSeq(a), FlattenSeq(b))
<1> DEFINE m == Len(a)
           n == Len(b)
           ab == a \o b
<1>1. PICK fa : Parts(fa, a, T)
  BY FlatIs
<1>2. PICK fb : Parts(fb, b, T)
  BY FlatIs
<1>3. /\ m \in Nat /\ n \in Nat /\ ab \in Seq(Seq(T)) /\ Len(ab) = m + n
      /\ \A i \in 1..(m + n) : ab[i] = IF i <= m THEN a[i] ELSE b[i - m]
      /\ \A i \in 1..n : b[i] \in Seq(T)
  BY LenProperties, ConcatProperties
<1>4. /\ fa \in [0..m -> Seq(T)] /\ fa[0] = <<>> /\ \A i \in 1..m : fa[i] = Join(fa[i - 1], a[i])
      /\ fb \in [0..n -> Seq(T)] /\ fb[0] = <<>> /\ \A i \in 1..n : fb[i] = Join(fb[i - 1], b[i])
      /\ FlattenSeq(a) = fa[m] /\ FlattenSeq(b) = fb[n]
  BY <1>1, <1>2 DEF Parts, Glued
<1> HIDE DEF m, n, ab
<1> DEFINE g == [i \in 0..(m + n) |-> IF i <= m THEN fa[i] ELSE Join(fa[m], fb[i - m])]
<1>5. fa[m] \in Seq(T) /\ g[0] = <<>>
  <2>1. m \in 0..m /\ 0 \in 0..(m + n) /\ 0 <= m
    BY <1>3
  <2>2. g[0] = fa[0]
    BY <2>1
  <2> HIDE DEF g
  <2> QED BY <1>4, <2>1, <2>2
<1>6. \A i \in 1..n : fb[i - 1] \in Seq(T) /\ b[i] \in Seq(T)
  <2>1. fb \in [0..n -> Seq(T)] /\ \A i \in 1..n : b[i] \in Seq(T)
    BY <1>3, <1>4
  <2>2. \A i \in 1..n : i - 1 \in 0..n
    BY <1>3
  <2> QED BY <2>1, <2>2
<1>7. \A i \in 0..n : g[m + i] = Join(fa[m], fb[i])
  <2>1. Join(fa[m], <<>>) = fa[m]
    BY <1>5, JoinFacts
  <2>2. ASSUME NEW i \in 0..n PROVE g[m + i] = Join(fa[m], fb[i])
    <3>1. m + i \in 0..(m + n) /\ (m + i) - m = i /\ (m + i <= m => i = 0)
      BY <1>3
    <3>2. g[m + i] = IF m + i <= m THEN fa[m + i] ELSE Join(fa[m], fb[i])
      BY <3>1
    <3>3. m + 0 = m /\ fb[0] = <<>>
      BY <1>3, <1>4
    <3> HIDE DEF g
    <3> QED BY <2>1, <3>1, <3>2, <3>3
  <2> QED BY <2>2
<1>8. ASSUME NEW i \in 1..(m + n) PROVE g[i] = Join(g[i - 1], ab[i])
  <2>1. CASE i <= m
    <3>1. i \in 0..(m + n) /\ i - 1 \in 0..(m + n) /\ i - 1 <= m /\ i \in 1..m
      BY <1>3, <2>1
    <3>2. g[i] = fa[i] /\ g[i - 1] = fa[i - 1]
      BY <2>1, <3>1
    <3> HIDE DEF g
    <3> QED BY <1>3, <1>4, <2>1, <3>1, <3>2
  <2>2. CASE i > m
    <3>1. PICK d \in 1..n : i = m + d
      <4>1. m \in Nat /\ n \in Nat /\ i \in 1..(m + n) /\ i > m
        BY <1>3, <2>2
      <4>2. i - m \in 1..n /\ i = m + (i - m)
        BY <4>1
      <4> QED BY <4>2
    <3>2. g[i] = Join(fa[m], fb[d]) /\ g[i - 1] = Join(fa[m], fb[d - 1]) /\ ab[i] = b[d]
      <4>1. d \in 0..n /\ d - 1 \in 0..n /\ i - 1 = m + (d - 1) /\ i - m = d /\ ~(i <= m)
        <5>1. m \in Nat /\ n \in Nat /\ d \in 1..n /\ i = m + d
          BY <1>3, <3>1
        <5> QED BY <5>1
      <4> HIDE DEF g
      <4> QED BY <1>3, <1>7, <3>1, <4>1
    <3>3. fb[d] = Join(fb[d - 1], b[d])
      BY <1>4
    <3> HIDE DEF g
    <3>4. Join(Join(fa[m], fb[d - 1]), b[d]) = Join(fa[m], Join(fb[d - 1], b[d]))
      <4>1. fa[m] \in Seq(T) /\ fb[d - 1] \in Seq(T) /\ b[d] \in Seq(T)
        BY <1>5, <1>6
      <4> QED BY <4>1, JoinAssoc
    <3> QED BY <3>2, <3>3, <3>4
  <2> QED BY <1>3, <2>1, <2>2
<1> HIDE DEF g
<1>9. Glued(g, ab, Len(ab))
  BY <1>3, <1>5, <1>8 DEF Glued
<1>10. FlattenSeq(ab) = g[m + n]
  BY <1>3, <1>9, FlatBy
<1>11. n \in 0..n
  BY <1>3
<1> QED BY <1>4, <1>7, <1>10, <1>11 DEF ab

\* One sequence is put together to itself.
LEMMA FlatOne ==
  ASSUME NEW T, NEW s \in Seq(T)
  PROVE  FlattenSeq(<<s>>) = s
<1>1. <<s>> \in Seq(Seq(T)) /\ Len(<<s>>) = 1 /\ <<s>>[1] = s
  OBVIOUS
<1> DEFINE ss == <<s>>
<1> HIDE DEF ss
<1>2. PICK f : Parts(f, ss, T)
  BY <1>1, FlatIs DEF ss
<1>3. f[1] = Join(f[1 - 1], s) /\ f[0] = <<>> /\ FlattenSeq(ss) = f[1]
  BY <1>1, <1>2 DEF Parts, Glued, ss
<1> QED BY <1>3, JoinFacts DEF ss

\* Twice flat is flat of each and then of all.
LEMMA FlatOfFlat ==
  ASSUME NEW T, NEW ss \in Seq(Seq(Seq(T)))
  PROVE  FlattenSeq(FlattenSeq(ss)) = FlattenSeq([i \in DOMAIN ss |-> FlattenSeq(ss[i])])
<1> DEFINE n == Len(ss)
           each == [i \in 1..n |-> FlattenSeq(ss[i])]
<1>1. PICK f : Parts(f, ss, Seq(T))
  BY FlatIs
<1>2. n \in Nat /\ DOMAIN ss = 1..n /\ \A i \in 1..n : ss[i] \in Seq(Seq(T))
  BY LenProperties
<1>3. each \in Seq(Seq(T)) /\ Len(each) = n
  <2>1. \A i \in 1..n : FlattenSeq(ss[i]) \in Seq(T)
    BY <1>2, FlatType
  <2> QED BY <1>2, <2>1, IsASeq
<1>4. ASSUME NEW i \in 1..n
      PROVE  f[i] = f[i - 1] \o ss[i] /\ f[i - 1] \in Seq(Seq(T)) /\ each[i] = FlattenSeq(ss[i])
  <2>1. ss \in Seq(Seq(Seq(T))) /\ i \in 1..Len(ss)
    OBVIOUS
  <2>2. f[i] = Join(f[i - 1], ss[i]) /\ f[i - 1] \in Seq(Seq(T))
    BY <1>1, <2>1, FlatAppend
  <2>3. each[i] = FlattenSeq(ss[i])
    OBVIOUS
  <2> QED BY <2>2, <2>3 DEF Join
<1>5. f[0] = <<>> /\ FlattenSeq(ss) = f[n]
  BY <1>1 DEF Parts, Glued
<1> HIDE DEF n, each
<1> DEFINE g == [i \in 0..n |-> FlattenSeq(f[i])]
<1>6. g[0] = <<>>
  BY <1>2, <1>5, FlatEmpty
<1>7. ASSUME NEW i \in 1..n PROVE g[i] = Join(g[i - 1], each[i])
  <2>1. FlattenSeq(f[i - 1] \o ss[i]) = Join(FlattenSeq(f[i - 1]), FlattenSeq(ss[i]))
    BY <1>2, <1>4, FlatConcat
  <2>2. g[i] = FlattenSeq(f[i]) /\ g[i - 1] = FlattenSeq(f[i - 1])
    BY <1>2
  <2> HIDE DEF g
  <2> QED BY <1>4, <2>1, <2>2
<1>8. g[n] = FlattenSeq(FlattenSeq(ss))
  BY <1>2, <1>5
<1> HIDE DEF g
<1>9. FlattenSeq(each) = g[n]
  <2>1. Glued(g, each, Len(each))
    BY <1>3, <1>6, <1>7 DEF Glued
  <2> QED BY <1>3, <2>1, FlatBy
<1> QED BY <1>2, <1>8, <1>9 DEF each

-----------------------------------------------------------------------------
(***************************************************************************)
(* Chunks.                                                                  *)
(***************************************************************************)
\* The lesser of two, for Cut and Filled.
LEMMA MinOfTwo ==
  ASSUME NEW a \in Int, NEW b \in Int
  PROVE  Min({a, b}) = IF a <= b THEN a ELSE b
<1>1. \E x \in {a, b} : \A y \in {a, b} : x <= y
  OBVIOUS
<1>2. Min({a, b}) \in {a, b} /\ \A y \in {a, b} : Min({a, b}) <= y
  BY <1>1 DEF Min
<1> QED BY <1>2

\* What the division of append and settle comes to: the last chunk begins before
\* the end and none is missing.
LEMMA Ceiling ==
  ASSUME NEW n \in Nat, NEW C \in Nat \ {0}, NEW m, m = (n + C - 1) \div C
  PROVE  m \in Nat /\ m * C >= n /\ \A k \in 1..m : (k - 1) * C \in Nat /\ (k - 1) * C < n
<1> DEFINE x == n + C - 1
<1>1. x \in Nat /\ x = C * (x \div C) + (x % C) /\ x % C \in 0..(C - 1) /\ x \div C \in Nat
  OBVIOUS
<1>2. m \in Nat /\ m * C <= x /\ x < m * C + C
  BY <1>1
<1>3. ASSUME NEW k \in 1..m PROVE (k - 1) * C \in Nat /\ (k - 1) * C < n
  <2>1. PICK d \in Nat : m = k + d
    BY <1>2
  <2>2. m * C = k * C + d * C /\ d * C >= 0 /\ k * C = (k - 1) * C + C /\ (k - 1) * C >= 0
    BY <2>1
  <2>3. k * C \in Nat /\ d * C \in Nat /\ m * C \in Nat /\ (k - 1) * C \in Nat
    BY <1>2, <2>1
  <2> HIDE DEF x
  <2> QED BY <1>2, <2>2, <2>3 DEF x
<1> QED BY <1>2, <1>3

\* Where the m chunks of n rows end, at most C to a chunk: none is empty.
Ending(e, n, C, m) ==
  /\ e \in [0..m -> 0..n] /\ e[0] = 0 /\ e[m] = n
  /\ \A k \in 1..m : /\ e[k - 1] = (k - 1) * C /\ e[k] = Min({k * C, n})
                     /\ e[k - 1] < e[k] /\ e[k] - e[k - 1] <= C

\* The chunks of Cut end somewhere: none is empty or longer than CHUNK.
LEMMA Ends ==
  ASSUME NEW n \in Nat, NEW C \in Nat \ {0}, NEW m, m = (n + C - 1) \div C
  PROVE  \E e : Ending(e, n, C, m)
<1> DEFINE e == [k \in 0..m |-> IF k * C <= n THEN k * C ELSE n]
<1>1. m \in Nat /\ m * C \in Int /\ m * C >= n /\ \A k \in 1..m : (k - 1) * C \in Nat /\ (k - 1) * C < n
  BY Ceiling
<1>2. \A k \in 0..m : k * C \in Nat
  BY <1>1
<1>3. e \in [0..m -> 0..n]
  BY <1>2
<1>4. 0 * C = 0 /\ 0 \in 0..m /\ m \in 0..m
  BY <1>1
<1>5. e[0] = 0 /\ e[m] = n
  BY <1>1, <1>2, <1>4
<1>6. ASSUME NEW k \in 1..m
      PROVE  /\ e[k - 1] = (k - 1) * C /\ e[k] = Min({k * C, n})
             /\ e[k - 1] < e[k] /\ e[k] - e[k - 1] <= C
  <2>1. k \in 0..m /\ k - 1 \in 0..m /\ (k - 1) * C \in Nat /\ (k - 1) * C < n /\ k * C \in Nat
    BY <1>1, <1>2
  <2>2. k * C = (k - 1) * C + C
    BY <2>1
  <2>3. Min({k * C, n}) = IF k * C <= n THEN k * C ELSE n
    BY <2>1, MinOfTwo
  <2>4. e[k - 1] = (k - 1) * C /\ e[k] = IF k * C <= n THEN k * C ELSE n
    BY <2>1
  <2> HIDE DEF e
  <2> QED BY <2>1, <2>2, <2>3, <2>4
<1> HIDE DEF e
<1>7. Ending(e, n, C, m)
  BY <1>3, <1>5, <1>6 DEF Ending
<1> QED BY <1>7

Fit(T, max) == {s \in Seq(T) : Len(s) \in 1..max}
Some(T) == {s \in Seq(T) : s # <<>>}

\* Chunks that fit are not empty.
LEMMA FitSome ==
  ASSUME NEW T, NEW max \in Nat, NEW cs \in Seq(Fit(T, max))
  PROVE  cs \in Seq(Some(T)) /\ cs \in Seq(Seq(T))
<1>1. Fit(T, max) \subseteq Some(T) /\ Some(T) \subseteq Seq(T)
  BY EmptySeq DEF Fit, Some
<1>2. cs \in Seq(Some(T))
  BY <1>1, SeqMonotonic
<1> QED BY <1>1, <1>2, SeqMonotonic

\* Chunks that are not empty are chunks.
LEMMA SomeSeq ==
  ASSUME NEW T, NEW cs \in Seq(Some(T))
  PROVE  cs \in Seq(Seq(T))
<1>1. Some(T) \subseteq Seq(T)
  BY DEF Some
<1> QED BY <1>1, SeqMonotonic

\* Cut loses and moves no row, and its chunks fit.
LEMMA CutIs ==
  ASSUME NEW T, NEW rows \in Seq(T)
  PROVE  Cut(rows) \in Seq(Fit(T, CHUNK)) /\ FlattenSeq(Cut(rows)) = rows
<1> DEFINE n == Len(rows)
           m == (n + CHUNK - 1) \div CHUNK
<1>0. n \in Nat /\ CHUNK \in Nat \ {0} /\ \A i \in 1..n : rows[i] \in T
  BY LogViewAssumption, LenProperties DEF LogViewAssumption
<1> DEFINE c == Cut(rows)
<1>3. c = [k \in 1..m |-> SubSeq(rows, (k - 1) * CHUNK + 1, Min({k * CHUNK, n}))]
  BY DEF Cut
<1>13. m = (n + CHUNK - 1) \div CHUNK
  OBVIOUS
<1> HIDE DEF n, m, c
<1>1. m \in Nat
  BY <1>0, <1>13, Ceiling
<1>12. PICK e : Ending(e, n, CHUNK, m)
  <2>1. n \in Nat /\ CHUNK \in Nat \ {0}
    BY <1>0
  <2> QED BY <2>1, <1>13, Ends
<1>2. /\ e \in [0..m -> 0..n] /\ e[0] = 0 /\ e[m] = n
      /\ \A k \in 1..m : /\ e[k - 1] = (k - 1) * CHUNK /\ e[k] = Min({k * CHUNK, n})
                         /\ e[k - 1] < e[k] /\ e[k] - e[k - 1] <= CHUNK
  BY <1>12 DEF Ending
<1>4. ASSUME NEW k \in 1..m
      PROVE  c[k] = SubSeq(rows, e[k - 1] + 1, e[k]) /\ c[k] \in Fit(T, CHUNK)
  <2>1. c[k] = SubSeq(rows, e[k - 1] + 1, e[k])
    BY <1>2, <1>3
  <2>2. e[k - 1] \in 0..n /\ e[k] \in 0..n /\ e[k - 1] < e[k] /\ e[k] - e[k - 1] <= CHUNK
    <3>1. k - 1 \in 0..m /\ k \in 0..m
      BY <1>1
    <3> QED BY <1>2, <3>1
  <2> DEFINE a == e[k - 1] + 1
             b == e[k]
  <2>3. a \in Int /\ b \in Int /\ a <= b /\ b - a + 1 \in 1..CHUNK /\ \A i \in a..b : i \in 1..n
    <3>1. n \in Nat /\ CHUNK \in Nat \ {0}
      BY <1>0
    <3>2. a = e[k - 1] + 1 /\ b = e[k]
      OBVIOUS
    <3>3. PICK p \in 0..n : p = e[k - 1]
      BY <2>2
    <3>4. p \in Nat /\ b \in Nat /\ a = p + 1 /\ p < b /\ b - p <= CHUNK /\ b <= n
      BY <2>2, <3>1, <3>2, <3>3
    <3> HIDE DEF a, b
    <3> QED BY <3>1, <3>4
  <2> HIDE DEF a, b
  <2>4. SubSeq(rows, a, b) \in Seq(T) /\ Len(SubSeq(rows, a, b)) = b - a + 1
    BY <1>0, <2>3, SubSeqProperties
  <2> QED BY <2>1, <2>3, <2>4 DEF a, b, Fit
<1>5. c \in Seq(Fit(T, CHUNK)) /\ Len(c) = m
  <2> DEFINE ee(k) == c[k]
  <2>1. c = [k \in 1..m |-> ee(k)]
    BY <1>3
  <2>2. \A k \in 1..m : ee(k) \in Fit(T, CHUNK)
    BY <1>4
  <2> HIDE DEF ee
  <2>3. [k \in 1..m |-> ee(k)] \in Seq(Fit(T, CHUNK))
    BY <1>1, <2>2, IsASeq
  <2> QED BY <1>1, <2>1, <2>3
<1>6. c \in Seq(Seq(T))
  BY <1>0, <1>5, FitSome
<1> DEFINE g == [k \in 0..m |-> SubSeq(rows, 1, e[k])]
<1>7. g[0] = <<>>
  <2>1. SubSeq(rows, 1, 0) = <<>>
    BY SubSeqEmpty
  <2> QED BY <1>1, <1>2, <2>1
<1>8. ASSUME NEW k \in 1..m PROVE g[k] = Join(g[k - 1], c[k])
  <2>1. k - 1 \in 0..m /\ k \in 0..m
    BY <1>1
  <2>2. g[k - 1] = SubSeq(rows, 1, e[k - 1]) /\ g[k] = SubSeq(rows, 1, e[k])
    BY <2>1
  <2>3. e[k - 1] \in 0..n /\ e[k] \in e[k - 1]..n
    <3>1. e[k - 1] \in 0..n /\ e[k] \in 0..n /\ e[k - 1] < e[k]
      BY <1>2, <2>1
    <3> QED BY <1>0, <3>1
  <2>4. 1 \in 1..(n + 1) /\ e[k - 1] \in (1 - 1)..n
    BY <1>0, <2>3
  <2> HIDE DEF g
  <2>5. SubSeq(rows, 1, e[k - 1]) \o SubSeq(rows, e[k - 1] + 1, e[k]) = SubSeq(rows, 1, e[k])
    BY <2>3, <2>4, ConcatAdjacentSubSeq DEF n
  <2> QED BY <1>4, <2>2, <2>5 DEF Join
<1>9. g[m] = rows
  <2>1. SubSeq(rows, 1, n) = rows
    BY SubSeqFull DEF n
  <2> QED BY <1>1, <1>2, <2>1
<1> HIDE DEF g
<1>10. Glued(g, c, Len(c))
  BY <1>5, <1>7, <1>8 DEF Glued
<1>11. FlattenSeq(c) = rows
  BY <1>5, <1>6, <1>9, <1>10, FlatBy
<1> QED BY <1>5, <1>11 DEF c

\* A sequence of one.
LEMMA OneSome ==
  ASSUME NEW S, NEW s \in S
  PROVE  <<s>> \in Seq(S) /\ Len(<<s>>) = 1
OBVIOUS

\* append puts the new rows after those there are, in chunks that are not empty.
LEMMA FilledIs ==
  ASSUME NEW T, NEW cs \in Seq(Some(T)), NEW rows \in Seq(T)
  PROVE  /\ Filled(cs, rows) \in Seq(Some(T))
         /\ FlattenSeq(Filled(cs, rows)) = Join(FlattenSeq(cs), rows)
<1>0. CHUNK \in Nat \ {0} /\ CHUNK \in Nat
  BY LogViewAssumption DEF LogViewAssumption
<1>1. cs \in Seq(Seq(T))
  BY SomeSeq
<1>2. CASE cs = <<>> \/ Len(Last(cs)) >= CHUNK
  <2> DEFINE c == Cut(rows)
  <2>1. c \in Seq(Some(T)) /\ c \in Seq(Seq(T)) /\ FlattenSeq(c) = rows
    BY <1>0, CutIs, FitSome
  <2>2. Filled(cs, rows) = cs \o c
    BY <1>2 DEF Filled
  <2> HIDE DEF c
  <2>3. cs \o c \in Seq(Some(T))
    BY <2>1, ConcatProperties
  <2>4. FlattenSeq(cs \o c) = Join(FlattenSeq(cs), rows)
    BY <1>1, <2>1, FlatConcat
  <2> QED BY <2>2, <2>3, <2>4
<1>3. CASE ~(cs = <<>> \/ Len(Last(cs)) >= CHUNK)
  <2> DEFINE n == Len(cs)
             last == Last(cs)
             front == Front(cs)
             room == Min({CHUNK - Len(last), Len(rows)})
             a == SubSeq(rows, 1, room)
             b == SubSeq(rows, room + 1, Len(rows))
             c == Cut(b)
             mid == Join(last, a)
  <2>0. Filled(cs, rows) = front \o <<mid>> \o c
    BY <1>3 DEF Filled, Join
  <2>1. n \in Nat \ {0} /\ last \in Some(T) /\ last \in Seq(T) /\ Len(last) < CHUNK /\ Len(last) \in Nat
    <3>1. n \in Nat \ {0} /\ n \in 1..n
      BY <1>3, EmptySeq, LenProperties
    <3>2. last \in Some(T)
      BY <3>1, ElementOfSeq DEF Last
    <3>3. last \in Seq(T) /\ Len(last) \in Nat
      BY <3>2, LenProperties DEF Some
    <3> QED BY <1>0, <1>3, <3>1, <3>2, <3>3
  <2>2. Len(rows) \in Nat /\ \A i \in 1..Len(rows) : rows[i] \in T
    BY LenProperties
  <2>3. room \in 0..Len(rows)
    <3>1. room = IF CHUNK - Len(last) <= Len(rows) THEN CHUNK - Len(last) ELSE Len(rows)
      <4>1. CHUNK - Len(last) \in Int /\ Len(rows) \in Int
        <5> HIDE DEF last
        <5> QED BY <1>0, <2>1, <2>2
      <4> HIDE DEF last
      <4> QED BY <4>1, MinOfTwo
    <3> HIDE DEF room, last
    <3> QED BY <1>0, <2>1, <2>2, <3>1
  <2>4. a \in Seq(T) /\ b \in Seq(T) /\ Join(a, b) = rows
    <3> HIDE DEF room
    <3>1. a \in Seq(T)
      <4>1. \A i \in 1..room : rows[i] \in T
        BY <2>2, <2>3
      <4> QED BY <2>3, <4>1, SubSeqProperties
    <3>2. b \in Seq(T)
      <4>1. \A i \in (room + 1)..Len(rows) : rows[i] \in T
        BY <2>2, <2>3
      <4> QED BY <2>2, <2>3, <4>1, SubSeqProperties
    <3>3. SubSeq(rows, 1, room) \o SubSeq(rows, room + 1, Len(rows)) = SubSeq(rows, 1, Len(rows))
      <4>1. 1 \in 1..(Len(rows) + 1) /\ room \in (1 - 1)..Len(rows) /\ Len(rows) \in room..Len(rows)
        BY <2>2, <2>3
      <4> QED BY <4>1, ConcatAdjacentSubSeq
    <3> QED BY <3>1, <3>2, <3>3, SubSeqFull DEF Join
  <2>5. c \in Seq(Some(T)) /\ c \in Seq(Seq(T)) /\ FlattenSeq(c) = b
    <3> HIDE DEF b
    <3> QED BY <1>0, <2>4, CutIs, FitSome
  <2>6. front \in Seq(Some(T)) /\ front \in Seq(Seq(T)) /\ Join(FlattenSeq(front), last) = FlattenSeq(cs)
    <3>1. PICK f : Parts(f, cs, T)
      BY <1>1, FlatIs
    <3>2. n \in 1..n /\ n - 1 \in 0..n /\ \A i \in 1..(n - 1) : i \in 1..n
      BY <2>1
    <3>3. FlattenSeq(front) = f[n - 1]
      BY <1>1, <3>1, <3>2, FlatPrefix DEF Front
    <3>4. f[n] = Join(f[n - 1], cs[n])
      BY <1>1, <3>1, <3>2, FlatAppend
    <3>6. FlattenSeq(cs) = f[n]
      BY <3>1 DEF Parts
    <3>5. front \in Seq(Some(T))
      <4>1. \A i \in 1..(n - 1) : cs[i] \in Some(T)
        BY <3>2, ElementOfSeq
      <4> QED BY <2>1, <4>1, SubSeqProperties DEF Front
    <3> QED BY <3>3, <3>4, <3>5, <3>6, SomeSeq DEF Last
  <2>7. mid \in Some(T) /\ mid \in Seq(T)
    <3>1. mid \in Seq(T) /\ Len(mid) = Len(last) + Len(a)
      <4> HIDE DEF last, a
      <4> QED BY <2>1, <2>4, ConcatProperties DEF Join
    <3>2. Len(last) # 0 /\ Len(a) \in Nat
      <4> HIDE DEF last, a
      <4> QED BY <2>1, <2>4, EmptySeq, LenProperties DEF Some
    <3>3. Len(mid) # 0
      <4> HIDE DEF last, a, mid
      <4> QED BY <2>1, <3>1, <3>2
    <3>4. mid # <<>>
      BY <3>3, EmptySeq
    <3> QED BY <3>1, <3>4 DEF Some
  <2> HIDE DEF last, front, room, a, b, c, mid
  <2>8. <<mid>> \in Seq(Some(T)) /\ <<mid>> \in Seq(Seq(T)) /\ FlattenSeq(<<mid>>) = mid
    BY <2>7, OneSome, FlatOne
  <2>9. front \o <<mid>> \in Seq(Some(T)) /\ front \o <<mid>> \in Seq(Seq(T))
    BY <2>6, <2>8, ConcatProperties
  <2>10. FlattenSeq(front \o <<mid>>) = Join(FlattenSeq(cs), a)
    <3>1. FlattenSeq(front \o <<mid>>) = Join(FlattenSeq(front), mid)
      BY <2>6, <2>8, FlatConcat
    <3>2. FlattenSeq(front) \in Seq(T)
      BY <2>6, FlatType
    <3>3. Join(FlattenSeq(front), Join(last, a)) = Join(Join(FlattenSeq(front), last), a)
      BY <2>1, <2>4, <3>2, JoinAssoc
    <3> QED BY <2>6, <3>1, <3>3 DEF mid
  <2>11. FlattenSeq((front \o <<mid>>) \o c) = Join(FlattenSeq(cs), rows)
    <3>1. FlattenSeq((front \o <<mid>>) \o c) = Join(Join(FlattenSeq(cs), a), b)
      BY <2>5, <2>9, <2>10, FlatConcat
    <3>2. FlattenSeq(cs) \in Seq(T)
      BY <1>1, FlatType
    <3>3. Join(Join(FlattenSeq(cs), a), b) = Join(FlattenSeq(cs), Join(a, b))
      BY <2>4, <3>2, JoinAssoc
    <3> QED BY <2>4, <3>1, <3>3
  <2>12. (front \o <<mid>>) \o c \in Seq(Some(T))
    BY <2>5, <2>9, ConcatProperties
  <2> QED BY <2>0, <2>11, <2>12
<1> QED BY <1>2, <1>3

\* Sequence by sequence replaced by sequences that are flat of the same.
LEMMA FlatSame ==
  ASSUME NEW T, NEW cs \in Seq(Seq(T)), NEW ds \in Seq(Seq(Seq(T))), Len(ds) = Len(cs),
         \A i \in 1..Len(cs) : FlattenSeq(ds[i]) = cs[i]
  PROVE  FlattenSeq(FlattenSeq(ds)) = FlattenSeq(cs)
<1>1. /\ DOMAIN ds = 1..Len(cs) /\ DOMAIN cs = 1..Len(cs) /\ Len(cs) \in Nat
      /\ cs \in [1..Len(cs) -> Seq(T)]
  BY LenProperties
<1>2. [i \in DOMAIN ds |-> FlattenSeq(ds[i])] = cs
  BY <1>1
<1> QED BY <1>2, FlatOfFlat

\* settle moves no row, and its chunks fit.
LEMMA SettledIs ==
  ASSUME NEW T, NEW cs \in Seq(Some(T))
  PROVE  /\ Settled(cs) \in Seq(Fit(T, 2 * CHUNK))
         /\ FlattenSeq(Settled(cs)) = FlattenSeq(cs)
<1> DEFINE n == Len(cs)
           ds == [c \in 1..n |-> IF Len(cs[c]) > 2 * CHUNK THEN Cut(cs[c]) ELSE <<cs[c]>>]
<1>0. CHUNK \in Nat \ {0} /\ n \in Nat /\ DOMAIN cs = 1..n /\ \A c \in 1..n : cs[c] \in Some(T)
  BY LogViewAssumption, LenProperties DEF LogViewAssumption
<1>1. cs \in Seq(Seq(T))
  BY SomeSeq
<1>2. Settled(cs) = FlattenSeq(ds)
  BY <1>0 DEF Settled
<1>3. ASSUME NEW c \in 1..n
      PROVE  ds[c] \in Seq(Fit(T, 2 * CHUNK)) /\ FlattenSeq(ds[c]) = cs[c]
  <2>1. PICK s : s = cs[c]
    OBVIOUS
  <2>2. s \in Seq(T) /\ s # <<>> /\ Len(s) \in Nat \ {0}
    BY <1>0, <2>1, EmptySeq DEF Some
  <2>3. CASE Len(s) > 2 * CHUNK
    <3>1. ds[c] = Cut(s)
      BY <2>1, <2>3
    <3>2. Fit(T, CHUNK) \subseteq Fit(T, 2 * CHUNK)
      BY <1>0 DEF Fit
    <3>3. Cut(s) \in Seq(Fit(T, CHUNK)) /\ FlattenSeq(Cut(s)) = s
      BY <2>2, CutIs
    <3>4. Cut(s) \in Seq(Fit(T, 2 * CHUNK))
      BY <3>2, <3>3, SeqMonotonic
    <3> QED BY <2>1, <3>1, <3>3, <3>4
  <2>4. CASE ~(Len(s) > 2 * CHUNK)
    <3>1. ds[c] = <<s>>
      BY <2>1, <2>4
    <3>2. s \in Fit(T, 2 * CHUNK)
      BY <1>0, <2>2, <2>4 DEF Fit
    <3>3. <<s>> \in Seq(Fit(T, 2 * CHUNK))
      BY <3>2, OneSome
    <3>4. FlattenSeq(<<s>>) = s
      BY <2>2, FlatOne
    <3> QED BY <2>1, <3>1, <3>3, <3>4
  <2> QED BY <2>3, <2>4
<1> HIDE DEF ds
<1>4. ds \in Seq(Seq(Fit(T, 2 * CHUNK))) /\ Len(ds) = n
  <2> DEFINE ee(c) == ds[c]
  <2>1. ds = [c \in 1..n |-> ee(c)]
    BY DEF ds
  <2>2. \A c \in 1..n : ee(c) \in Seq(Fit(T, 2 * CHUNK))
    BY <1>3
  <2> HIDE DEF ee, n
  <2>3. [c \in 1..n |-> ee(c)] \in Seq(Seq(Fit(T, 2 * CHUNK)))
    BY <1>0, <2>2, IsASeq
  <2> QED BY <1>0, <2>1, <2>3
<1>5. ds \in Seq(Seq(Seq(T)))
  <2>1. Fit(T, 2 * CHUNK) \subseteq Seq(T)
    BY DEF Fit
  <2>2. Seq(Fit(T, 2 * CHUNK)) \subseteq Seq(Seq(T))
    BY <2>1, SeqMonotonic
  <2> QED BY <1>4, <2>2, SeqMonotonic
<1>6. FlattenSeq(ds) \in Seq(Fit(T, 2 * CHUNK))
  BY <1>4, FlatType
<1>7. FlattenSeq(FlattenSeq(ds)) = FlattenSeq(cs)
  BY <1>1, <1>3, <1>4, <1>5, FlatSame
<1> QED BY <1>2, <1>6, <1>7

\* Without leaves elements of the sequence only.
LEMMA WithoutType ==
  ASSUME NEW T, NEW s \in Seq(T), NEW set
  PROVE  Without(s, set) \in Seq(T \ set)
<1> DEFINE n == Len(s)
           ee(i) == IF s[i] \in set THEN <<>> ELSE <<s[i]>>
<1>1. n \in Nat /\ DOMAIN s = 1..n /\ \A i \in 1..n : s[i] \in T
  BY LenProperties
<1>2. \A i \in 1..n : ee(i) \in Seq(T \ set)
  BY <1>1, EmptySeq, OneSome
<1>3. Without(s, set) = FlattenSeq([i \in 1..n |-> ee(i)])
  BY <1>1 DEF Without
<1> HIDE DEF ee, n
<1>4. [i \in 1..n |-> ee(i)] \in Seq(Seq(T \ set))
  BY <1>1, <1>2, IsASeq
<1> QED BY <1>3, <1>4, FlatType

\* Chunks without a row go, and no row with them.
LEMMA WithoutEmpty ==
  ASSUME NEW T, NEW cs \in Seq(Seq(T))
  PROVE  /\ Without(cs, {<<>>}) \in Seq(Some(T))
         /\ FlattenSeq(Without(cs, {<<>>})) = FlattenSeq(cs)
<1> DEFINE n == Len(cs)
           ee(i) == IF cs[i] \in {<<>>} THEN <<>> ELSE <<cs[i]>>
           ds == [i \in 1..n |-> ee(i)]
<1>1. n \in Nat /\ DOMAIN cs = 1..n /\ \A i \in 1..n : cs[i] \in Seq(T)
  BY LenProperties
<1>2. \A i \in 1..n : ee(i) \in Seq(Seq(T)) /\ FlattenSeq(ee(i)) = cs[i]
  BY <1>1, EmptySeq, OneSome, FlatOne, FlatEmpty
<1>3. Without(cs, {<<>>}) = FlattenSeq(ds)
  BY <1>1 DEF Without
<1>4. ds \in Seq(Seq(Seq(T))) /\ Len(ds) = n
  <2> HIDE DEF ee, n
  <2>1. [i \in 1..n |-> ee(i)] \in Seq(Seq(Seq(T)))
    BY <1>1, <1>2, IsASeq
  <2> QED BY <1>1, <2>1
<1>5. \A i \in 1..Len(cs) : FlattenSeq(ds[i]) = cs[i]
  <2> HIDE DEF ee
  <2> QED BY <1>2
<1>6. FlattenSeq(FlattenSeq(ds)) = FlattenSeq(cs)
  <2> HIDE DEF ds
  <2> QED BY <1>4, <1>5, FlatSame
<1>7. Without(cs, {<<>>}) \in Seq(Some(T))
  <2>1. Without(cs, {<<>>}) \in Seq(Seq(T) \ {<<>>})
    BY WithoutType
  <2>2. Seq(T) \ {<<>>} \subseteq Some(T)
    BY DEF Some
  <2> QED BY <2>1, <2>2, SeqMonotonic
<1> QED BY <1>3, <1>6, <1>7

\* From one place to a later one, what lies between is added.
LEMMA FlatSlice ==
  ASSUME NEW T, NEW ss \in Seq(Seq(T)), NEW f, Parts(f, ss, T),
         NEW a \in 0..Len(ss), NEW b \in a..Len(ss)
  PROVE  /\ SubSeq(ss, a + 1, b) \in Seq(Seq(T))
         /\ f[b] = Join(f[a], FlattenSeq(SubSeq(ss, a + 1, b)))
<1> DEFINE n == Len(ss)
           x == SubSeq(ss, 1, a)
           y == SubSeq(ss, a + 1, b)
<1>1. n \in Nat /\ a \in 0..n /\ b \in a..n /\ b \in 0..n /\ \A i \in 1..n : ss[i] \in Seq(T)
  BY LenProperties
<1>2. x \in Seq(Seq(T))
  <2>1. \A i \in 1..a : ss[i] \in Seq(T)
    BY <1>1
  <2> QED BY <1>1, <2>1, SubSeqProperties
<1>3. y \in Seq(Seq(T))
  <2>1. \A i \in (a + 1)..b : ss[i] \in Seq(T)
    BY <1>1
  <2>2. a + 1 \in Int /\ b \in Int
    BY <1>1
  <2> QED BY <2>1, <2>2, SubSeqProperties
<1>4. x \o y = SubSeq(ss, 1, b)
  <2>1. 1 \in 1..(n + 1) /\ a \in (1 - 1)..n /\ b \in a..n
    BY <1>1
  <2> QED BY <2>1, ConcatAdjacentSubSeq
<1>5. FlattenSeq(x) = f[a] /\ FlattenSeq(SubSeq(ss, 1, b)) = f[b]
  BY <1>1, FlatPrefix
<1> HIDE DEF x, y
<1>6. FlattenSeq(x \o y) = Join(FlattenSeq(x), FlattenSeq(y))
  BY <1>2, <1>3, FlatConcat
<1> QED BY <1>3, <1>4, <1>5, <1>6 DEF y

\* The lengths add up.
LEMMA FlatLengths ==
  ASSUME NEW T, NEW ss \in Seq(Seq(T)), NEW f, Parts(f, ss, T), NEW k \in 1..Len(ss)
  PROVE  /\ Len(f[k - 1]) \in Nat /\ Len(ss[k]) \in Nat /\ Len(f[k]) = Len(f[k - 1]) + Len(ss[k])
         /\ Len(f[k]) <= Len(FlattenSeq(ss))
<1> DEFINE n == Len(ss)
           y == FlattenSeq(SubSeq(ss, k + 1, n))
<1>1. n \in Nat /\ k \in 1..n /\ k \in 0..n /\ n \in k..n
  BY LenProperties
<1>2. f[k] = Join(f[k - 1], ss[k]) /\ f[k] \in Seq(T) /\ f[k - 1] \in Seq(T) /\ ss[k] \in Seq(T)
  BY FlatAppend
<1>3. f[n] = Join(f[k], y) /\ y \in Seq(T) /\ f[n] = FlattenSeq(ss)
  <2>1. SubSeq(ss, k + 1, n) \in Seq(Seq(T)) /\ f[n] = Join(f[k], y)
    BY <1>1, FlatSlice
  <2>2. f[n] = FlattenSeq(ss)
    BY DEF Parts
  <2> QED BY <2>1, <2>2, FlatType
<1> HIDE DEF y, n
<1>4. Len(f[k]) = Len(f[k - 1]) + Len(ss[k]) /\ Len(f[k - 1]) \in Nat /\ Len(ss[k]) \in Nat
  BY <1>2, ConcatProperties, LenProperties DEF Join
<1>5. Len(FlattenSeq(ss)) = Len(f[k]) + Len(y) /\ Len(y) \in Nat /\ Len(f[k]) \in Nat
  <2>1. Len(Join(f[k], y)) = Len(f[k]) + Len(y)
    BY <1>2, <1>3, ConcatProperties DEF Join
  <2>2. Len(y) \in Nat /\ Len(f[k]) \in Nat
    BY <1>2, <1>3, LenProperties
  <2> QED BY <1>3, <2>1, <2>2
<1>6. Len(f[k]) <= Len(FlattenSeq(ss))
  BY <1>5
<1> QED BY <1>4, <1>6

\* Pieces told row by row, taken chunk by chunk, come to the same.
Group(cs, p) ==
  [c \in DOMAIN cs |->
     FlattenSeq([k \in DOMAIN cs[c] |-> p[Len(FlattenSeq(SubSeq(cs, 1, c - 1))) + k]])]

\* Pieces put together chunk by chunk are the pieces put together.
LEMMA Regroup ==
  ASSUME NEW T, NEW U, NEW cs \in Seq(Seq(U)), NEW p \in Seq(Seq(T)), Len(p) = Len(FlattenSeq(cs))
  PROVE  Group(cs, p) \in Seq(Seq(T)) /\ FlattenSeq(Group(cs, p)) = FlattenSeq(p)
<1> DEFINE n == Len(cs)
           q == Group(cs, p)
<1>1. PICK f : Parts(f, cs, U)
  BY FlatIs
<1>2. PICK F : Parts(F, p, T)
  BY FlatIs
<1>3. /\ n \in Nat /\ DOMAIN cs = 1..n /\ Len(p) \in Nat
      /\ \A i \in 1..Len(p) : p[i] \in Seq(T)
  BY LenProperties
<1>4. f[0] = <<>> /\ f[n] = FlattenSeq(cs) /\ F[0] = <<>> /\ F[Len(p)] = FlattenSeq(p)
  BY <1>1, <1>2 DEF Parts, Glued
<1>5. ASSUME NEW c \in 1..n
      PROVE  q[c] \in Seq(T) /\ F[Len(f[c])] = Join(F[Len(f[c - 1])], q[c])
  <2> DEFINE a == Len(f[c - 1])
             b == Len(f[c])
             m == Len(cs[c])
  <2>1. a \in Nat /\ m \in Nat /\ b = a + m /\ b <= Len(p)
    BY <1>1, FlatLengths
  <2>2. DOMAIN cs[c] = 1..m
    BY <1>3, LenProperties, FlatAppend, <1>1
  <2>3. FlattenSeq(SubSeq(cs, 1, c - 1)) = f[c - 1]
    <3>1. c - 1 \in 0..n
      BY <1>3
    <3> QED BY <1>1, <3>1, FlatPrefix
  <2>4. q[c] = FlattenSeq([k \in 1..m |-> p[a + k]])
    BY <1>3, <2>2, <2>3 DEF Group
  <2> HIDE DEF a, b, m, n, q
  <2>5. [k \in 1..m |-> p[a + k]] = SubSeq(p, a + 1, b)
    <3>1. \A i \in (a + 1)..b : p[i] \in Seq(T)
      BY <1>3, <2>1
    <3>2. a + 1 \in Int /\ b \in Int
      BY <2>1
    <3>3. /\ SubSeq(p, a + 1, b) \in Seq(Seq(T))
          /\ Len(SubSeq(p, a + 1, b)) = IF a + 1 <= b THEN b - (a + 1) + 1 ELSE 0
          /\ \A i \in 1..(b - (a + 1) + 1) : SubSeq(p, a + 1, b)[i] = p[(a + 1) + i - 1]
      BY <3>1, <3>2, SubSeqProperties
    <3>4. Len(SubSeq(p, a + 1, b)) = m
      BY <2>1, <3>3
    <3>5. \A i \in 1..m : SubSeq(p, a + 1, b)[i] = p[a + i]
      <4>1. \A i \in 1..m : i \in 1..(b - (a + 1) + 1) /\ (a + 1) + i - 1 = a + i
        BY <2>1
      <4> QED BY <3>3, <4>1
    <3>6. DOMAIN SubSeq(p, a + 1, b) = 1..m /\ SubSeq(p, a + 1, b) = [i \in 1..m |-> SubSeq(p, a + 1, b)[i]]
      BY <3>3, <3>4, LenProperties
    <3> QED BY <3>5, <3>6
  <2>6. SubSeq(p, a + 1, b) \in Seq(Seq(T)) /\ F[b] = Join(F[a], FlattenSeq(SubSeq(p, a + 1, b)))
    <3>1. a \in 0..Len(p) /\ b \in a..Len(p)
      BY <1>3, <2>1
    <3> QED BY <1>2, <3>1, FlatSlice
  <2>7. q[c] \in Seq(T)
    BY <2>4, <2>5, <2>6, FlatType
  <2> QED BY <2>4, <2>5, <2>6, <2>7 DEF a, b
<1>6. q \in Seq(Seq(T)) /\ Len(q) = n
  <2> DEFINE ee(c) == q[c]
  <2>1. q = [c \in 1..n |-> ee(c)]
    BY <1>3 DEF Group
  <2>2. \A c \in 1..n : ee(c) \in Seq(T)
    BY <1>5
  <2> HIDE DEF ee, n, q
  <2>3. [c \in 1..n |-> ee(c)] \in Seq(Seq(T))
    BY <1>3, <2>2, IsASeq
  <2>4. n \in Nat
    BY <1>3
  <2>5. Len([c \in 1..n |-> ee(c)]) = n
    BY <2>4
  <2> QED BY <2>1, <2>3, <2>5
<1> HIDE DEF n, q
<1> DEFINE g == [c \in 0..n |-> F[Len(f[c])]]
<1>7. g[0] = <<>> /\ g[n] = FlattenSeq(p)
  <2>1. Len(f[0]) = 0
    BY <1>4, EmptySeq
  <2>2. 0 \in 0..n /\ n \in 0..n
    BY <1>3
  <2> QED BY <1>4, <2>1, <2>2
<1>8. ASSUME NEW c \in 1..n PROVE g[c] = Join(g[c - 1], q[c])
  <2>1. c \in 0..n /\ c - 1 \in 0..n
    BY <1>3
  <2>2. g[c] = F[Len(f[c])] /\ g[c - 1] = F[Len(f[c - 1])]
    BY <2>1
  <2> HIDE DEF g
  <2> QED BY <1>5, <2>2
<1> HIDE DEF g
<1>9. Glued(g, q, Len(q))
  BY <1>6, <1>7, <1>8 DEF Glued
<1>10. FlattenSeq(q) = g[n]
  BY <1>6, <1>9, FlatBy
<1> QED BY <1>6, <1>7, <1>10 DEF q

-----------------------------------------------------------------------------
(***************************************************************************)
(* The walk: each row that is kept gets the lines before it that have none.  *)
(***************************************************************************)
Severities == {"err", "warn", "info", None}
RowType == [line : Lines, sev : Severities, asked : BOOLEAN, inRead : BOOLEAN]

\* FirstAt is the first place of the line from j on, or 0 if there is none.
LEMMA FirstIs ==
  ASSUME NEW lines \in Seq(Lines), NEW j \in 1..(Len(lines) + 1), NEW line
  PROVE  LET k == FirstAt(lines, line, j) IN
         \/ k = 0 /\ \A i \in j..Len(lines) : lines[i] # line
         \/ k \in j..Len(lines) /\ lines[k] = line /\ \A i \in j..(k - 1) : lines[i] # line
<1> DEFINE n == Len(lines)
           at == {i \in j..n : lines[i] = line}
<1>1. n \in Nat /\ j \in 1..(n + 1)
  BY LenProperties
<1>2. FirstAt(lines, line, j) = IF at = {} THEN 0 ELSE Min(at)
  BY DEF FirstAt
<1>3. CASE at = {}
  BY <1>2, <1>3
<1>4. CASE at # {}
  <2>1. at \subseteq Nat
    BY <1>1
  <2>2. \E x \in at : \A y \in at : x <= y
    <3> HIDE DEF at
    <3> QED BY <1>4, <2>1, NatMin
  <2>3. Min(at) \in at /\ \A y \in at : Min(at) <= y
    <3> HIDE DEF at
    <3> QED BY <2>2 DEF Min
  <2> DEFINE k == Min(at)
  <2>4. k \in j..n /\ lines[k] = line /\ \A y \in j..n : lines[y] = line => k <= y
    <3>1. \A x \in at : x \in j..n /\ lines[x] = line
      OBVIOUS
    <3>2. \A y \in j..n : lines[y] = line => y \in at
      OBVIOUS
    <3> HIDE DEF at
    <3> QED BY <2>3, <3>1, <3>2
  <2> HIDE DEF k
  <2>5. \A i \in j..(k - 1) : lines[i] # line
    BY <1>1, <2>4
  <2>6. FirstAt(lines, line, j) = k
    <3> HIDE DEF at
    <3> QED BY <1>2, <1>4 DEF k
  <2> QED BY <2>4, <2>5, <2>6
<1> QED BY <1>3, <1>4

\* The places of the walk: it follows its steps and stays within the lines.
Walk(place, lines, rows) ==
  /\ place \in [0..Len(rows) -> 1..(Len(lines) + 1)] /\ place[0] = 1
  /\ \A i \in 1..Len(rows) : place[i] = After(lines, rows, i, place[i - 1])

\* The walk stays in the lines, or one past them.
LEMMA AfterType ==
  ASSUME NEW lines \in Seq(Lines), NEW rows, NEW i, NEW j \in 1..(Len(lines) + 1)
  PROVE  After(lines, rows, i, j) \in 1..(Len(lines) + 1)
<1> DEFINE k == FirstAt(lines, rows[i].line, j)
<1>1. k = 0 \/ k \in j..Len(lines)
  BY FirstIs
<1>2. Len(lines) \in Nat
  BY LenProperties
<1>3. After(lines, rows, i, j) = IF Keeps(lines, rows, i, j) THEN k + 1 ELSE j
  BY DEF After
<1>4. Keeps(lines, rows, i, j) => k # 0
  BY DEF Keeps
<1> HIDE DEF k
<1> QED BY <1>1, <1>2, <1>3, <1>4

\* The recursive function of Walked is the walk.
LEMMA WalkIs ==
  ASSUME NEW lines \in Seq(Lines), NEW rows, Len(rows) \in Nat
  PROVE  Walk(Walked(lines, rows), lines, rows)
<1> DEFINE n == Len(rows)
           S == 1..(Len(lines) + 1)
           G == [q \in S \X (1..n) |-> After(lines, rows, q[2], q[1])]
<1>0. n \in Nat /\ 1 \in S
  BY LenProperties
<1>1. G \in StepsOf(n, S)
  <2>1. \A q \in S \X (1..n) : After(lines, rows, q[2], q[1]) \in S
    <3>1. \A q \in S \X (1..n) : q[1] \in S
      OBVIOUS
    <3> QED BY <3>1, AfterType
  <2> HIDE DEF S, n
  <2> QED BY <2>1 DEF StepsOf
<1>2. \A x \in S, i \in 1..n : G[<<x, i>>] = After(lines, rows, i, x)
  OBVIOUS
<1> HIDE DEF G, S, n
<1>3. PICK f : Follows(f, G, 1, n, S)
  BY <1>0, <1>1, StepsExist
<1>4. f \in [0..n -> S] /\ f[0] = 1 /\ \A i \in 1..n : f[i] = G[<<f[i - 1], i>>]
  BY <1>3 DEF Follows
<1>5. ASSUME NEW i \in 1..n PROVE f[i] = After(lines, rows, i, f[i - 1])
  <2>1. f[i - 1] \in S
    BY <1>0, <1>4
  <2> QED BY <1>2, <1>4, <2>1
<1> DEFINE R(h) == [i \in 0..n |-> IF i = 0 THEN 1 ELSE After(lines, rows, i, h[i - 1])]
           g == CHOOSE h : h = R(h)
<1>6. f = R(f)
  BY <1>0, <1>4, <1>5
<1>7. g = R(g)
  <2> HIDE DEF R
  <2> QED BY <1>6
<1>8. Walked(lines, rows) = g
  BY DEF Walked, n
<1> HIDE DEF g
<1>9. g[0] = 1 /\ \A i \in 1..n : g[i] = After(lines, rows, i, g[i - 1])
  BY <1>0, <1>7
<1>10. Alike(f, g, n)
  BY <1>4, <1>5, <1>9 DEF Alike
<1>11. \A i \in 0..n : f[i] = g[i]
  BY <1>0, <1>10, SameSteps
<1>12. g \in [0..n -> S]
  <2>1. g = [i \in 0..n |-> g[i]]
    BY <1>7
  <2> QED BY <1>4, <1>11, <2>1
<1> QED BY <1>8, <1>9, <1>12 DEF Walk, n, S

\* A row that is built is a row, with its line.
LEMMA RowIs ==
  ASSUME NEW known, NEW line \in Lines
  PROVE  BuildRow(known, line) \in RowType /\ BuildRow(known, line).line = line
<1>1. Level[line] \in Severities
  BY LogViewAssumption DEF LogViewAssumption, Severities
<1>2. None \in Severities
  BY DEF Severities
<1> QED BY <1>1, <1>2 DEF BuildRow, RowType

\* The lines of rows, one by one.
LEMMA LinesOfIs ==
  ASSUME NEW a \in Seq(RowType)
  PROVE  /\ LinesOf(a) \in Seq(Lines) /\ Len(LinesOf(a)) = Len(a)
         /\ \A i \in 1..Len(a) : LinesOf(a)[i] = a[i].line
<1> DEFINE n == Len(a)
           ee(i) == a[i].line
<1>1. n \in Nat /\ DOMAIN a = 1..n /\ \A i \in 1..n : a[i] \in RowType
  BY LenProperties
<1>2. \A i \in 1..n : ee(i) \in Lines
  BY <1>1 DEF RowType
<1>3. LinesOf(a) = [i \in 1..n |-> ee(i)]
  BY <1>1 DEF LinesOf
<1> HIDE DEF ee, n
<1>4. [i \in 1..n |-> ee(i)] \in Seq(Lines) /\ Len([i \in 1..n |-> ee(i)]) = n
  <2>1. [i \in 1..n |-> ee(i)] \in Seq(Lines)
    BY <1>1, <1>2, IsASeq
  <2>2. n \in Nat
    BY <1>1
  <2>3. Len([i \in 1..n |-> ee(i)]) = n
    BY <2>2
  <2> QED BY <2>1, <2>3
<1>5. \A i \in 1..n : LinesOf(a)[i] = ee(i)
  BY <1>3
<1> QED BY <1>3, <1>4, <1>5 DEF ee, n

\* The lines of rows put together.
LEMMA LinesOfJoin ==
  ASSUME NEW a \in Seq(RowType), NEW b \in Seq(RowType)
  PROVE  LinesOf(Join(a, b)) = Join(LinesOf(a), LinesOf(b))
<1> DEFINE ab == a \o b
           m == Len(a)
           n == Len(b)
           la == LinesOf(a)
           lb == LinesOf(b)
           x == LinesOf(ab)
           y == la \o lb
<1>1. /\ ab \in Seq(RowType) /\ Len(ab) = m + n /\ m \in Nat /\ n \in Nat
      /\ \A i \in 1..(m + n) : ab[i] = IF i <= m THEN a[i] ELSE b[i - m]
  BY ConcatProperties, LenProperties
<1>2. /\ la \in Seq(Lines) /\ Len(la) = m /\ \A i \in 1..m : la[i] = a[i].line
      /\ lb \in Seq(Lines) /\ Len(lb) = n /\ \A i \in 1..n : lb[i] = b[i].line
  BY LinesOfIs
<1> HIDE DEF ab, m, n
<1>3. x \in Seq(Lines) /\ Len(x) = m + n /\ \A i \in 1..(m + n) : x[i] = ab[i].line
  BY <1>1, LinesOfIs
<1> HIDE DEF la, lb, x
<1>4. y \in Seq(Lines) /\ Len(y) = m + n /\ \A i \in 1..(m + n) : y[i] = IF i <= m THEN la[i] ELSE lb[i - m]
  BY <1>2, ConcatProperties
<1> HIDE DEF y
<1>5. ASSUME NEW i \in 1..(m + n) PROVE x[i] = y[i]
  <2>1. CASE i <= m
    <3>1. i \in 1..m
      BY <1>1, <2>1
    <3>2. x[i] = ab[i].line /\ ab[i] = a[i]
      BY <1>1, <1>3, <2>1
    <3>3. y[i] = la[i] /\ la[i] = a[i].line
      BY <1>2, <1>4, <2>1, <3>1
    <3> QED BY <3>2, <3>3
  <2>2. CASE ~(i <= m)
    <3>1. i - m \in 1..n
      BY <1>1, <2>2
    <3>2. ab[i] = b[i - m] /\ y[i] = lb[i - m] /\ x[i] = ab[i].line
      BY <1>1, <1>3, <1>4, <2>2
    <3>3. lb[i - m] = b[i - m].line
      BY <1>2, <3>1
    <3> QED BY <3>2, <3>3
  <2> QED BY <2>1, <2>2
<1>6. x = y
  BY <1>1, <1>3, <1>4, <1>5, SeqEqual
<1> QED BY <1>6 DEF x, y, la, lb, ab, Join

\* build's rows have the lines they are built for.
LEMMA BuildIs ==
  ASSUME NEW lines \in Seq(Lines), NEW i \in 1..(Len(lines) + 1), NEW j \in 0..Len(lines)
  PROVE  /\ Build(lines, i, j) \in Seq(RowType)
         /\ LinesOf(Build(lines, i, j)) = SubSeq(lines, i, j)
         /\ SubSeq(lines, i, j) \in Seq(Lines)
<1> DEFINE new == SubSeq(lines, i, j)
           n == Len(new)
           ee(k) == BuildRow(levels, new[k])
<1>1. new \in Seq(Lines)
  <2>1. Len(lines) \in Nat /\ \A k \in 1..Len(lines) : lines[k] \in Lines
    BY LenProperties
  <2>2. \A k \in i..j : lines[k] \in Lines
    BY <2>1
  <2>3. i \in Int /\ j \in Int
    BY <2>1
  <2> QED BY <2>2, <2>3, SubSeqProperties
<1> HIDE DEF new
<1>2. n \in Nat /\ DOMAIN new = 1..n /\ \A k \in 1..n : new[k] \in Lines
  BY <1>1, LenProperties
<1>3. \A k \in 1..n : ee(k) \in RowType /\ ee(k).line = new[k]
  BY <1>2, RowIs
<1>4. Build(lines, i, j) = [k \in 1..n |-> ee(k)]
  BY <1>2 DEF Build, new
<1> HIDE DEF ee, n
<1> DEFINE b == [k \in 1..n |-> ee(k)]
<1>5. b \in Seq(RowType) /\ Len(b) = n
  <2>1. b \in Seq(RowType)
    BY <1>2, <1>3, IsASeq
  <2>2. n \in Nat
    BY <1>2
  <2>3. Len(b) = n
    BY <2>2
  <2> QED BY <2>1, <2>3
<1>6. \A k \in 1..n : b[k].line = new[k]
  BY <1>3
<1> HIDE DEF b
<1>7. /\ LinesOf(b) \in Seq(Lines) /\ Len(LinesOf(b)) = n
      /\ \A k \in 1..n : LinesOf(b)[k] = new[k]
  BY <1>5, <1>6, LinesOfIs
<1>8. LinesOf(b) = new
  <2>1. Len(new) = n
    BY DEF n
  <2> QED BY <1>1, <1>7, <2>1, SeqEqual
<1> QED BY <1>1, <1>4, <1>5, <1>8 DEF b, new

-----------------------------------------------------------------------------
(***************************************************************************)
(* What a redraw makes of the rows.                                         *)
(***************************************************************************)
Kept(lines, rows, place, i) == Keeps(lines, rows, i, place[i - 1])
Above(lines, rows, place, i) ==
  IF Kept(lines, rows, place, i) THEN Build(lines, place[i - 1], place[i] - 2) ELSE <<>>
Piece(lines, rows, place, i) ==
  IF Kept(lines, rows, place, i) THEN Above(lines, rows, place, i) \o <<rows[i]>> ELSE <<>>
Pieces(lines, rows, place) == [i \in 1..Len(rows) |-> Piece(lines, rows, place, i)]
Aboves(lines, rows, place) == [i \in 1..Len(rows) |-> Above(lines, rows, place, i)]
Drops(lines, rows, place) ==
  [i \in 1..Len(rows) |-> IF Kept(lines, rows, place, i) THEN <<>> ELSE <<rows[i]>>]
Rest(lines, rows, place) == Build(lines, place[Len(rows)], Len(lines))

\* One row of the walk: what it leaves of it and above it is the lines the walk went over.
LEMMA WalkStep ==
  ASSUME NEW lines \in Seq(Lines), NEW rows \in Seq(RowType), NEW place, Walk(place, lines, rows),
         NEW i \in 1..Len(rows)
  PROVE  /\ Above(lines, rows, place, i) \in Seq(RowType)
         /\ Piece(lines, rows, place, i) \in Seq(RowType)
         /\ SubSeq(lines, 1, place[i - 1] - 1) \in Seq(Lines)
         /\ SubSeq(lines, 1, place[i] - 1)
              = Join(SubSeq(lines, 1, place[i - 1] - 1), LinesOf(Piece(lines, rows, place, i)))
<1> DEFINE n == Len(rows)
           l == Len(lines)
           j == place[i - 1]
           k == FirstAt(lines, rows[i].line, j)
           above == Above(lines, rows, place, i)
           piece == Piece(lines, rows, place, i)
<1>1. /\ n \in Nat /\ l \in Nat /\ i \in 1..n /\ \A x \in 1..l : lines[x] \in Lines
      /\ rows[i] \in RowType
  BY LenProperties, ElementOfSeq
<1>2. j \in 1..(l + 1) /\ place[i] = After(lines, rows, i, j) /\ place[i] \in 1..(l + 1)
  <2>1. i - 1 \in 0..n /\ i \in 0..n
    BY <1>1
  <2> QED BY <2>1 DEF Walk
<1>3. SubSeq(lines, 1, j - 1) \in Seq(Lines)
  <2>1. \A x \in 1..(j - 1) : lines[x] \in Lines
    BY <1>1, <1>2
  <2>2. j - 1 \in Int
    BY <1>2
  <2> QED BY <2>1, <2>2, SubSeqProperties
<1>4. CASE Kept(lines, rows, place, i)
  <2>1. k # 0 /\ place[i] = k + 1
    BY <1>2, <1>4 DEF Kept, Keeps, After
  <2>2. k \in j..l /\ lines[k] = rows[i].line
    BY <1>2, <2>1, FirstIs
  <2>3. above = Build(lines, j, k - 1) /\ piece = above \o <<rows[i]>>
    <3>1. place[i] - 2 = k - 1
      <4> HIDE DEF k
      <4> QED BY <1>1, <1>2, <2>1, <2>2
    <3> QED BY <1>4, <3>1 DEF Above, Piece
  <2> HIDE DEF k, j, above, piece
  <2>4. above \in Seq(RowType) /\ LinesOf(above) = SubSeq(lines, j, k - 1)
        /\ SubSeq(lines, j, k - 1) \in Seq(Lines)
    <3>1. j \in 1..(Len(lines) + 1) /\ k - 1 \in 0..Len(lines)
      BY <1>1, <1>2, <2>2 DEF l
    <3> QED BY <2>3, <3>1, BuildIs
  <2>5. <<rows[i]>> \in Seq(RowType) /\ LinesOf(<<rows[i]>>) = SubSeq(lines, k, k)
    <3>1. <<rows[i]>> \in Seq(RowType)
      BY <1>1, OneSome
    <3>2. LinesOf(<<rows[i]>>) = <<lines[k]>>
      BY <2>2 DEF LinesOf
    <3>3. SubSeq(lines, k, k) = <<lines[k]>>
      <4>1. k \in 1..l /\ k \in k..l
        BY <1>1, <1>2, <2>2
      <4>2. SubSeq(lines, k, k) = <<lines[k]>> \o SubSeq(lines, k + 1, k)
        BY <4>1, SubSeqRecursiveFirst DEF l
      <4>3. SubSeq(lines, k + 1, k) = <<>>
        BY <4>1, SubSeqEmpty
      <4>4. <<lines[k]>> \in Seq(Lines)
        BY <1>1, <4>1, OneSome
      <4> QED BY <4>2, <4>3, <4>4, ConcatEmptySeq
    <3> QED BY <3>1, <3>2, <3>3
  <2>6. piece \in Seq(RowType) /\ LinesOf(piece) = SubSeq(lines, j, k)
    <3>1. piece \in Seq(RowType)
      BY <2>3, <2>4, <2>5, ConcatProperties
    <3>2. LinesOf(piece) = SubSeq(lines, j, k - 1) \o SubSeq(lines, k, k)
      BY <2>3, <2>4, <2>5, LinesOfJoin DEF Join
    <3>3. SubSeq(lines, j, k - 1) \o SubSeq(lines, (k - 1) + 1, k) = SubSeq(lines, j, k)
      <4>1. j \in 1..(Len(lines) + 1) /\ k - 1 \in (j - 1)..Len(lines) /\ k \in (k - 1)..Len(lines)
        BY <1>1, <1>2, <2>2 DEF l
      <4> QED BY <4>1, ConcatAdjacentSubSeq
    <3>4. (k - 1) + 1 = k
      BY <1>1, <1>2, <2>2
    <3> QED BY <3>1, <3>2, <3>3, <3>4
  <2>7. SubSeq(lines, 1, j - 1) \o SubSeq(lines, (j - 1) + 1, k) = SubSeq(lines, 1, k)
    <3>1. 1 \in 1..(Len(lines) + 1) /\ j - 1 \in (1 - 1)..Len(lines) /\ k \in (j - 1)..Len(lines)
      BY <1>1, <1>2, <2>2 DEF l
    <3> QED BY <3>1, ConcatAdjacentSubSeq
  <2>8. (j - 1) + 1 = j /\ place[i] - 1 = k
    BY <1>1, <1>2, <2>1, <2>2
  <2> QED BY <1>3, <2>4, <2>6, <2>7, <2>8 DEF Join, above, piece, j
<1>5. CASE ~Kept(lines, rows, place, i)
  <2>1. place[i] = j /\ above = <<>> /\ piece = <<>>
    BY <1>2, <1>5 DEF Kept, After, Above, Piece
  <2>2. LinesOf(<<>>) = <<>> /\ <<>> \in Seq(RowType)
    BY EmptySeq DEF LinesOf
  <2>3. Join(SubSeq(lines, 1, j - 1), <<>>) = SubSeq(lines, 1, j - 1)
    BY <1>3, JoinFacts
  <2> HIDE DEF j, above, piece
  <2> QED BY <1>3, <2>1, <2>2, <2>3 DEF j, above, piece
<1> QED BY <1>4, <1>5

\* The pieces, the rows above and the rows dropped are one for each row.
LEMMA PiecesType ==
  ASSUME NEW lines \in Seq(Lines), NEW rows \in Seq(RowType), NEW place, Walk(place, lines, rows)
  PROVE  /\ Pieces(lines, rows, place) \in Seq(Seq(RowType)) /\ Len(Pieces(lines, rows, place)) = Len(rows)
         /\ Aboves(lines, rows, place) \in Seq(Seq(RowType)) /\ Len(Aboves(lines, rows, place)) = Len(rows)
         /\ Drops(lines, rows, place) \in Seq(Seq(RowType)) /\ Len(Drops(lines, rows, place)) = Len(rows)
         /\ Rest(lines, rows, place) \in Seq(RowType)
         /\ LinesOf(Rest(lines, rows, place)) = SubSeq(lines, place[Len(rows)], Len(lines))
         /\ place[Len(rows)] \in 1..(Len(lines) + 1)
<1> DEFINE n == Len(rows)
           pe(i) == Piece(lines, rows, place, i)
           ae(i) == Above(lines, rows, place, i)
           de(i) == IF Kept(lines, rows, place, i) THEN <<>> ELSE <<rows[i]>>
<1>1. n \in Nat /\ \A i \in 1..n : rows[i] \in RowType
  BY LenProperties
<1>2. \A i \in 1..n : pe(i) \in Seq(RowType) /\ ae(i) \in Seq(RowType)
  BY WalkStep
<1>3. \A i \in 1..n : de(i) \in Seq(RowType)
  BY <1>1, EmptySeq, OneSome
<1>4. /\ Pieces(lines, rows, place) = [i \in 1..n |-> pe(i)]
      /\ Aboves(lines, rows, place) = [i \in 1..n |-> ae(i)]
      /\ Drops(lines, rows, place) = [i \in 1..n |-> de(i)]
  BY DEF Pieces, Aboves, Drops
<1>5. place[n] \in 1..(Len(lines) + 1) /\ Len(lines) \in 0..Len(lines)
  <2>1. n \in 0..n
    BY <1>1
  <2> QED BY <2>1, LenProperties DEF Walk
<1>6. Rest(lines, rows, place) \in Seq(RowType)
      /\ LinesOf(Rest(lines, rows, place)) = SubSeq(lines, place[n], Len(lines))
  BY <1>5, BuildIs DEF Rest
<1> HIDE DEF pe, ae, de, n
<1>7. /\ [i \in 1..n |-> pe(i)] \in Seq(Seq(RowType))
      /\ [i \in 1..n |-> ae(i)] \in Seq(Seq(RowType))
      /\ [i \in 1..n |-> de(i)] \in Seq(Seq(RowType))
  <2>1. [i \in 1..n |-> pe(i)] \in Seq(Seq(RowType))
    BY <1>1, <1>2, IsASeq
  <2>2. [i \in 1..n |-> ae(i)] \in Seq(Seq(RowType))
    BY <1>1, <1>2, IsASeq
  <2>3. [i \in 1..n |-> de(i)] \in Seq(Seq(RowType))
    BY <1>1, <1>3, IsASeq
  <2> QED BY <2>1, <2>2, <2>3
<1>8. /\ Len([i \in 1..n |-> pe(i)]) = n /\ Len([i \in 1..n |-> ae(i)]) = n
      /\ Len([i \in 1..n |-> de(i)]) = n
  <2>1. n \in Nat
    BY <1>1
  <2> QED BY <2>1
<1> QED BY <1>4, <1>5, <1>6, <1>7, <1>8 DEF n

\* What the walk leaves is the lines up to where it has come.
LEMMA PiecesAreTheLines ==
  ASSUME NEW lines \in Seq(Lines), NEW rows \in Seq(RowType), NEW place, Walk(place, lines, rows)
  PROVE  LinesOf(FlattenSeq(Pieces(lines, rows, place))) = SubSeq(lines, 1, place[Len(rows)] - 1)
<1> DEFINE n == Len(rows)
           ps == Pieces(lines, rows, place)
<1>1. ps \in Seq(Seq(RowType)) /\ Len(ps) = n /\ n \in Nat
  BY PiecesType, LenProperties
<1>2. \A i \in 1..n : ps[i] = Piece(lines, rows, place, i)
  BY DEF Pieces
<1> HIDE DEF ps
<1>3. PICK f : Parts(f, ps, RowType)
  BY <1>1, FlatIs
<1> DEFINE S == {i \in 0..n : LinesOf(f[i]) = SubSeq(lines, 1, place[i] - 1)}
<1>4. 0 \in S
  <2>1. f[0] = <<>> /\ LinesOf(<<>>) = <<>>
    BY <1>3 DEF Parts, Glued, LinesOf
  <2>2. SubSeq(lines, 1, place[0] - 1) = <<>>
    <3>1. place[0] = 1
      BY DEF Walk
    <3>2. SubSeq(lines, 1, 0) = <<>>
      BY SubSeqEmpty
    <3> QED BY <3>1, <3>2
  <2>3. LinesOf(f[0]) = SubSeq(lines, 1, place[0] - 1)
    BY <2>1, <2>2
  <2>4. 0 \in 0..n
    BY <1>1
  <2> HIDE DEF n
  <2> QED BY <2>3, <2>4
<1>5. ASSUME NEW i \in 1..n, i - 1 \in S PROVE i \in S
  <2>1. f[i] = Join(f[i - 1], ps[i]) /\ f[i - 1] \in Seq(RowType) /\ ps[i] \in Seq(RowType)
    BY <1>1, <1>3, FlatAppend
  <2>2. LinesOf(f[i]) = Join(LinesOf(f[i - 1]), LinesOf(ps[i]))
    BY <2>1, LinesOfJoin
  <2>3. SubSeq(lines, 1, place[i] - 1) = Join(SubSeq(lines, 1, place[i - 1] - 1), LinesOf(ps[i]))
    BY <1>2, WalkStep
  <2>4. LinesOf(f[i - 1]) = SubSeq(lines, 1, place[i - 1] - 1)
    BY <1>5
  <2>5. i \in 0..n
    BY <1>1
  <2> QED BY <2>2, <2>3, <2>4, <2>5
<1>6. n \in S
  <2> HIDE DEF S, n
  <2>1. 0..n \subseteq S
    BY <1>1, <1>4, <1>5, UpTo
  <2> QED BY <1>1, <2>1
<1>7. FlattenSeq(ps) = f[n]
  BY <1>1, <1>3 DEF Parts
<1> QED BY <1>6, <1>7 DEF ps

\* The redraw: the pieces, chunk by chunk, then the rest, in chunks that fit.
LEMMA SyncIs ==
  ASSUME NEW lines \in Seq(Lines), lines # <<>>, chunks \in Seq(Seq(RowType))
  PROVE  LET rows == Rows
             place == Walked(lines, rows)
             gone == FlattenSeq(Drops(lines, rows, place))
             fresh == FlattenSeq(Aboves(lines, rows, place)) \o Rest(lines, rows, place)
             s == Sync(lines)
         IN /\ rows \in Seq(RowType) /\ Walk(place, lines, rows)
            /\ s.chunks \in Seq(Fit(RowType, 2 * CHUNK))
            /\ FlattenSeq(s.chunks) = Join(FlattenSeq(Pieces(lines, rows, place)), Rest(lines, rows, place))
            /\ s.count = Counted(count, gone, fresh) /\ s.built = Len(fresh)
<1> DEFINE rows == Rows
           place == Walked(lines, rows)
           n == Len(rows)
           gone == FlattenSeq(Drops(lines, rows, place))
           fresh == FlattenSeq(Aboves(lines, rows, place)) \o Rest(lines, rows, place)
           ps == Pieces(lines, rows, place)
           q == Group(chunks, ps)
           rest == Rest(lines, rows, place)
           cs == Settled(Filled(Without(q, {<<>>}), rest))
<1>1. rows \in Seq(RowType) /\ n \in Nat /\ DOMAIN rows = 1..n
  BY FlatType, LenProperties DEF Rows
<1>2. Walk(place, lines, rows)
  BY <1>1, WalkIs
<1>3. Sync(lines) = [chunks |-> cs, count |-> Counted(count, gone, fresh), built |-> Len(fresh)]
  <2>1. DOMAIN Rows = 1..Len(Rows)
    BY <1>1
  <2> QED BY <2>1 DEF Sync, Group, Pieces, Aboves, Drops, Rest, Piece, Above, Kept
<1>4. /\ ps \in Seq(Seq(RowType)) /\ Len(ps) = n /\ rest \in Seq(RowType)
  BY <1>1, <1>2, PiecesType
<1>5. q \in Seq(Seq(RowType)) /\ FlattenSeq(q) = FlattenSeq(ps)
  <2>1. Len(ps) = Len(FlattenSeq(chunks))
    BY <1>4 DEF Rows
  <2> HIDE DEF ps
  <2> QED BY <1>4, <2>1, Regroup
<1> HIDE DEF q, rest, cs, ps, gone, fresh
<1>6. Without(q, {<<>>}) \in Seq(Some(RowType)) /\ FlattenSeq(Without(q, {<<>>})) = FlattenSeq(ps)
  BY <1>5, WithoutEmpty
<1>7. /\ Filled(Without(q, {<<>>}), rest) \in Seq(Some(RowType))
      /\ FlattenSeq(Filled(Without(q, {<<>>}), rest)) = Join(FlattenSeq(ps), rest)
  BY <1>4, <1>6, FilledIs
<1>8. cs \in Seq(Fit(RowType, 2 * CHUNK)) /\ FlattenSeq(cs) = Join(FlattenSeq(ps), rest)
  BY <1>7, SettledIs DEF cs
<1> QED BY <1>1, <1>2, <1>3, <1>8 DEF ps, rest, gone, fresh

\* The rows of a redraw are its lines.
LEMMA SyncLines ==
  ASSUME NEW lines \in Seq(Lines), chunks \in Seq(Seq(RowType))
  PROVE  /\ Sync(lines).chunks \in Seq(Fit(RowType, 2 * CHUNK))
         /\ LinesOf(FlattenSeq(Sync(lines).chunks)) = lines
<1>1. CASE lines = <<>>
  <2>1. Sync(lines).chunks = <<>>
    BY <1>1 DEF Sync
  <2>2. LinesOf(<<>>) = <<>>
    BY DEF LinesOf
  <2> QED BY <1>1, <2>1, <2>2, FlatEmpty, EmptySeq
<1>2. CASE lines # <<>>
  <2> DEFINE rows == Rows
             place == Walked(lines, rows)
             ps == FlattenSeq(Pieces(lines, rows, place))
             rest == Rest(lines, rows, place)
             cs == Sync(lines).chunks
             e == place[Len(rows)]
  <2>1. /\ rows \in Seq(RowType) /\ Walk(place, lines, rows)
        /\ cs \in Seq(Fit(RowType, 2 * CHUNK)) /\ FlattenSeq(cs) = Join(ps, rest)
    BY <1>2, SyncIs
  <2> HIDE DEF rows, place
  <2>2. /\ Pieces(lines, rows, place) \in Seq(Seq(RowType)) /\ rest \in Seq(RowType)
        /\ LinesOf(rest) = SubSeq(lines, e, Len(lines)) /\ e \in 1..(Len(lines) + 1)
    BY <2>1, PiecesType
  <2>3. ps \in Seq(RowType) /\ LinesOf(ps) = SubSeq(lines, 1, e - 1)
    BY <2>1, <2>2, FlatType, PiecesAreTheLines
  <2> HIDE DEF cs, ps, rest, e
  <2>4. LinesOf(FlattenSeq(cs)) = Join(SubSeq(lines, 1, e - 1), SubSeq(lines, e, Len(lines)))
    BY <2>1, <2>2, <2>3, LinesOfJoin
  <2>5. SubSeq(lines, 1, e - 1) \o SubSeq(lines, (e - 1) + 1, Len(lines)) = SubSeq(lines, 1, Len(lines))
    <3>1. /\ 1 \in 1..(Len(lines) + 1) /\ e - 1 \in (1 - 1)..Len(lines)
          /\ Len(lines) \in (e - 1)..Len(lines)
      BY <2>2, LenProperties
    <3> QED BY <3>1, ConcatAdjacentSubSeq
  <2>6. (e - 1) + 1 = e
    BY <2>2, LenProperties
  <2> QED BY <2>1, <2>4, <2>5, <2>6, SubSeqFull DEF cs, Join
<1> QED BY <1>1, <1>2

-----------------------------------------------------------------------------
(***************************************************************************)
(* The counts: how many of a sequence's elements are in a class.            *)
(***************************************************************************)
Places(s, C) == {i \in 1..Len(s) : s[i] \in C}
Number(s, C) == Cardinality(Places(s, C))

\* The elements of a class are so many.
LEMMA NumberType ==
  ASSUME NEW T, NEW s \in Seq(T), NEW C
  PROVE  IsFiniteSet(Places(s, C)) /\ Number(s, C) \in Nat
<1>1. IsFiniteSet(1..Len(s))
  BY LenProperties, FS_Interval
<1>2. Places(s, C) \in SUBSET (1..Len(s))
  BY DEF Places
<1> QED BY <1>1, <1>2, FS_Subset, FS_CardinalityType DEF Number

\* There are none in nothing.
LEMMA NumberEmpty == ASSUME NEW C PROVE Number(<<>>, C) = 0
<1>1. Places(<<>>, C) = {}
  BY DEF Places
<1> QED BY <1>1, FS_EmptySet DEF Number

\* The numbers in two sequences add up.
LEMMA NumberJoin ==
  ASSUME NEW T, NEW a \in Seq(T), NEW b \in Seq(T), NEW C
  PROVE  Number(Join(a, b), C) = Number(a, C) + Number(b, C)
<1> DEFINE m == Len(a)
           n == Len(b)
           ab == Join(a, b)
           A == Places(a, C)
           B == Places(b, C)
           M == {i \in (m + 1)..(m + n) : b[i - m] \in C}
           F == [i \in B |-> m + i]
<1>1. m \in Nat /\ n \in Nat
  BY LenProperties
<1>2. Len(ab) = m + n /\ \A i \in 1..(m + n) : ab[i] = IF i <= m THEN a[i] ELSE b[i - m]
  BY ConcatProperties DEF Join
<1>3. Places(ab, C) = A \cup M
  <2>1. ASSUME NEW i \in 1..(m + n) PROVE ab[i] \in C <=> i \in A \cup M
    <3>1. CASE i <= m
      <4>1. i \in 1..m /\ i \notin (m + 1)..(m + n) /\ ab[i] = a[i]
        BY <1>1, <1>2, <3>1
      <4> QED BY <4>1 DEF Places
    <3>2. CASE ~(i <= m)
      <4>1. i \notin 1..m /\ i \in (m + 1)..(m + n) /\ ab[i] = b[i - m]
        BY <1>1, <1>2, <3>2
      <4> QED BY <4>1 DEF Places
    <3> QED BY <3>1, <3>2
  <2>2. A \subseteq 1..(m + n) /\ M \subseteq 1..(m + n)
    BY <1>1 DEF Places
  <2>3. Places(ab, C) = {i \in 1..(m + n) : ab[i] \in C}
    BY <1>2 DEF Places
  <2> HIDE DEF A, M, ab, m, n
  <2> QED BY <2>1, <2>2, <2>3
<1>4. A \cap M = {}
  <2>1. \A i \in A : i \in 1..m
    BY DEF Places
  <2> QED BY <1>1, <2>1
<1>5. ExistsBijection(B, M)
  <2>1. \A i \in B : i \in 1..n /\ b[i] \in C
    BY DEF Places
  <2>2. F \in [B -> M]
    <3>1. ASSUME NEW i \in B PROVE m + i \in M
      <4>1. i \in 1..n /\ b[i] \in C
        BY <2>1
      <4>2. m + i \in (m + 1)..(m + n) /\ (m + i) - m = i
        BY <1>1, <4>1
      <4> HIDE DEF m, n
      <4> QED BY <4>1, <4>2
    <3> HIDE DEF B, M, m
    <3> QED BY <3>1
  <2>3. \A x, y \in B : F[x] = F[y] => x = y
    <3>1. \A x \in B : F[x] = m + x /\ x \in Int
      BY <2>1
    <3> HIDE DEF F, B, m
    <3> QED BY <3>1, <1>1
  <2>4. \A t \in M : \E x \in B : F[x] = t
    <3>1. ASSUME NEW t \in M PROVE \E x \in B : F[x] = t
      <4>1. t - m \in 1..n /\ b[t - m] \in C /\ m + (t - m) = t
        BY <1>1
      <4>2. t - m \in B
        BY <4>1 DEF Places
      <4>3. F[t - m] = t
        <5> HIDE DEF B, m
        <5> QED BY <4>1, <4>2
      <4> QED BY <4>2, <4>3
    <3> QED BY <3>1
  <2> HIDE DEF F, B, M
  <2>5. F \in Bijection(B, M)
    BY <2>2, <2>3, <2>4, Fun_IsBij
  <2> QED BY <2>5 DEF ExistsBijection
<1>6. IsFiniteSet(A) /\ IsFiniteSet(B) /\ Cardinality(A) \in Nat /\ Cardinality(B) \in Nat
  BY NumberType DEF Number
<1> HIDE DEF A, B, M
<1>7. IsFiniteSet(M) /\ Cardinality(M) = Cardinality(B)
  BY <1>5, <1>6, FS_Bijection
<1>8. Cardinality(A \cup M) = Cardinality(A) + Cardinality(M) - Cardinality({})
  BY <1>4, <1>6, <1>7, FS_Union
<1>9. Cardinality(A \cup M) = Cardinality(A) + Cardinality(B)
  BY <1>6, <1>7, <1>8, FS_EmptySet
<1> QED BY <1>3, <1>9 DEF Number, A, B

\* A sequence up to a place is what it is up to the place before, and one element more.
LEMMA PrefixStep ==
  ASSUME NEW T, NEW s \in Seq(T), NEW i \in 1..Len(s)
  PROVE  /\ SubSeq(s, 1, i - 1) \in Seq(T) /\ <<s[i]>> \in Seq(T)
         /\ SubSeq(s, 1, i) = Join(SubSeq(s, 1, i - 1), <<s[i]>>)
<1>1. i \in Nat /\ Len(s) \in Nat /\ i \in 1..Len(s) /\ i \in i..Len(s) /\ i - 1 \in (1 - 1)..Len(s)
      /\ 1 \in 1..(Len(s) + 1) /\ i \in (i - 1)..Len(s) /\ (i - 1) + 1 = i
  BY LenProperties
<1>2. s[i] \in T
  BY ElementOfSeq
<1>3. <<s[i]>> \in Seq(T)
  BY <1>2, OneSome
<1>4. SubSeq(s, i, i) = <<s[i]>>
  <2>1. SubSeq(s, i, i) = <<s[i]>> \o SubSeq(s, i + 1, i)
    BY <1>1, SubSeqRecursiveFirst
  <2>2. SubSeq(s, i + 1, i) = <<>>
    BY <1>1, SubSeqEmpty
  <2> QED BY <1>3, <2>1, <2>2, ConcatEmptySeq
<1>5. SubSeq(s, 1, i) = SubSeq(s, 1, i - 1) \o SubSeq(s, i, i)
  <2>1. SubSeq(s, 1, i - 1) \o SubSeq(s, (i - 1) + 1, i) = SubSeq(s, 1, i)
    BY <1>1, ConcatAdjacentSubSeq
  <2> QED BY <1>1, <2>1
<1>6. SubSeq(s, 1, i - 1) \in Seq(T)
  <2>1. \A x \in 1..(i - 1) : s[x] \in T
    <3>1. \A x \in 1..(i - 1) : x \in 1..Len(s)
      BY <1>1
    <3> QED BY <3>1, ElementOfSeq
  <2>2. i - 1 \in Int
    BY <1>1
  <2> QED BY <2>1, <2>2, SubSeqProperties
<1> QED BY <1>3, <1>4, <1>5, <1>6 DEF Join

\* What a row counts for.
Keys == {"total", "parsed", "err", "warn"}
Class(k) ==
  IF k = "total" THEN RowType
  ELSE IF k = "parsed" THEN {r \in RowType : r.line \in Parsed}
  ELSE {r \in RowType : r.line \in Parsed /\ r.sev = k}

Weight(k, s) == Number(s, Class(k))

\* tally is the number of rows in each of its classes.
LEMMA TallyIs ==
  ASSUME NEW rows \in Seq(RowType)
  PROVE  Tally(rows) = [k \in Keys |-> Weight(k, rows)]
<1> DEFINE n == Len(rows)
           parsed == {i \in DOMAIN rows : rows[i].line \in Parsed}
<1>1. n \in Nat /\ DOMAIN rows = 1..n /\ \A i \in 1..n : rows[i] \in RowType
  BY LenProperties
<1>2. Number(rows, Class("total")) = n
  <2>1. Places(rows, Class("total")) = 1..n
    BY <1>1 DEF Places, Class
  <2> QED BY <1>1, <2>1, FS_Interval DEF Number
<1>3. Number(rows, Class("parsed")) = Cardinality(parsed)
  <2>1. Places(rows, Class("parsed")) = parsed
    BY <1>1 DEF Places, Class
  <2> QED BY <2>1 DEF Number
<1>4. ASSUME NEW k \in {"err", "warn"}
      PROVE  Number(rows, Class(k)) = Cardinality({i \in parsed : rows[i].sev = k})
  <2>1. Places(rows, Class(k)) = {i \in parsed : rows[i].sev = k}
    BY <1>1 DEF Places, Class
  <2> QED BY <2>1 DEF Number
<1>5. Tally(rows) = [total |-> n, parsed |-> Cardinality(parsed),
                     err |-> Cardinality({i \in parsed : rows[i].sev = "err"}),
                     warn |-> Cardinality({i \in parsed : rows[i].sev = "warn"})]
  BY DEF Tally
<1> DEFINE e == Cardinality({i \in parsed : rows[i].sev = "err"})
           w == Cardinality({i \in parsed : rows[i].sev = "warn"})
           N(k) == Weight(k, rows)
<1>6. N("total") = n /\ N("parsed") = Cardinality(parsed) /\ N("err") = e /\ N("warn") = w
  BY <1>2, <1>3, <1>4 DEF Weight
<1>7. Tally(rows) = [total |-> n, parsed |-> Cardinality(parsed), err |-> e, warn |-> w]
  BY <1>5
<1> HIDE DEF e, w, N, n, parsed
<1>8. [total |-> n, parsed |-> Cardinality(parsed), err |-> e, warn |-> w] = [k \in Keys |-> N(k)]
  BY <1>6 DEF Keys
<1> QED BY <1>7, <1>8 DEF N

\* What rows count for adds up.
LEMMA WeightJoin ==
  ASSUME NEW a \in Seq(RowType), NEW b \in Seq(RowType), NEW k
  PROVE  /\ Weight(k, a) \in Nat /\ Weight(k, <<>>) = 0
         /\ Weight(k, Join(a, b)) = Weight(k, a) + Weight(k, b)
BY NumberType, NumberEmpty, NumberJoin DEF Weight

\* reset's zero is the tally of no rows.
LEMMA TallyEmpty == Tally(<<>>) = Zero
<1>1. Tally(<<>>) = [k \in Keys |-> 0]
  BY TallyIs, EmptySeq, NumberEmpty DEF Weight
<1>2. Zero = [k \in Keys |-> 0]
  BY DEF Zero, Keys
<1> QED BY <1>1, <1>2

\* What balances: a and b weigh what c and d do.
Even(a, b, c, d) ==
  \A k \in Keys : Weight(k, a) + Weight(k, b) = Weight(k, c) + Weight(k, d)

\* A count changed by what balances is the tally of the new rows.
LEMMA CountedIs ==
  ASSUME NEW old \in Seq(RowType), NEW off \in Seq(RowType), NEW rows \in Seq(RowType),
         NEW new \in Seq(RowType), Even(new, off, old, rows)
  PROVE  Counted(Tally(old), off, rows) = Tally(new)
<1>1. /\ Tally(old) = [k \in Keys |-> Weight(k, old)]
      /\ Tally(off) = [k \in Keys |-> Weight(k, off)]
      /\ Tally(rows) = [k \in Keys |-> Weight(k, rows)]
      /\ Tally(new) = [k \in Keys |-> Weight(k, new)]
  BY TallyIs
<1>2. Counted(Tally(old), off, rows)
        = [k \in Keys |-> Weight(k, old) - Weight(k, off) + Weight(k, rows)]
  BY <1>1 DEF Counted
<1>3. ASSUME NEW k \in Keys
      PROVE  Weight(k, old) - Weight(k, off) + Weight(k, rows) = Weight(k, new)
  <2>1. /\ Weight(k, old) \in Nat /\ Weight(k, off) \in Nat /\ Weight(k, rows) \in Nat
        /\ Weight(k, new) \in Nat
    BY WeightJoin
  <2>2. Weight(k, new) + Weight(k, off) = Weight(k, old) + Weight(k, rows)
    BY DEF Even
  <2> DEFINE a == Weight(k, old)
             b == Weight(k, off)
             c == Weight(k, rows)
             d == Weight(k, new)
  <2>3. a \in Nat /\ b \in Nat /\ c \in Nat /\ d \in Nat /\ d + b = a + c
    BY <2>1, <2>2
  <2> HIDE DEF a, b, c, d
  <2>4. a - b + c = d
    BY <2>3
  <2> QED BY <2>4 DEF a, b, c, d
<1> QED BY <1>1, <1>2, <1>3

\* What balances piece by piece balances put together.
LEMMA EvenJoin ==
  ASSUME NEW a \in Seq(RowType), NEW b \in Seq(RowType), NEW c \in Seq(RowType), NEW d \in Seq(RowType),
         NEW a2 \in Seq(RowType), NEW b2 \in Seq(RowType), NEW c2 \in Seq(RowType), NEW d2 \in Seq(RowType),
         Even(a, b, c, d), Even(a2, b2, c2, d2)
  PROVE  Even(Join(a, a2), Join(b, b2), Join(c, c2), Join(d, d2))
<1>1. ASSUME NEW k \in Keys
      PROVE  Weight(k, Join(a, a2)) + Weight(k, Join(b, b2)) = Weight(k, Join(c, c2)) + Weight(k, Join(d, d2))
  <2> DEFINE wa == Weight(k, a)
             wb == Weight(k, b)
             wc == Weight(k, c)
             wd == Weight(k, d)
             xa == Weight(k, a2)
             xb == Weight(k, b2)
             xc == Weight(k, c2)
             xd == Weight(k, d2)
  <2>1. /\ wa \in Nat /\ wb \in Nat /\ wc \in Nat /\ wd \in Nat
        /\ xa \in Nat /\ xb \in Nat /\ xc \in Nat /\ xd \in Nat
    BY WeightJoin
  <2>2. wa + wb = wc + wd /\ xa + xb = xc + xd
    BY DEF Even
  <2>3. /\ Weight(k, Join(a, a2)) = wa + xa /\ Weight(k, Join(b, b2)) = wb + xb
        /\ Weight(k, Join(c, c2)) = wc + xc /\ Weight(k, Join(d, d2)) = wd + xd
    <3>1. Weight(k, Join(a, a2)) = wa + xa
      BY WeightJoin
    <3>2. Weight(k, Join(b, b2)) = wb + xb
      BY WeightJoin
    <3>3. Weight(k, Join(c, c2)) = wc + xc
      BY WeightJoin
    <3>4. Weight(k, Join(d, d2)) = wd + xd
      BY WeightJoin
    <3> QED BY <3>1, <3>2, <3>3, <3>4
  <2> HIDE DEF wa, wb, wc, wd, xa, xb, xc, xd
  <2>4. (wa + xa) + (wb + xb) = (wc + xc) + (wd + xd)
    BY <2>1, <2>2
  <2> QED BY <2>3, <2>4
<1> QED BY <1>1 DEF Even

\* The same pieces on both sides, or one of them put together with nothing.
LEMMA EvenSwap ==
  ASSUME NEW a \in Seq(RowType), NEW b \in Seq(RowType)
  PROVE  /\ Even(a, b, b, a) /\ Even(a, b, a, b)
         /\ Even(Join(a, b), <<>>, b, a)
<1>1. ASSUME NEW k \in Keys
      PROVE  /\ Weight(k, a) + Weight(k, b) = Weight(k, b) + Weight(k, a)
             /\ Weight(k, Join(a, b)) + Weight(k, <<>>) = Weight(k, b) + Weight(k, a)
  <2> DEFINE wa == Weight(k, a)
             wb == Weight(k, b)
  <2>1. wa \in Nat /\ wb \in Nat /\ Weight(k, <<>>) = 0 /\ Weight(k, Join(a, b)) = wa + wb
    BY WeightJoin
  <2> HIDE DEF wa, wb
  <2>2. wa + wb = wb + wa /\ (wa + wb) + 0 = wb + wa
    BY <2>1
  <2> QED BY <2>1, <2>2 DEF wa, wb
<1> QED BY <1>1 DEF Even

\* A sequence is put together of its elements.
Singles(s) == [i \in 1..Len(s) |-> <<s[i]>>]

\* A sequence put together of its elements is that sequence.
LEMMA SinglesAre ==
  ASSUME NEW T, NEW s \in Seq(T)
  PROVE  /\ Singles(s) \in Seq(Seq(T)) /\ Len(Singles(s)) = Len(s)
         /\ FlattenSeq(Singles(s)) = s
<1> DEFINE n == Len(s)
           g == [i \in 0..n |-> SubSeq(s, 1, i)]
           ee(i) == <<s[i]>>
<1>1. n \in Nat /\ \A i \in 1..n : ee(i) \in Seq(T)
  BY LenProperties, PrefixStep
<1>2. Singles(s) = [i \in 1..n |-> ee(i)]
  BY DEF Singles
<1>3. Singles(s) \in Seq(Seq(T)) /\ Len(Singles(s)) = n
  <2> HIDE DEF ee, n
  <2>1. [i \in 1..n |-> ee(i)] \in Seq(Seq(T))
    BY <1>1, IsASeq
  <2> QED BY <1>1, <1>2, <2>1
<1>4. Glued(g, Singles(s), n)
  <2>1. g[0] = <<>>
    <3>1. 0 \in 0..n
      BY <1>1
    <3> QED BY <3>1, SubSeqEmpty
  <2>2. ASSUME NEW i \in 1..n PROVE g[i] = Join(g[i - 1], Singles(s)[i])
    <3>1. i \in 0..n /\ i - 1 \in 0..n
      BY <1>1
    <3>2. Singles(s)[i] = <<s[i]>>
      BY DEF Singles
    <3>3. SubSeq(s, 1, i) = Join(SubSeq(s, 1, i - 1), <<s[i]>>)
      BY PrefixStep
    <3> QED BY <3>1, <3>2, <3>3
  <2> QED BY <2>1, <2>2 DEF Glued
<1>5. g[n] = s
  <2>1. n \in 0..n
    BY <1>1
  <2> QED BY <2>1, SubSeqFull
<1> HIDE DEF g
<1> QED BY <1>3, <1>4, <1>5, FlatBy

\* What balances piece by piece balances as a whole.
LEMMA Balance ==
  ASSUME NEW n \in Nat, NEW a \in Seq(Seq(RowType)), NEW b \in Seq(Seq(RowType)),
         NEW c \in Seq(Seq(RowType)), NEW d \in Seq(Seq(RowType)),
         Len(a) = n, Len(b) = n, Len(c) = n, Len(d) = n,
         \A i \in 1..n : Even(a[i], b[i], c[i], d[i])
  PROVE  Even(FlattenSeq(a), FlattenSeq(b), FlattenSeq(c), FlattenSeq(d))
<1>1. PICK fa : Parts(fa, a, RowType)
  BY FlatIs
<1>2. PICK fb : Parts(fb, b, RowType)
  BY FlatIs
<1>3. PICK fc : Parts(fc, c, RowType)
  BY FlatIs
<1>4. PICK fd : Parts(fd, d, RowType)
  BY FlatIs
<1> DEFINE S == {i \in 0..n : Even(fa[i], fb[i], fc[i], fd[i])}
<1>5. 0 \in S
  <2>1. fa[0] = <<>> /\ fb[0] = <<>> /\ fc[0] = <<>> /\ fd[0] = <<>> /\ 0 \in 0..n
    BY <1>1, <1>2, <1>3, <1>4 DEF Parts, Glued
  <2> QED BY <2>1 DEF Even
<1>6. ASSUME NEW i \in 1..n, i - 1 \in S PROVE i \in S
  <2>1. /\ fa[i] = Join(fa[i - 1], a[i]) /\ fa[i - 1] \in Seq(RowType) /\ a[i] \in Seq(RowType)
        /\ fb[i] = Join(fb[i - 1], b[i]) /\ fb[i - 1] \in Seq(RowType) /\ b[i] \in Seq(RowType)
        /\ fc[i] = Join(fc[i - 1], c[i]) /\ fc[i - 1] \in Seq(RowType) /\ c[i] \in Seq(RowType)
        /\ fd[i] = Join(fd[i - 1], d[i]) /\ fd[i - 1] \in Seq(RowType) /\ d[i] \in Seq(RowType)
    <3>1. i \in 1..Len(a) /\ i \in 1..Len(b) /\ i \in 1..Len(c) /\ i \in 1..Len(d)
      OBVIOUS
    <3>2. fa[i] = Join(fa[i - 1], a[i]) /\ fa[i - 1] \in Seq(RowType) /\ a[i] \in Seq(RowType)
      BY <1>1, <3>1, FlatAppend
    <3>3. fb[i] = Join(fb[i - 1], b[i]) /\ fb[i - 1] \in Seq(RowType) /\ b[i] \in Seq(RowType)
      BY <1>2, <3>1, FlatAppend
    <3>4. fc[i] = Join(fc[i - 1], c[i]) /\ fc[i - 1] \in Seq(RowType) /\ c[i] \in Seq(RowType)
      BY <1>3, <3>1, FlatAppend
    <3>5. fd[i] = Join(fd[i - 1], d[i]) /\ fd[i - 1] \in Seq(RowType) /\ d[i] \in Seq(RowType)
      BY <1>4, <3>1, FlatAppend
    <3> QED BY <3>2, <3>3, <3>4, <3>5
  <2>2. Even(fa[i], fb[i], fc[i], fd[i])
    <3>1. Even(a[i], b[i], c[i], d[i])
      OBVIOUS
    <3>2. Even(fa[i - 1], fb[i - 1], fc[i - 1], fd[i - 1])
      BY <1>6
    <3>3. Even(Join(fa[i - 1], a[i]), Join(fb[i - 1], b[i]), Join(fc[i - 1], c[i]), Join(fd[i - 1], d[i]))
      <4>1. /\ fa[i - 1] \in Seq(RowType) /\ fb[i - 1] \in Seq(RowType) /\ fc[i - 1] \in Seq(RowType)
            /\ fd[i - 1] \in Seq(RowType) /\ a[i] \in Seq(RowType) /\ b[i] \in Seq(RowType)
            /\ c[i] \in Seq(RowType) /\ d[i] \in Seq(RowType)
        BY <2>1
      <4> QED BY <3>1, <3>2, <4>1, EvenJoin
    <3> QED BY <2>1, <3>3
  <2>3. i \in 0..n
    OBVIOUS
  <2> QED BY <2>2, <2>3
<1>7. n \in S
  <2> HIDE DEF S
  <2>1. 0..n \subseteq S
    BY <1>5, <1>6, UpTo
  <2> QED BY <2>1
<1>8. /\ FlattenSeq(a) = fa[n] /\ FlattenSeq(b) = fb[n] /\ FlattenSeq(c) = fc[n]
      /\ FlattenSeq(d) = fd[n]
  BY <1>1, <1>2, <1>3, <1>4 DEF Parts
<1> QED BY <1>7, <1>8

\* A redraw counts what it builds and what it drops.
LEMMA SyncCount ==
  ASSUME NEW lines \in Seq(Lines), chunks \in Seq(Seq(RowType)), count = Tally(Rows)
  PROVE  Sync(lines).count = Tally(FlattenSeq(Sync(lines).chunks))
<1>1. CASE lines = <<>>
  <2>1. Sync(lines).chunks = <<>> /\ Sync(lines).count = Zero
    BY <1>1 DEF Sync
  <2> QED BY <2>1, FlatEmpty, TallyEmpty
<1>2. CASE lines # <<>>
  <2> DEFINE rows == Rows
             place == Walked(lines, rows)
             n == Len(rows)
             ps == Pieces(lines, rows, place)
             as == Aboves(lines, rows, place)
             ds == Drops(lines, rows, place)
             rest == Rest(lines, rows, place)
             new == FlattenSeq(Sync(lines).chunks)
             gone == FlattenSeq(ds)
             fresh == FlattenSeq(as) \o rest
  <2>1. /\ rows \in Seq(RowType) /\ Walk(place, lines, rows)
        /\ new = Join(FlattenSeq(ps), rest)
        /\ Sync(lines).count = Counted(count, gone, fresh)
    BY <1>2, SyncIs
  <2> HIDE DEF rows, place
  <2>2. /\ ps \in Seq(Seq(RowType)) /\ Len(ps) = n /\ as \in Seq(Seq(RowType)) /\ Len(as) = n
        /\ ds \in Seq(Seq(RowType)) /\ Len(ds) = n /\ rest \in Seq(RowType)
    BY <2>1, PiecesType
  <2>3. n \in Nat /\ \A i \in 1..n : rows[i] \in RowType
    BY <2>1, LenProperties, ElementOfSeq
  <2>4. ASSUME NEW i \in 1..n PROVE Even(ps[i], ds[i], Singles(rows)[i], as[i])
    <3>1. /\ ps[i] = Piece(lines, rows, place, i) /\ as[i] = Above(lines, rows, place, i)
          /\ ds[i] = IF Kept(lines, rows, place, i) THEN <<>> ELSE <<rows[i]>>
          /\ Singles(rows)[i] = <<rows[i]>>
      BY DEF Pieces, Aboves, Drops, Singles
    <3>2. as[i] \in Seq(RowType) /\ <<rows[i]>> \in Seq(RowType)
      BY <2>1, <2>3, <3>1, WalkStep, OneSome
    <3>3. CASE Kept(lines, rows, place, i)
      <4>1. ps[i] = Join(as[i], <<rows[i]>>) /\ ds[i] = <<>>
        BY <3>1, <3>3 DEF Piece, Join
      <4>2. Even(Join(as[i], <<rows[i]>>), <<>>, <<rows[i]>>, as[i])
        BY <3>2, EvenSwap
      <4> QED BY <3>1, <4>1, <4>2
    <3>4. CASE ~Kept(lines, rows, place, i)
      <4>1. ps[i] = <<>> /\ as[i] = <<>> /\ ds[i] = <<rows[i]>>
        BY <3>1, <3>4 DEF Piece, Above
      <4>2. Even(<<>>, <<rows[i]>>, <<rows[i]>>, <<>>)
        BY <3>2, EmptySeq, EvenSwap
      <4> QED BY <3>1, <4>1, <4>2
    <3> QED BY <3>3, <3>4
  <2> HIDE DEF ps, as, ds, rest, n, new
  <2>5. /\ Singles(rows) \in Seq(Seq(RowType)) /\ Len(Singles(rows)) = n
        /\ FlattenSeq(Singles(rows)) = rows
    BY <2>1, SinglesAre DEF n
  <2>6. Even(FlattenSeq(ps), gone, rows, FlattenSeq(as))
    <3>1. Even(FlattenSeq(ps), FlattenSeq(ds), FlattenSeq(Singles(rows)), FlattenSeq(as))
      BY <2>2, <2>3, <2>4, <2>5, Balance
    <3> QED BY <2>5, <3>1
  <2>7. /\ FlattenSeq(ps) \in Seq(RowType) /\ gone \in Seq(RowType) /\ FlattenSeq(as) \in Seq(RowType)
    BY <2>2, FlatType
  <2>8. fresh = Join(FlattenSeq(as), rest) /\ fresh \in Seq(RowType) /\ new \in Seq(RowType)
    <3>1. fresh = Join(FlattenSeq(as), rest)
      BY DEF Join
    <3>2. Join(FlattenSeq(as), rest) \in Seq(RowType) /\ Join(FlattenSeq(ps), rest) \in Seq(RowType)
      BY <2>2, <2>7, JoinFacts
    <3> QED BY <2>1, <3>1, <3>2
  <2>9. Even(new, gone, rows, fresh)
    <3>1. Even(rest, <<>>, <<>>, rest) /\ <<>> \in Seq(RowType)
      BY <2>2, EmptySeq, EvenSwap
    <3>2. /\ Join(gone, <<>>) = gone /\ Join(rows, <<>>) = rows
      BY <2>1, <2>7, JoinFacts
    <3> HIDE DEF gone, fresh
    <3>3. Even(Join(FlattenSeq(ps), rest), Join(gone, <<>>), Join(rows, <<>>), Join(FlattenSeq(as), rest))
      BY <2>1, <2>2, <2>6, <2>7, <3>1, EvenJoin
    <3> QED BY <2>1, <2>8, <3>2, <3>3
  <2> HIDE DEF gone, fresh
  <2>10. Counted(Tally(rows), gone, fresh) = Tally(new)
    <3>1. rows \in Seq(RowType) /\ gone \in Seq(RowType) /\ fresh \in Seq(RowType) /\ new \in Seq(RowType)
      BY <2>1, <2>7, <2>8
    <3> QED BY <2>9, <3>1, CountedIs
  <2> QED BY <2>1, <2>10 DEF rows, new
<1> QED BY <1>1, <1>2

-----------------------------------------------------------------------------
(***************************************************************************)
(* What the reads of the levels make of the rows.                           *)
(***************************************************************************)
Over(F, s) == [i \in 1..Len(s) |-> F[s[i]]]
OverEach(F, ss) == [c \in 1..Len(ss) |-> Over(F, ss[c])]

\* A function over a sequence, one element after the other.
LEMMA OverIs ==
  ASSUME NEW T, NEW F \in [T -> T], NEW s \in Seq(T)
  PROVE  /\ Over(F, s) \in Seq(T) /\ Len(Over(F, s)) = Len(s)
         /\ \A i \in 1..Len(s) : Over(F, s)[i] = F[s[i]]
<1> DEFINE n == Len(s)
           ee(i) == F[s[i]]
<1>1. n \in Nat /\ \A i \in 1..n : s[i] \in T
  BY LenProperties, ElementOfSeq
<1>2. \A i \in 1..n : ee(i) \in T
  BY <1>1
<1>3. Over(F, s) = [i \in 1..n |-> ee(i)]
  BY DEF Over
<1> HIDE DEF ee, n
<1>4. [i \in 1..n |-> ee(i)] \in Seq(T)
  BY <1>1, <1>2, IsASeq
<1>5. Len([i \in 1..n |-> ee(i)]) = n
  BY <1>1
<1>6. \A i \in 1..n : Over(F, s)[i] = ee(i)
  BY <1>3
<1> QED BY <1>3, <1>4, <1>5, <1>6 DEF ee, n

\* Over two sequences put together.
LEMMA OverJoin ==
  ASSUME NEW T, NEW F \in [T -> T], NEW a \in Seq(T), NEW b \in Seq(T)
  PROVE  Over(F, Join(a, b)) = Join(Over(F, a), Over(F, b))
<1> DEFINE ab == a \o b
           m == Len(a)
           n == Len(b)
           fa == Over(F, a)
           fb == Over(F, b)
           x == Over(F, ab)
           y == fa \o fb
<1>1. /\ ab \in Seq(T) /\ Len(ab) = m + n /\ m \in Nat /\ n \in Nat
      /\ \A i \in 1..(m + n) : ab[i] = IF i <= m THEN a[i] ELSE b[i - m]
  BY ConcatProperties, LenProperties
<1>2. /\ fa \in Seq(T) /\ Len(fa) = m /\ \A i \in 1..m : fa[i] = F[a[i]]
      /\ fb \in Seq(T) /\ Len(fb) = n /\ \A i \in 1..n : fb[i] = F[b[i]]
  BY OverIs
<1> HIDE DEF ab, m, n
<1>3. x \in Seq(T) /\ Len(x) = m + n /\ \A i \in 1..(m + n) : x[i] = F[ab[i]]
  <2>1. ab \in Seq(T)
    BY <1>1
  <2>2. x \in Seq(T) /\ Len(x) = Len(ab) /\ \A i \in 1..Len(ab) : x[i] = F[ab[i]]
    BY <2>1, OverIs
  <2> HIDE DEF x
  <2> QED BY <1>1, <2>2
<1> HIDE DEF fa, fb, x
<1>4. y \in Seq(T) /\ Len(y) = m + n /\ \A i \in 1..(m + n) : y[i] = IF i <= m THEN fa[i] ELSE fb[i - m]
  <2>1. fa \in Seq(T) /\ fb \in Seq(T) /\ Len(fa) = m /\ Len(fb) = n
    BY <1>2
  <2> QED BY <2>1, ConcatProperties
<1> HIDE DEF y
<1>5. ASSUME NEW i \in 1..(m + n) PROVE x[i] = y[i]
  <2>1. CASE i <= m
    <3>1. i \in 1..m
      BY <1>1, <2>1
    <3>2. x[i] = F[ab[i]] /\ ab[i] = a[i]
      BY <1>1, <1>3, <2>1
    <3>3. y[i] = fa[i] /\ fa[i] = F[a[i]]
      BY <1>2, <1>4, <2>1, <3>1
    <3> QED BY <3>2, <3>3
  <2>2. CASE ~(i <= m)
    <3>1. i - m \in 1..n
      BY <1>1, <2>2
    <3>2. ab[i] = b[i - m] /\ y[i] = fb[i - m] /\ x[i] = F[ab[i]]
      BY <1>1, <1>3, <1>4, <2>2
    <3>3. fb[i - m] = F[b[i - m]]
      BY <1>2, <3>1
    <3> QED BY <3>2, <3>3
  <2> QED BY <2>1, <2>2
<1>6. x = y
  BY <1>1, <1>3, <1>4, <1>5, SeqEqual
<1> QED BY <1>6 DEF x, y, fa, fb, ab, Join

\* Each row changed where it is: the chunks keep their lengths, and so do the rows.
LEMMA OverFlat ==
  ASSUME NEW T, NEW F \in [T -> T], NEW max \in Nat, NEW ss \in Seq(Fit(T, max))
  PROVE  /\ OverEach(F, ss) \in Seq(Fit(T, max))
         /\ FlattenSeq(OverEach(F, ss)) = Over(F, FlattenSeq(ss))
<1> DEFINE n == Len(ss)
           ee(c) == Over(F, ss[c])
           ds == OverEach(F, ss)
<1>1. n \in Nat /\ ss \in Seq(Seq(T)) /\ \A c \in 1..n : ss[c] \in Fit(T, max)
  BY LenProperties, ElementOfSeq, FitSome
<1>2. ASSUME NEW c \in 1..n PROVE ee(c) \in Fit(T, max) /\ ee(c) \in Seq(T)
  <2>1. ss[c] \in Seq(T) /\ Len(ss[c]) \in 1..max
    BY <1>1 DEF Fit
  <2>2. ee(c) \in Seq(T) /\ Len(ee(c)) = Len(ss[c])
    BY <2>1, OverIs
  <2> HIDE DEF ee
  <2> QED BY <2>1, <2>2 DEF Fit
<1>3. ds = [c \in 1..n |-> ee(c)]
  BY DEF OverEach
<1>4. ds \in Seq(Fit(T, max)) /\ Len(ds) = n
  <2> HIDE DEF ee, n, ds
  <2>1. [c \in 1..n |-> ee(c)] \in Seq(Fit(T, max))
    BY <1>1, <1>2, IsASeq
  <2>2. Len([c \in 1..n |-> ee(c)]) = n
    BY <1>1
  <2> QED BY <1>3, <2>1, <2>2
<1>5. \A c \in 1..n : ds[c] = Over(F, ss[c])
  BY DEF OverEach
<1>6. PICK f : Parts(f, ss, T)
  BY <1>1, FlatIs
<1> DEFINE g == [c \in 0..n |-> Over(F, f[c])]
<1> HIDE DEF ds, ee
<1>7. Glued(g, ds, n)
  <2>1. g[0] = <<>>
    <3>1. 0 \in 0..n /\ f[0] = <<>>
      BY <1>1, <1>6 DEF Parts, Glued
    <3>2. Over(F, <<>>) = <<>>
      <4>1. <<>> \in Seq(T) /\ Len(<<>>) = 0
        BY EmptySeq
      <4>2. Over(F, <<>>) \in Seq(T) /\ Len(Over(F, <<>>)) = 0
        BY <4>1, OverIs
      <4> QED BY <4>2, EmptySeq
    <3> QED BY <3>1, <3>2
  <2>2. ASSUME NEW c \in 1..n PROVE g[c] = Join(g[c - 1], ds[c])
    <3>1. c \in 0..n /\ c - 1 \in 0..n
      BY <1>1
    <3>2. f[c] = Join(f[c - 1], ss[c]) /\ f[c - 1] \in Seq(T) /\ ss[c] \in Seq(T)
      BY <1>1, <1>6, FlatAppend
    <3>3. Over(F, f[c]) = Join(Over(F, f[c - 1]), Over(F, ss[c]))
      BY <3>2, OverJoin
    <3> QED BY <1>5, <3>1, <3>3
  <2> HIDE DEF g
  <2> QED BY <2>1, <2>2 DEF Glued
<1>8. ds \in Seq(Seq(T))
  BY <1>4, FitSome
<1>9. FlattenSeq(ds) = g[n]
  <2> HIDE DEF g, n
  <2> QED BY <1>4, <1>7, <1>8, FlatBy
<1>10. g[n] = Over(F, f[n]) /\ f[n] = FlattenSeq(ss)
  <2>1. n \in 0..n
    BY <1>1
  <2> QED BY <2>1, <1>6 DEF Parts
<1> QED BY <1>4, <1>9, <1>10 DEF ds

AskedRow == [row \in RowType |-> [row EXCEPT !.inRead = Asking(row)]]
AnsweredRow(known) ==
  [row \in RowType |->
    [row EXCEPT !.sev = IF Waiting(row) /\ row.line \in known THEN Level[row.line] ELSE @,
                !.asked = @ \/ row.inRead, !.inRead = FALSE]]

\* Asking changes neither a row's line nor its severity.
LEMMA AskedRowIs ==
  /\ AskedRow \in [RowType -> RowType]
  /\ \A row \in RowType : AskedRow[row].line = row.line /\ AskedRow[row].sev = row.sev
<1>1. ASSUME NEW row \in RowType
      PROVE  /\ [row EXCEPT !.inRead = Asking(row)] \in RowType
             /\ [row EXCEPT !.inRead = Asking(row)].line = row.line
             /\ [row EXCEPT !.inRead = Asking(row)].sev = row.sev
  <2>1. row.asked \in BOOLEAN
    BY DEF RowType
  <2>2. Asking(row) \in BOOLEAN
    BY <2>1 DEF Asking, Waiting
  <2> QED BY <2>2 DEF RowType
<1> QED BY <1>1 DEF AskedRow

\* An answer leaves a row its line.
LEMMA AnsweredRowIs ==
  ASSUME NEW known
  PROVE  /\ AnsweredRow(known) \in [RowType -> RowType]
         /\ \A row \in RowType : AnsweredRow(known)[row].line = row.line
<1> DEFINE sev(row) == IF Waiting(row) /\ row.line \in known THEN Level[row.line] ELSE row.sev
           new(row) == [row EXCEPT !.sev = sev(row), !.asked = row.asked \/ row.inRead, !.inRead = FALSE]
<1>1. ASSUME NEW row \in RowType PROVE new(row) \in RowType /\ new(row).line = row.line
  <2>1. sev(row) \in Severities
    BY LogViewAssumption DEF LogViewAssumption, RowType, Severities
  <2>2. (row.asked \/ row.inRead) \in BOOLEAN
    OBVIOUS
  <2> HIDE DEF sev
  <2> QED BY <2>1, <2>2 DEF RowType
<1>2. AnsweredRow(known) = [row \in RowType |-> new(row)]
  BY DEF AnsweredRow
<1> HIDE DEF new
<1> QED BY <1>1, <1>2

\* Asked goes over each row.
LEMMA AskedIs ==
  ASSUME NEW cs \in Seq(Seq(RowType))
  PROVE  Asked(cs) = OverEach(AskedRow, cs)
<1>1. Len(cs) \in Nat /\ DOMAIN cs = 1..Len(cs)
      /\ \A c \in 1..Len(cs) : cs[c] \in Seq(RowType)
  BY LenProperties, ElementOfSeq
<1>2. \A c \in 1..Len(cs) : DOMAIN cs[c] = 1..Len(cs[c]) /\ \A k \in 1..Len(cs[c]) : cs[c][k] \in RowType
  BY <1>1, LenProperties, ElementOfSeq
<1>3. Asked(cs) = [c \in 1..Len(cs) |-> [k \in 1..Len(cs[c]) |-> [cs[c][k] EXCEPT !.inRead = Asking(cs[c][k])]]]
  BY <1>1, <1>2 DEF Asked, MapRows
<1>4. ASSUME NEW c \in 1..Len(cs)
      PROVE  Over(AskedRow, cs[c]) = [k \in 1..Len(cs[c]) |-> [cs[c][k] EXCEPT !.inRead = Asking(cs[c][k])]]
  BY <1>2 DEF Over, AskedRow
<1> QED BY <1>3, <1>4 DEF OverEach

\* Answered goes over each row.
LEMMA AnsweredIs ==
  ASSUME NEW cs \in Seq(Seq(RowType)), NEW known
  PROVE  Answered(cs, known) = OverEach(AnsweredRow(known), cs)
<1> DEFINE new(row) == [row EXCEPT !.sev = IF Waiting(row) /\ row.line \in known THEN Level[row.line] ELSE @,
                                   !.asked = @ \/ row.inRead, !.inRead = FALSE]
<1>1. Len(cs) \in Nat /\ DOMAIN cs = 1..Len(cs)
      /\ \A c \in 1..Len(cs) : cs[c] \in Seq(RowType)
  BY LenProperties, ElementOfSeq
<1>2. \A c \in 1..Len(cs) : DOMAIN cs[c] = 1..Len(cs[c]) /\ \A k \in 1..Len(cs[c]) : cs[c][k] \in RowType
  BY <1>1, LenProperties, ElementOfSeq
<1>3. Answered(cs, known) = [c \in DOMAIN cs |-> [k \in DOMAIN cs[c] |-> new(cs[c][k])]]
  BY DEF Answered, MapRows
<1>4. AnsweredRow(known) = [row \in RowType |-> new(row)]
  BY DEF AnsweredRow
<1> HIDE DEF new
<1>5. ASSUME NEW c \in 1..Len(cs)
      PROVE  Over(AnsweredRow(known), cs[c]) = [k \in 1..Len(cs[c]) |-> new(cs[c][k])]
  BY <1>2, <1>4 DEF Over
<1>6. Answered(cs, known) = [c \in 1..Len(cs) |-> [k \in 1..Len(cs[c]) |-> new(cs[c][k])]]
  BY <1>1, <1>2, <1>3
<1> QED BY <1>5, <1>6 DEF OverEach

\* A function that leaves each row its line leaves the lines.
LEMMA OverLines ==
  ASSUME NEW F \in [RowType -> RowType], \A row \in RowType : F[row].line = row.line,
         NEW a \in Seq(RowType)
  PROVE  LinesOf(Over(F, a)) = LinesOf(a)
<1> DEFINE b == Over(F, a)
           n == Len(a)
           x == LinesOf(b)
           y == LinesOf(a)
<1>1. b \in Seq(RowType) /\ Len(b) = n /\ \A i \in 1..n : b[i] = F[a[i]]
  BY OverIs
<1>2. n \in Nat /\ \A i \in 1..n : a[i] \in RowType
  BY LenProperties, ElementOfSeq
<1> HIDE DEF b
<1>3. x \in Seq(Lines) /\ Len(x) = n /\ \A i \in 1..n : x[i] = b[i].line
  <2>1. x \in Seq(Lines) /\ Len(x) = Len(b) /\ \A i \in 1..Len(b) : x[i] = b[i].line
    BY <1>1, LinesOfIs
  <2> HIDE DEF x
  <2> QED BY <1>1, <2>1
<1>4. y \in Seq(Lines) /\ Len(y) = n /\ \A i \in 1..n : y[i] = a[i].line
  BY LinesOfIs
<1> HIDE DEF x, y, n
<1>5. ASSUME NEW i \in 1..n PROVE x[i] = y[i]
  <2>1. a[i] \in RowType /\ b[i] = F[a[i]]
    BY <1>1, <1>2
  <2>2. F[a[i]].line = a[i].line
    BY <2>1
  <2> QED BY <1>3, <1>4, <2>1, <2>2
<1>6. x = y
  BY <1>3, <1>4, <1>5, SeqEqual
<1> QED BY <1>6 DEF x, y, b

\* One that leaves each row its line and its severity leaves the counts.
LEMMA OverTally ==
  ASSUME NEW F \in [RowType -> RowType], NEW a \in Seq(RowType),
         \A row \in RowType : F[row].line = row.line /\ F[row].sev = row.sev
  PROVE  Tally(Over(F, a)) = Tally(a)
<1> DEFINE b == Over(F, a)
<1>1. b \in Seq(RowType) /\ Len(b) = Len(a) /\ \A i \in 1..Len(a) : b[i] = F[a[i]]
  BY OverIs
<1> HIDE DEF b
<1>2. \A i \in 1..Len(a) : a[i] \in RowType /\ b[i] \in RowType
  BY <1>1, ElementOfSeq
<1>3. ASSUME NEW k \in Keys PROVE Weight(k, b) = Weight(k, a)
  <2>1. ASSUME NEW i \in 1..Len(a) PROVE b[i] \in Class(k) <=> a[i] \in Class(k)
    <3>1. b[i].line = a[i].line /\ b[i].sev = a[i].sev /\ a[i] \in RowType /\ b[i] \in RowType
      BY <1>1, <1>2
    <3> QED BY <3>1 DEF Class
  <2>2. Places(b, Class(k)) = Places(a, Class(k))
    BY <1>1, <2>1 DEF Places
  <2> QED BY <2>2 DEF Weight, Number
<1>4. Tally(b) = [k \in Keys |-> Weight(k, b)] /\ Tally(a) = [k \in Keys |-> Weight(k, a)]
  BY <1>1, TallyIs
<1> QED BY <1>3, <1>4 DEF b

\* Asking changes no line, no severity and no chunk's length.
LEMMA AskedKeeps ==
  ASSUME NEW cs \in Seq(Fit(RowType, 2 * CHUNK))
  PROVE  /\ Asked(cs) \in Seq(Fit(RowType, 2 * CHUNK))
         /\ LinesOf(FlattenSeq(Asked(cs))) = LinesOf(FlattenSeq(cs))
         /\ Tally(FlattenSeq(Asked(cs))) = Tally(FlattenSeq(cs))
<1>1. 2 * CHUNK \in Nat
  BY LogViewAssumption DEF LogViewAssumption
<1>2. cs \in Seq(Seq(RowType)) /\ FlattenSeq(cs) \in Seq(RowType)
  BY <1>1, FitSome, FlatType
<1>3. Asked(cs) \in Seq(Fit(RowType, 2 * CHUNK)) /\ FlattenSeq(Asked(cs)) = Over(AskedRow, FlattenSeq(cs))
  BY <1>1, <1>2, AskedIs, AskedRowIs, OverFlat
<1> QED BY <1>2, <1>3, AskedRowIs, OverLines, OverTally

\* An answer changes no line, and the severities it changes are counted again.
LEMMA RecountedIs ==
  ASSUME NEW F \in [RowType -> RowType], \A row \in RowType : F[row].line = row.line,
         NEW old \in Seq(RowType)
  PROVE  Recounted(Tally(old), old, Over(F, old)) = Tally(Over(F, old))
<1> DEFINE new == Over(F, old)
           n == Len(old)
           ex(i) == IF old[i].sev = new[i].sev THEN <<>> ELSE <<old[i]>>
           ey(i) == IF old[i].sev = new[i].sev THEN <<>> ELSE <<new[i]>>
           off == [i \in 1..n |-> ex(i)]
           up == [i \in 1..n |-> ey(i)]
<1>1. new \in Seq(RowType) /\ Len(new) = n /\ \A i \in 1..n : new[i] = F[old[i]]
  BY OverIs
<1>2. n \in Nat /\ DOMAIN old = 1..n /\ \A i \in 1..n : old[i] \in RowType
  BY LenProperties, ElementOfSeq
<1>3. Recounted(Tally(old), old, new) = Counted(Tally(old), FlattenSeq(off), FlattenSeq(up))
  BY <1>2 DEF Recounted
<1> HIDE DEF new
<1>4. \A i \in 1..n : new[i] \in RowType /\ new[i].line = old[i].line
  BY <1>1, <1>2
<1>5. \A i \in 1..n : /\ ex(i) \in Seq(RowType) /\ ey(i) \in Seq(RowType)
                      /\ <<old[i]>> \in Seq(RowType) /\ <<new[i]>> \in Seq(RowType)
  BY <1>2, <1>4, EmptySeq, OneSome
<1>6. ASSUME NEW i \in 1..n PROVE Even(<<new[i]>>, ex(i), <<old[i]>>, ey(i))
  <2>1. CASE old[i].sev = new[i].sev
    <3>1. ex(i) = <<>> /\ ey(i) = <<>>
      BY <2>1
    <3>2. ASSUME NEW k \in Keys PROVE Weight(k, <<new[i]>>) = Weight(k, <<old[i]>>)
      <4>1. new[i] \in Class(k) <=> old[i] \in Class(k)
        BY <1>2, <1>4, <2>1 DEF Class
      <4>2. Places(<<new[i]>>, Class(k)) = Places(<<old[i]>>, Class(k))
        BY <4>1 DEF Places
      <4> QED BY <4>2 DEF Weight, Number
    <3>3. Even(<<old[i]>>, <<>>, <<old[i]>>, <<>>)
      BY <1>5, EmptySeq, EvenSwap
    <3>4. Even(<<new[i]>>, <<>>, <<old[i]>>, <<>>)
      BY <3>2, <3>3 DEF Even
    <3> HIDE DEF ex, ey
    <3> QED BY <3>1, <3>4
  <2>2. CASE old[i].sev # new[i].sev
    <3>1. ex(i) = <<old[i]>> /\ ey(i) = <<new[i]>>
      BY <2>2
    <3>2. Even(<<new[i]>>, <<old[i]>>, <<old[i]>>, <<new[i]>>)
      BY <1>5, EvenSwap
    <3> HIDE DEF ex, ey
    <3> QED BY <3>1, <3>2
  <2> QED BY <2>1, <2>2
<1> HIDE DEF ex, ey, n
<1>7. off \in Seq(Seq(RowType)) /\ up \in Seq(Seq(RowType)) /\ Len(off) = n /\ Len(up) = n
      /\ \A i \in 1..n : off[i] = ex(i) /\ up[i] = ey(i)
  <2>1. off \in Seq(Seq(RowType))
    BY <1>2, <1>5, IsASeq
  <2>2. up \in Seq(Seq(RowType))
    BY <1>2, <1>5, IsASeq
  <2>3. n \in Nat
    BY <1>2
  <2> QED BY <2>1, <2>2, <2>3
<1> HIDE DEF off, up
<1>8. /\ Singles(old) \in Seq(Seq(RowType)) /\ Len(Singles(old)) = n /\ FlattenSeq(Singles(old)) = old
      /\ \A i \in 1..n : Singles(old)[i] = <<old[i]>>
  BY SinglesAre DEF Singles, n
<1>9. /\ Singles(new) \in Seq(Seq(RowType)) /\ Len(Singles(new)) = n /\ FlattenSeq(Singles(new)) = new
      /\ \A i \in 1..n : Singles(new)[i] = <<new[i]>>
  BY <1>1, SinglesAre DEF Singles
<1>10. \A i \in 1..n : Even(Singles(new)[i], off[i], Singles(old)[i], up[i])
  BY <1>6, <1>7, <1>8, <1>9
<1>11. Even(new, FlattenSeq(off), old, FlattenSeq(up))
  <2>1. Even(FlattenSeq(Singles(new)), FlattenSeq(off), FlattenSeq(Singles(old)), FlattenSeq(up))
    BY <1>2, <1>7, <1>8, <1>9, <1>10, Balance
  <2> QED BY <1>8, <1>9, <2>1
<1>12. FlattenSeq(off) \in Seq(RowType) /\ FlattenSeq(up) \in Seq(RowType)
  BY <1>7, FlatType
<1>13. Counted(Tally(old), FlattenSeq(off), FlattenSeq(up)) = Tally(new)
  BY <1>1, <1>11, <1>12, CountedIs
<1> QED BY <1>3, <1>13 DEF new

\* The answer to a read, chunk by chunk.
LEMMA AnsweredKeeps ==
  ASSUME NEW cs \in Seq(Fit(RowType, 2 * CHUNK)), NEW known
  PROVE  /\ Answered(cs, known) \in Seq(Fit(RowType, 2 * CHUNK))
         /\ LinesOf(FlattenSeq(Answered(cs, known))) = LinesOf(FlattenSeq(cs))
         /\ Recounted(Tally(FlattenSeq(cs)), FlattenSeq(cs), FlattenSeq(Answered(cs, known)))
              = Tally(FlattenSeq(Answered(cs, known)))
<1>1. 2 * CHUNK \in Nat
  BY LogViewAssumption DEF LogViewAssumption
<1>2. cs \in Seq(Seq(RowType)) /\ FlattenSeq(cs) \in Seq(RowType)
  BY <1>1, FitSome, FlatType
<1> DEFINE F == AnsweredRow(known)
           rows == FlattenSeq(cs)
<1>3. /\ F \in [RowType -> RowType] /\ \A row \in RowType : F[row].line = row.line
      /\ Answered(cs, known) = OverEach(F, cs)
  BY <1>2, AnsweredIs, AnsweredRowIs
<1> HIDE DEF F
<1>4. OverEach(F, cs) \in Seq(Fit(RowType, 2 * CHUNK)) /\ FlattenSeq(OverEach(F, cs)) = Over(F, rows)
  BY <1>1, <1>3, OverFlat
<1> HIDE DEF rows
<1>5. rows \in Seq(RowType)
  BY <1>2 DEF rows
<1>6. LinesOf(Over(F, rows)) = LinesOf(rows) /\ Recounted(Tally(rows), rows, Over(F, rows)) = Tally(Over(F, rows))
  BY <1>3, <1>5, OverLines, RecountedIs
<1> QED BY <1>3, <1>4, <1>6 DEF rows

\* A view drawn afresh: its rows are the text, or there are none.
LEMMA AttachedIs ==
  ASSUME NEW text \in Seq(Lines)
  PROVE  /\ Attached(text).on \in BOOLEAN
         /\ Attached(text).chunks \in Seq(Fit(RowType, 2 * CHUNK))
         /\ Attached(text).count = Tally(FlattenSeq(Attached(text).chunks))
         /\ Attached(text).on => LinesOf(FlattenSeq(Attached(text).chunks)) = text
<1> DEFINE rows == [i \in DOMAIN text |-> BuildRow(levels, text[i])]
           a == Attached(text)
           cs == Settled(Filled(<<>>, rows))
<1>1. rows \in Seq(RowType) /\ LinesOf(rows) = text
  <2>1. rows = Build(text, 1, Len(text))
    BY SubSeqFull DEF Build
  <2>2. 1 \in 1..(Len(text) + 1) /\ Len(text) \in 0..Len(text)
    BY LenProperties
  <2>3. rows \in Seq(RowType) /\ LinesOf(rows) = SubSeq(text, 1, Len(text))
    <3> HIDE DEF rows
    <3> QED BY <2>1, <2>2, BuildIs
  <2> QED BY <2>3, SubSeqFull
<1>2. /\ a.on = Usable(Tally(rows)) /\ a.chunks = IF Usable(Tally(rows)) THEN cs ELSE <<>>
      /\ a.count = IF Usable(Tally(rows)) THEN Tally(rows) ELSE Zero
  BY DEF Attached
<1> HIDE DEF rows, a
<1>3. cs \in Seq(Fit(RowType, 2 * CHUNK)) /\ FlattenSeq(cs) = rows
  <2>1. <<>> \in Seq(Some(RowType))
    BY EmptySeq
  <2>2. /\ Filled(<<>>, rows) \in Seq(Some(RowType))
        /\ FlattenSeq(Filled(<<>>, rows)) = Join(FlattenSeq(<<>>), rows)
    BY <1>1, <2>1, FilledIs
  <2>3. Join(FlattenSeq(<<>>), rows) = rows
    BY <1>1, FlatEmpty, JoinFacts
  <2> QED BY <2>2, <2>3, SettledIs
<1> HIDE DEF cs
<1>4. CASE Usable(Tally(rows))
  BY <1>1, <1>2, <1>3, <1>4 DEF a
<1>5. CASE ~Usable(Tally(rows))
  <2>1. a.on = FALSE /\ a.chunks = <<>> /\ a.count = Zero
    BY <1>2, <1>5
  <2>2. <<>> \in Seq(Fit(RowType, 2 * CHUNK)) /\ Tally(FlattenSeq(<<>>)) = Zero
    BY EmptySeq, FlatEmpty, TallyEmpty
  <2> QED BY <2>1, <2>2 DEF a
<1> QED BY <1>4, <1>5

-----------------------------------------------------------------------------
(***************************************************************************)
(* The invariant: what is shown is the rows' lines, and with no frame to       *)
(* come it is what LuCI has written.                                         *)
(***************************************************************************)
LogInv ==
  /\ ring \in Seq(Lines) /\ value \in Seq(Lines) /\ shown \in Seq(Lines)
  /\ on \in BOOLEAN /\ queued \in BOOLEAN /\ views \in Nat
  /\ chunks \in Seq(Fit(RowType, 2 * CHUNK))
  /\ count = Tally(Rows)
  /\ on => LinesOf(Rows) = shown
  /\ on /\ ~queued => value = shown

\* What LuCI writes is lines.
LEMMA TextsType == ASSUME ring \in Seq(Lines) PROVE Texts \subseteq Seq(Lines)
<1>1. ASSUME NEW f \in Filters
      PROVE  Without(ring, f) \in Seq(Lines) /\ Reverse(Without(ring, f)) \in Seq(Lines)
  <2> DEFINE t == Without(ring, f)
             n == Len(t)
             ee(i) == t[n - i + 1]
  <2>1. t \in Seq(Lines)
    <3>1. t \in Seq(Lines \ f)
      BY WithoutType
    <3> HIDE DEF t
    <3> QED BY <3>1
  <2> HIDE DEF t
  <2>2. n \in Nat /\ \A i \in 1..n : t[i] \in Lines
    BY <2>1, LenProperties, ElementOfSeq
  <2>3. \A i \in 1..n : ee(i) \in Lines
    <3>1. \A i \in 1..n : n - i + 1 \in 1..n
      BY <2>2
    <3> QED BY <2>2, <3>1
  <2>4. Reverse(t) = [i \in 1..n |-> ee(i)]
    BY DEF Reverse
  <2> HIDE DEF n, ee
  <2>5. [i \in 1..n |-> ee(i)] \in Seq(Lines)
    BY <2>2, <2>3, IsASeq
  <2> QED BY <2>1, <2>4, <2>5 DEF t
<1> QED BY <1>1 DEF Texts

\* readLevels changes no line, no count and no chunk's length.
LEMMA ReadLevelsKeeps ==
  ASSUME NEW cs \in Seq(Fit(RowType, 2 * CHUNK)), ReadLevels(cs)
  PROVE  /\ chunks' \in Seq(Fit(RowType, 2 * CHUNK))
         /\ LinesOf(FlattenSeq(chunks')) = LinesOf(FlattenSeq(cs))
         /\ Tally(FlattenSeq(chunks')) = Tally(FlattenSeq(cs))
<1>1. chunks' = Asked(cs) \/ chunks' = cs
  BY DEF ReadLevels
<1> QED BY <1>1, AskedKeeps

\* The page as it is opened.
LEMMA LogInit == ASSUME Init PROVE LogInv
<1>1. <<>> \in Seq(Lines) /\ <<>> \in Seq(Fit(RowType, 2 * CHUNK)) /\ LinesOf(<<>>) = <<>>
  BY EmptySeq DEF LinesOf
<1>2. Log \in Seq(Lines)
  BY LogViewAssumption DEF LogViewAssumption
<1>3. count = Tally(Rows) /\ Rows = <<>>
  BY FlatEmpty, TallyEmpty DEF Init, Rows
<1> QED BY <1>1, <1>2, <1>3 DEF Init, LogInv

\* Every step keeps the invariant.
LEMMA LogNext == ASSUME LogInv, [Next]_vars PROVE LogInv'
<1>1. ASSUME UNCHANGED vars PROVE LogInv'
  BY <1>1 DEF LogInv, vars, log, luci, drawn, reads, Rows
<1>2. ASSUME NEW l \in Lines, Logs(l) PROVE LogInv'
  <2>1. ring' \in Seq(Lines)
    <3>1. Append(ring, l) \in Seq(Lines) /\ Append(ring, l) # <<>>
      BY AppendProperties DEF LogInv
    <3>2. Tail(Append(ring, l)) \in Seq(Lines)
      BY <3>1, HeadTailProperties
    <3> QED BY <1>2, <3>1, <3>2 DEF Logs
  <2> QED BY <1>2, <2>1 DEF Logs, LogInv, luci, drawn, reads, Rows
<1>3. ASSUME NEW text \in Texts, Writes(text) PROVE LogInv'
  <2>1. text \in Seq(Lines)
    BY TextsType DEF LogInv
  <2>2. queued' \in BOOLEAN /\ (on' /\ ~queued' => FALSE)
    BY <1>3 DEF Writes, LogInv
  <2> QED BY <1>3, <2>1, <2>2 DEF Writes, LogInv, log, drawn, reads, Rows
<1>4. ASSUME NEW text \in Texts, Redrawn(text) PROVE LogInv'
  <2> DEFINE a == Attached(text)
  <2>1. text \in Seq(Lines)
    BY TextsType DEF LogInv
  <2>2. /\ a.on \in BOOLEAN /\ a.chunks \in Seq(Fit(RowType, 2 * CHUNK))
        /\ a.count = Tally(FlattenSeq(a.chunks))
        /\ a.on => LinesOf(FlattenSeq(a.chunks)) = text
    BY <2>1, AttachedIs
  <2>3. /\ views' = views + 1 /\ value' = text /\ on' = a.on /\ shown' = IF a.on THEN text ELSE shown
        /\ count' = a.count /\ ReadLevels(a.chunks) /\ ring' = ring /\ queued' = queued
    BY <1>4 DEF Redrawn, log
  <2> HIDE DEF a
  <2>4. /\ chunks' \in Seq(Fit(RowType, 2 * CHUNK))
        /\ LinesOf(FlattenSeq(chunks')) = LinesOf(FlattenSeq(a.chunks))
        /\ Tally(FlattenSeq(chunks')) = Tally(FlattenSeq(a.chunks))
    BY <2>2, <2>3, ReadLevelsKeeps
  <2> QED BY <2>1, <2>2, <2>3, <2>4 DEF LogInv, Rows
<1>5. ASSUME Frame PROVE LogInv'
  <2>1. CASE ~on \/ value = shown
    BY <1>5, <2>1 DEF Frame, LogInv, log, luci, drawn, Rows
  <2>2. CASE ~(~on \/ value = shown)
    <3> DEFINE s == Sync(value)
    <3>1. /\ shown' = value /\ count' = s.count /\ ReadLevels(s.chunks) /\ queued' = FALSE
          /\ ring' = ring /\ value' = value /\ on' = on /\ views' = views
      BY <1>5, <2>2 DEF Frame, log, luci
    <3>2. value \in Seq(Lines) /\ chunks \in Seq(Seq(RowType)) /\ count = Tally(Rows)
      <4>1. 2 * CHUNK \in Nat
        BY LogViewAssumption DEF LogViewAssumption
      <4> QED BY <4>1, FitSome DEF LogInv
    <3>3. /\ s.chunks \in Seq(Fit(RowType, 2 * CHUNK)) /\ LinesOf(FlattenSeq(s.chunks)) = value
          /\ s.count = Tally(FlattenSeq(s.chunks))
      BY <3>2, SyncLines, SyncCount
    <3> HIDE DEF s
    <3>4. /\ chunks' \in Seq(Fit(RowType, 2 * CHUNK))
          /\ LinesOf(FlattenSeq(chunks')) = LinesOf(FlattenSeq(s.chunks))
          /\ Tally(FlattenSeq(chunks')) = Tally(FlattenSeq(s.chunks))
      BY <3>1, <3>3, ReadLevelsKeeps
    <3> QED BY <3>1, <3>3, <3>4 DEF LogInv, Rows
  <2> QED BY <2>1, <2>2
<1>6. ASSUME NEW m \in {"list", "raw"}, Press(m) PROVE LogInv'
  BY <1>6 DEF Press, LogInv, log, luci, drawn, reads, Rows
<1>7. ASSUME NEW known, ReadEnds(known) PROVE LogInv'
  <2> DEFINE cs == Answered(chunks, known)
  <2>1. CASE ~on
    BY <1>7, <2>1 DEF ReadEnds, LogInv, log, luci, drawn, Rows
  <2>2. CASE on
    <3>1. /\ count' = Recounted(count, Rows, FlattenSeq(cs)) /\ (chunks' = Asked(cs) \/ chunks' = cs)
          /\ ring' = ring /\ luci' = luci /\ on' = on /\ shown' = shown /\ queued' = queued
      BY <1>7, <2>2 DEF ReadEnds, log, luci
    <3>2. /\ cs \in Seq(Fit(RowType, 2 * CHUNK)) /\ LinesOf(FlattenSeq(cs)) = LinesOf(Rows)
          /\ Recounted(count, Rows, FlattenSeq(cs)) = Tally(FlattenSeq(cs))
      BY AnsweredKeeps DEF LogInv, Rows
    <3> HIDE DEF cs
    <3>3. /\ chunks' \in Seq(Fit(RowType, 2 * CHUNK))
          /\ LinesOf(FlattenSeq(chunks')) = LinesOf(FlattenSeq(cs))
          /\ Tally(FlattenSeq(chunks')) = Tally(FlattenSeq(cs))
      BY <3>1, <3>2, AskedKeeps
    <3> QED BY <3>1, <3>2, <3>3 DEF LogInv, Rows, luci
  <2> QED BY <2>1, <2>2 DEF LogInv
<1> QED BY <1>1, <1>2, <1>3, <1>4, <1>5, <1>6, <1>7 DEF Next, ReadAnswered, ReadFails

\* In every reachable state the rows are typed and shown as said above.
THEOREM LogInvHolds == Spec => []LogInv
<1>1. Init => LogInv
  BY LogInit
<1>2. LogInv /\ [Next]_vars => LogInv'
  BY LogNext
<1> QED BY <1>1, <1>2, PTL DEF Spec

\* update's promise (logs.js:278): with no frame to come the rows are the log as LuCI has
\* written it, line by line, for any lines, filters, and size of the log and of a chunk.
THEOREM RowsAlwaysAreTheLog == Spec => []RowsAreTheLog
<1>1. LogInv => RowsAreTheLog
  BY DEF LogInv, RowsAreTheLog
<1> QED BY <1>1, LogInvHolds, PTL

\* tally (logs.js:544): the counts kept by every redraw, by every answer about the levels
\* and by every view drawn afresh are those of the rows there are.
THEOREM CountsAlwaysAreTheRows == Spec => []CountsAreTheRows
<1>1. LogInv => CountsAreTheRows
  BY DEF LogInv, CountsAreTheRows
<1> QED BY <1>1, LogInvHolds, PTL

\* append and settle (logs.js:416, 439): no chunk is left empty or longer than twice its
\* length, however many rows a redraw puts in above others.
THEOREM ChunksAlwaysFit == Spec => []ChunksFit
<1>1. ASSUME LogInv PROVE ChunksFit
  <2>1. ASSUME NEW c \in DOMAIN chunks PROVE Len(chunks[c]) \in 1..(2 * CHUNK)
    <3>1. chunks[c] \in Fit(RowType, 2 * CHUNK)
      <4>1. chunks \in Seq(Fit(RowType, 2 * CHUNK))
        BY <1>1 DEF LogInv
      <4> QED BY <4>1, LenProperties, ElementOfSeq
    <3> QED BY <3>1 DEF Fit
  <2> QED BY <2>1 DEF ChunksFit
<1>2. LogInv => ChunksFit
  BY <1>1
<1> QED BY <1>2, LogInvHolds, PTL

-----------------------------------------------------------------------------
(***************************************************************************)
(* A poll that drops the oldest lines: the walk keeps the other rows where     *)
(* they are, or one line ahead, and builds nothing above any but the last.     *)
(***************************************************************************)
Polled(lines, rows, d) ==
  /\ d \in 0..(Len(rows) - 1) /\ Len(rows) - d <= Len(lines)
  /\ \A x \in 1..(Len(rows) - d) : lines[x] = rows[d + x].line
  /\ \A i \in 1..(d - 1) : \A x \in 1..Len(lines) : lines[x] # rows[i].line

\* How many rows build builds.
LEMMA BuildLength ==
  ASSUME NEW lines \in Seq(Lines), NEW i \in 1..(Len(lines) + 1), NEW j \in 0..Len(lines)
  PROVE  Len(Build(lines, i, j)) = IF i <= j THEN j - i + 1 ELSE 0
<1>1. Len(Build(lines, i, j)) = Len(SubSeq(lines, i, j))
  BY BuildIs, LinesOfIs
<1>2. Len(SubSeq(lines, i, j)) = IF i <= j THEN j - i + 1 ELSE 0
  <2>1. Len(lines) \in Nat /\ \A x \in 1..Len(lines) : lines[x] \in Lines
    BY LenProperties, ElementOfSeq
  <2>2. i \in Int /\ j \in Int /\ \A x \in i..j : lines[x] \in Lines
    BY <2>1
  <2> QED BY <2>2, SubSeqProperties
<1> QED BY <1>1, <1>2

\* Where a row is found that the walk comes to: nowhere if it was dropped, at the walk's
\* place if that is where its line has gone, and if the walk is one line ahead, there or
\* not at all, for the line of the row after it is there.
LEMMA PollStep ==
  ASSUME NEW lines \in Seq(Lines), NEW rows \in Seq(RowType), NEW d, Polled(lines, rows, d),
         NEW i \in 1..Len(rows)
  PROVE  /\ i < d => ~Keeps(lines, rows, i, 1)
         /\ i > d => Keeps(lines, rows, i, i - d) /\ FirstAt(lines, rows[i].line, i - d) = i - d
         /\ i >= d /\ i < Len(rows) /\ Keeps(lines, rows, i, i - d + 1)
              => FirstAt(lines, rows[i].line, i - d + 1) = i - d + 1
<1> DEFINE n == Len(rows)
           l == Len(lines)
<1>1. n \in Nat /\ l \in Nat /\ d \in Nat /\ d < n /\ n - d <= l /\ i \in 1..n
  BY LenProperties DEF Polled
<1>2. ASSUME i < d PROVE ~Keeps(lines, rows, i, 1)
  <2> DEFINE k == FirstAt(lines, rows[i].line, 1)
  <2>1. 1 \in 1..(l + 1) /\ i \in 1..(d - 1)
    BY <1>1, <1>2
  <2>2. k = 0 \/ (k \in 1..l /\ lines[k] = rows[i].line)
    BY <2>1, FirstIs
  <2>3. \A x \in 1..l : lines[x] # rows[i].line
    BY <2>1 DEF Polled
  <2> HIDE DEF k
  <2>4. k = 0
    BY <2>2, <2>3
  <2> QED BY <2>4 DEF Keeps, k
<1>3. ASSUME NEW j \in 1..(n - d)
      PROVE  /\ j \in 1..l /\ FirstAt(lines, rows[d + j].line, j) = j
  <2> DEFINE k == FirstAt(lines, rows[d + j].line, j)
  <2>1. j \in 1..l /\ j \in 1..(l + 1) /\ j \in j..l /\ j \in Nat
    BY <1>1
  <2>2. lines[j] = rows[d + j].line
    BY DEF Polled
  <2>3. \/ k = 0 /\ \A x \in j..l : lines[x] # rows[d + j].line
        \/ k \in j..l /\ \A x \in j..(k - 1) : lines[x] # rows[d + j].line
    BY <2>1, FirstIs
  <2> HIDE DEF k
  <2>4. k \in j..l /\ ~(j \in j..(k - 1))
    BY <2>1, <2>2, <2>3
  <2>5. k = j
    BY <2>1, <2>4
  <2> QED BY <2>1, <2>5 DEF k
<1>4. ASSUME i > d PROVE Keeps(lines, rows, i, i - d) /\ FirstAt(lines, rows[i].line, i - d) = i - d
  <2> DEFINE j == i - d
             k == FirstAt(lines, rows[i].line, j)
  <2>1. j \in 1..(n - d) /\ d + j = i
    BY <1>1, <1>4
  <2>2. FirstAt(lines, rows[d + j].line, j) = j
    BY <1>3, <2>1
  <2>3. k = j /\ j \in Nat /\ j # 0
    BY <2>1, <2>2
  <2> HIDE DEF j, k
  <2>4. Keeps(lines, rows, i, j)
    <3>1. k # 0 /\ ~(k > j)
      BY <2>3
    <3>2. Keeps(lines, rows, i, j)
            = (k # 0 /\ ~((IF k > j /\ i < n THEN FirstAt(lines, rows[i + 1].line, j) ELSE 0) >= j
                          /\ (IF k > j /\ i < n THEN FirstAt(lines, rows[i + 1].line, j) ELSE 0) < k))
      BY DEF Keeps, k
    <3>3. (IF k > j /\ i < n THEN FirstAt(lines, rows[i + 1].line, j) ELSE 0) = 0 /\ ~(0 >= j)
      BY <2>3, <3>1
    <3> QED BY <3>1, <3>2, <3>3
  <2> QED BY <2>3, <2>4 DEF j, k
<1>5. ASSUME i >= d, i < n, Keeps(lines, rows, i, i - d + 1)
      PROVE  FirstAt(lines, rows[i].line, i - d + 1) = i - d + 1
  <2> DEFINE j == i - d + 1
             k == FirstAt(lines, rows[i].line, j)
             k2 == FirstAt(lines, rows[i + 1].line, j)
             later == IF k > j /\ i < n THEN k2 ELSE 0
  <2>1. j \in 1..(n - d) /\ d + j = i + 1 /\ j \in Nat
    BY <1>1, <1>5
  <2>2. j \in 1..(l + 1) /\ k2 = j
    <3>1. j \in 1..l /\ FirstAt(lines, rows[d + j].line, j) = j
      BY <1>3, <2>1
    <3> HIDE DEF j
    <3> QED BY <1>1, <2>1, <3>1
  <2>3. k # 0 /\ ~(later >= j /\ later < k)
    BY <1>5 DEF Keeps
  <2>4. k = 0 \/ k \in j..l
    BY <2>2, FirstIs
  <2> HIDE DEF j, k, k2
  <2>5. k = j
    <3>1. CASE k > j
      <4>1. later = j
        BY <1>5, <2>2, <3>1
      <4> HIDE DEF later
      <4> QED BY <2>1, <2>3, <3>1, <4>1
    <3>2. CASE ~(k > j)
      BY <1>1, <2>1, <2>3, <2>4, <3>2
    <3> QED BY <3>1, <3>2
  <2> QED BY <2>5 DEF j, k
<1> QED BY <1>2, <1>4, <1>5

\* So before the last row the walk is at the row's own line, or one ahead.
LEMMA PollWalk ==
  ASSUME NEW lines \in Seq(Lines), NEW rows \in Seq(RowType), NEW d, Polled(lines, rows, d),
         NEW place, Walk(place, lines, rows)
  PROVE  /\ place[Len(rows) - 1] \in {Len(rows) - d, Len(rows) - d + 1}
         /\ \A i \in 1..(Len(rows) - 1) : Above(lines, rows, place, i) = <<>>
<1> DEFINE n == Len(rows)
           At(i) == IF i < d THEN {1} ELSE {i - d + 1, i - d + 2}
           S == {i \in 0..(n - 1) : place[i] \in At(i)}
<1>1. n \in Nat /\ d \in Nat /\ d < n /\ n - d <= Len(lines) /\ Len(lines) \in Nat
  BY LenProperties DEF Polled
<1>2. 0 \in S
  <2>1. place[0] = 1
    BY DEF Walk
  <2> QED BY <1>1, <2>1
<1>3. ASSUME NEW i \in 1..(n - 1), place[i - 1] \in At(i - 1)
      PROVE  place[i] \in At(i) /\ Above(lines, rows, place, i) = <<>>
  <2> DEFINE j == place[i - 1]
  <2>1. place[i] = After(lines, rows, i, j) /\ i \in 1..n
    BY <1>1 DEF Walk
  <2>2. ASSUME NEW p, j = p, ~Keeps(lines, rows, i, p)
        PROVE  place[i] = p /\ Above(lines, rows, place, i) = <<>>
    BY <2>1, <2>2 DEF After, Above, Kept
  <2>3. ASSUME NEW p \in 1..Len(lines), j = p, Keeps(lines, rows, i, p),
               FirstAt(lines, rows[i].line, p) = p
        PROVE  place[i] = p + 1 /\ Above(lines, rows, place, i) = <<>>
    <3>1. place[i] = p + 1
      BY <2>1, <2>3 DEF After
    <3>2. Above(lines, rows, place, i) = Build(lines, p, (p + 1) - 2)
      BY <2>3, <3>1 DEF Above, Kept
    <3> DEFINE q == (p + 1) - 2
               b == Build(lines, p, q)
    <3>3. p \in 1..(Len(lines) + 1) /\ q \in 0..Len(lines) /\ ~(p <= q)
      BY <1>1
    <3> HIDE DEF q
    <3>4. b \in Seq(RowType) /\ Len(b) = 0
      BY <3>3, BuildIs, BuildLength
    <3>5. b = <<>>
      BY <3>4, EmptySeq
    <3> QED BY <3>1, <3>2, <3>5 DEF q
  <2> HIDE DEF j
  <2>4. CASE i < d
    <3>1. j = 1 /\ ~Keeps(lines, rows, i, 1)
      BY <1>1, <1>3, <2>1, <2>4, PollStep DEF j
    <3> QED BY <2>2, <2>4, <3>1
  <2>5. CASE i >= d /\ j = i - d + 1
    <3> DEFINE p == i - d + 1
    <3>1. p \in 1..Len(lines) /\ p \in Nat
      BY <1>1, <2>5
    <3>2. CASE Keeps(lines, rows, i, p)
      <4>1. FirstAt(lines, rows[i].line, p) = p
        BY <1>1, <2>1, <2>5, <3>2, PollStep
      <4>2. place[i] = p + 1 /\ Above(lines, rows, place, i) = <<>>
        <5> HIDE DEF p
        <5>1. j = p
          BY <2>5 DEF p
        <5> QED BY <2>3, <3>1, <3>2, <4>1, <5>1
      <4> QED BY <1>1, <2>5, <4>2
    <3>3. CASE ~Keeps(lines, rows, i, p)
      <4>1. place[i] = p /\ Above(lines, rows, place, i) = <<>>
        BY <2>2, <2>5, <3>3
      <4> QED BY <1>1, <2>5, <4>1
    <3> QED BY <3>2, <3>3
  <2>6. CASE i > d /\ j = i - d
    <3> DEFINE p == i - d
    <3>1. p \in 1..Len(lines)
      BY <1>1, <2>6
    <3>2. Keeps(lines, rows, i, p) /\ FirstAt(lines, rows[i].line, p) = p
      BY <2>1, <2>6, PollStep
    <3>3. place[i] = p + 1 /\ Above(lines, rows, place, i) = <<>>
      <4> HIDE DEF p
      <4>1. j = p
        BY <2>6 DEF p
      <4> QED BY <2>3, <3>1, <3>2, <4>1
    <3> QED BY <1>1, <2>6, <3>3
  <2>7. i < d \/ (i >= d /\ j = i - d + 1) \/ (i > d /\ j = i - d)
    <3>1. CASE i < d
      BY <3>1
    <3>2. CASE i = d
      <4>1. i - 1 < d /\ i - d + 1 = 1
        BY <1>1, <3>2
      <4> QED BY <1>3, <3>2, <4>1 DEF j
    <3>3. CASE i > d
      <4>1. ~(i - 1 < d) /\ (i - 1) - d + 1 = i - d /\ (i - 1) - d + 2 = i - d + 1
        BY <1>1, <3>3
      <4>2. j = (i - 1) - d + 1 \/ j = (i - 1) - d + 2
        BY <1>3, <4>1 DEF j
      <4>3. j = i - d \/ j = i - d + 1
        BY <4>1, <4>2
      <4> QED BY <3>3, <4>3, <1>1
    <3> QED BY <1>1, <3>1, <3>2, <3>3
  <2> QED BY <2>4, <2>5, <2>6, <2>7
<1>4. ASSUME NEW i \in 1..(n - 1), i - 1 \in S PROVE i \in S
  <2>1. place[i - 1] \in At(i - 1) /\ i \in 0..(n - 1)
    BY <1>1, <1>4
  <2> HIDE DEF At
  <2> QED BY <1>3, <2>1
<1>5. 0..(n - 1) \subseteq S
  <2>1. n - 1 \in Nat
    BY <1>1
  <2> HIDE DEF S, n
  <2> QED BY <1>2, <1>4, <2>1, UpTo
<1>6. place[n - 1] \in {n - d, n - d + 1}
  <2>1. n - 1 \in 0..(n - 1) /\ ~(n - 1 < d) /\ (n - 1) - d + 1 = n - d /\ (n - 1) - d + 2 = n - d + 1
    BY <1>1
  <2>2. place[n - 1] \in At(n - 1)
    BY <1>5, <2>1
  <2> QED BY <2>1, <2>2
<1>7. ASSUME NEW i \in 1..(n - 1) PROVE Above(lines, rows, place, i) = <<>>
  <2>1. i - 1 \in 0..(n - 1)
    BY <1>1
  <2>2. place[i - 1] \in At(i - 1)
    BY <1>5, <2>1
  <2> HIDE DEF At
  <2> QED BY <1>3, <2>2
<1> QED BY <1>6, <1>7

\* What is built is, at most, as many lines as come after those of the kept rows.
LEMMA PollBuilds ==
  ASSUME NEW lines \in Seq(Lines), NEW rows \in Seq(RowType), NEW d, Polled(lines, rows, d),
         NEW place, Walk(place, lines, rows)
  PROVE  LET fresh == FlattenSeq(Aboves(lines, rows, place)) \o Rest(lines, rows, place) IN
         Len(fresh) \in Nat /\ Len(fresh) <= Len(lines) - (Len(rows) - d)
<1> DEFINE n == Len(rows)
           l == Len(lines)
           as == Aboves(lines, rows, place)
           last == Above(lines, rows, place, n)
           rest == Rest(lines, rows, place)
           p == place[n - 1]
           q == place[n]
           g == [i \in 0..n |-> IF i = n THEN last ELSE <<>>]
<1>1. n \in Nat /\ d \in Nat /\ d < n /\ n - d <= l /\ l \in Nat /\ n \in 1..n /\ n > d
  BY LenProperties DEF Polled
<1>2. as \in Seq(Seq(RowType)) /\ Len(as) = n /\ rest \in Seq(RowType) /\ q \in 1..(l + 1)
  BY PiecesType
<1>3. /\ last \in Seq(RowType) /\ as[n] = last /\ \A i \in 1..(n - 1) : as[i] = <<>>
  <2>1. last \in Seq(RowType)
    BY <1>1, WalkStep
  <2>2. \A i \in 1..n : as[i] = Above(lines, rows, place, i)
    BY DEF Aboves
  <2>3. \A i \in 1..(n - 1) : i \in 1..n /\ Above(lines, rows, place, i) = <<>>
    BY <1>1, PollWalk
  <2> HIDE DEF last, as
  <2> QED BY <1>1, <2>1, <2>2, <2>3 DEF last
<1>4. FlattenSeq(as) = last
  <2> HIDE DEF as, last, n
  <2>1. g[0] = <<>> /\ g[n] = last
    BY <1>1
  <2>2. ASSUME NEW i \in 1..n PROVE g[i] = Join(g[i - 1], as[i])
    <3>1. i \in 0..n /\ i - 1 \in 0..n /\ g[i - 1] = <<>> /\ (i # n => i \in 1..(n - 1))
      BY <1>1
    <3>2. Join(<<>>, <<>>) = <<>> /\ Join(<<>>, last) = last
      BY <1>3, EmptySeq, JoinFacts
    <3> QED BY <1>3, <3>1, <3>2
  <2> HIDE DEF g
  <2>3. Glued(g, as, Len(as))
    BY <1>2, <2>1, <2>2 DEF Glued
  <2> QED BY <1>2, <2>1, <2>3, FlatBy
<1>5. Len(FlattenSeq(as) \o rest) = Len(last) + Len(rest)
  <2> HIDE DEF last, rest, as
  <2> QED BY <1>2, <1>3, <1>4, ConcatProperties
<1>6. Len(rest) = IF q <= l THEN l - q + 1 ELSE 0
  <2>1. l \in 0..l
    BY <1>1
  <2> QED BY <1>2, <2>1, BuildLength DEF Rest
<1>7. p \in {n - d, n - d + 1} /\ q = After(lines, rows, n, p)
      /\ last = IF Keeps(lines, rows, n, p) THEN Build(lines, p, q - 2) ELSE <<>>
  BY <1>1, PollWalk DEF Walk, Above, Kept
<1> DEFINE k == FirstAt(lines, rows[n].line, p)
<1>8. k = 0 \/ k \in p..l
  <2>1. p \in 1..(l + 1)
    BY <1>1, <1>7
  <2> QED BY <2>1, FirstIs
<1>9. p = n - d => Keeps(lines, rows, n, p) /\ k = p
  BY <1>1, PollStep
<1> HIDE DEF n, l, p, q, last, rest
<1>10. CASE Keeps(lines, rows, n, p)
  <2>1. k # 0 /\ q = k + 1
    BY <1>7, <1>10 DEF Keeps, After
  <2> HIDE DEF k
  <2>2. last = Build(lines, p, k - 1)
    <3>1. q - 2 = k - 1
      BY <1>1, <1>7, <1>8, <2>1
    <3> QED BY <1>7, <1>10, <3>1
  <2>3. Len(last) = IF p <= k - 1 THEN (k - 1) - p + 1 ELSE 0
    <3>1. p \in 1..(Len(lines) + 1) /\ k - 1 \in 0..Len(lines)
      BY <1>1, <1>7, <1>8, <2>1 DEF l
    <3> QED BY <2>2, <3>1, BuildLength
  <2>4. Len(last) = k - p
    BY <1>1, <1>7, <1>8, <2>1, <2>3
  <2>5. Len(rest) = l - k
    BY <1>1, <1>6, <1>7, <1>8, <2>1
  <2>6. Len(last) + Len(rest) \in Nat /\ Len(last) + Len(rest) <= l - (n - d)
    <3>1. k \in p..l /\ p \in Nat /\ n - d <= p /\ k \in Nat
      BY <1>1, <1>7, <1>8, <2>1
    <3>2. (k - p) + (l - k) = l - p /\ l - p \in Nat /\ l - p <= l - (n - d)
      BY <1>1, <3>1
    <3> QED BY <2>4, <2>5, <3>2
  <2> QED BY <1>5, <2>6 DEF n, l, rest
<1>11. CASE ~Keeps(lines, rows, n, p)
  <2>1. q = p /\ p = n - d + 1 /\ last = <<>>
    BY <1>7, <1>9, <1>11 DEF After
  <2>2. Len(last) = 0
    BY <2>1
  <2>3. Len(rest) = l - (n - d)
    BY <1>1, <1>6, <2>1
  <2>4. Len(last) + Len(rest) \in Nat /\ Len(last) + Len(rest) <= l - (n - d)
    BY <1>1, <2>2, <2>3
  <2> QED BY <1>5, <2>4 DEF n, l, rest
<1> QED BY <1>10, <1>11

\* A step that changes what is shown, and draws no view afresh, is a redraw.
LEMMA ShownByFrame ==
  ASSUME LogInv, [Next]_vars, on, shown' # shown, views' = views
  PROVE  /\ shown' = value /\ value # shown /\ built' = Sync(value).built
<1>1. views + 1 # views
  BY DEF LogInv
<1>2. \A l \in Lines : ~Logs(l)
  BY DEF Logs
<1>3. \A text \in Texts : ~Writes(text) /\ ~Redrawn(text)
  BY <1>1 DEF Writes, Redrawn
<1>4. \A m \in {"list", "raw"} : ~Press(m)
  BY DEF Press
<1>5. ~ReadAnswered /\ ~ReadFails
  BY DEF ReadAnswered, ReadFails, ReadEnds
<1>6. Frame
  BY <1>2, <1>3, <1>4, <1>5 DEF Next, vars
<1> QED BY <1>6 DEF Frame

\* What the redraw walks, when LuCI has written what it showed from a place on.
OldestGone(old, lines, d) ==
  LET kept == SubSeq(old, d + 1, Len(old)) IN
  /\ d \in 0..Len(old)
  /\ kept # <<>> /\ Len(kept) <= Len(lines) /\ SubSeq(lines, 1, Len(kept)) = kept
  /\ Range(SubSeq(old, 1, d - 1)) \cap Range(lines) = {}

\* It walks the rows that are left with their lines at the front.
LEMMA PollIsPolled ==
  ASSUME NEW rows \in Seq(RowType), NEW lines \in Seq(Lines), NEW old, old = LinesOf(rows),
         NEW d, OldestGone(old, lines, d)
  PROVE  Polled(lines, rows, d) /\ Len(SubSeq(old, d + 1, Len(old))) = Len(rows) - d
<1> DEFINE n == Len(rows)
           kept == SubSeq(old, d + 1, Len(old))
           gone == SubSeq(old, 1, d - 1)
<1>0. /\ d \in 0..Len(old)
      /\ kept # <<>> /\ Len(kept) <= Len(lines) /\ SubSeq(lines, 1, Len(kept)) = kept
      /\ Range(gone) \cap Range(lines) = {}
      BY DEF OldestGone
<1>1. /\ old \in Seq(Lines) /\ Len(old) = n /\ n \in Nat /\ \A i \in 1..n : old[i] = rows[i].line
  BY LinesOfIs, LenProperties
<1>2. d \in 0..n /\ \A i \in 1..n : old[i] \in Lines
  BY <1>0, <1>1, ElementOfSeq
<1>3. /\ Len(kept) = (IF d + 1 <= n THEN n - (d + 1) + 1 ELSE 0)
      /\ \A i \in 1..(n - (d + 1) + 1) : kept[i] = old[(d + 1) + i - 1]
  <2>1. d + 1 \in Int /\ n \in Int /\ \A i \in (d + 1)..n : old[i] \in Lines
    BY <1>1, <1>2
  <2> QED BY <1>1, <2>1, SubSeqProperties
<1>4. d < n
  <2>1. CASE ~(d < n)
    <3>1. d + 1 \in Int /\ n \in Int /\ n < d + 1
      BY <1>1, <1>2, <2>1
    <3>2. kept = <<>>
      BY <1>1, <3>1, SubSeqEmpty
    <3> QED BY <1>0, <3>2
  <2> QED BY <2>1
<1>5. Len(kept) = n - d /\ \A x \in 1..(n - d) : kept[x] = old[d + x]
  <2>1. n - (d + 1) + 1 = n - d /\ \A x \in 1..(n - d) : (d + 1) + x - 1 = d + x
    BY <1>1, <1>2
  <2>2. d + 1 <= n /\ (IF d + 1 <= n THEN n - (d + 1) + 1 ELSE 0) = n - d
    BY <1>1, <1>2, <1>4
  <2>3. Len(kept) = n - d
    BY <1>3, <2>2
  <2>4. ASSUME NEW x \in 1..(n - d) PROVE kept[x] = old[d + x]
    <3>1. x \in 1..(n - (d + 1) + 1) /\ (d + 1) + x - 1 = d + x
      BY <2>1
    <3>2. kept[x] = old[(d + 1) + x - 1]
      BY <1>3, <3>1
    <3> HIDE DEF kept
    <3> QED BY <3>1, <3>2
  <2> QED BY <2>3, <2>4
<1>6. n - d <= Len(lines) /\ Len(lines) \in Nat /\ n - d \in Nat
  <2>1. Len(kept) <= Len(lines)
    BY <1>0
  <2> QED BY <1>1, <1>2, <1>4, <1>5, <2>1, LenProperties
<1>7. \A x \in 1..(n - d) : lines[x] = rows[d + x].line
  <2>1. SubSeq(lines, 1, n - d) = kept
    BY <1>0, <1>5
  <2>2. \A i \in 1..((n - d) - 1 + 1) : SubSeq(lines, 1, n - d)[i] = lines[1 + i - 1]
    <3>1. 1 \in Int /\ n - d \in Int /\ \A i \in 1..(n - d) : lines[i] \in Lines
      <4>1. \A i \in 1..(n - d) : i \in 1..Len(lines)
        BY <1>6
      <4> QED BY <1>6, <4>1, ElementOfSeq
    <3> QED BY <3>1, SubSeqProperties
  <2>3. ASSUME NEW x \in 1..(n - d) PROVE lines[x] = rows[d + x].line
    <3>1. x \in 1..((n - d) - 1 + 1) /\ 1 + x - 1 = x /\ d + x \in 1..n
      BY <1>1, <1>2, <1>6
    <3>2. lines[x] = kept[x]
      BY <2>1, <2>2, <3>1
    <3>3. kept[x] = old[d + x] /\ old[d + x] = rows[d + x].line
      BY <1>1, <1>5, <3>1
    <3> HIDE DEF kept
    <3> QED BY <3>2, <3>3
  <2> QED BY <2>3
<1>8. ASSUME NEW i \in 1..(d - 1), NEW x \in 1..Len(lines) PROVE lines[x] # rows[i].line
  <2>1. i \in 1..n /\ i \in 1..((d - 1) - 1 + 1) /\ 1 + i - 1 = i
    BY <1>1, <1>2
  <2>2. /\ Len(gone) = (IF 1 <= d - 1 THEN (d - 1) - 1 + 1 ELSE 0)
        /\ \A y \in 1..((d - 1) - 1 + 1) : gone[y] = old[1 + y - 1]
        /\ gone \in Seq(Lines)
    <3>1. 1 \in Int /\ d - 1 \in Int /\ \A y \in 1..(d - 1) : old[y] \in Lines
      BY <1>1, <1>2
    <3> QED BY <3>1, SubSeqProperties
  <2>3. i \in 1..Len(gone) /\ gone[i] = rows[i].line
    <3>1. Len(gone) = d - 1
      BY <1>2, <2>1, <2>2
    <3>2. gone[i] = old[i] /\ old[i] = rows[i].line
      BY <1>1, <2>1, <2>2
    <3> HIDE DEF gone
    <3> QED BY <3>1, <3>2
  <2>4. DOMAIN gone = 1..Len(gone) /\ DOMAIN lines = 1..Len(lines)
    BY <2>2, LenProperties
  <2>5. Range(gone) \cap Range(lines) = {}
    BY <1>0
  <2> HIDE DEF gone
  <2>6. gone[i] \in Range(gone) /\ lines[x] \in Range(lines)
    BY <2>3, <2>4 DEF Range
  <2> QED BY <2>3, <2>5, <2>6
<1>9. d \in 0..(n - 1)
  BY <1>1, <1>2, <1>4
<1> QED BY <1>5, <1>6, <1>7, <1>8, <1>9 DEF Polled

\* sync's promise (logs.js:18-21): a poll that drops the oldest lines and adds some builds
\* the added ones at most, for any log and whatever lines repeat in it, while no dropped
\* line but the last is there again.
THEOREM PollTouchesJustTheNew == Spec => PollTouchesOnlyTheNew
<1> DEFINE Touched ==
      \A d \in 0..Len(shown) :
        LET kept == SubSeq(shown, d + 1, Len(shown)) IN
        /\ on /\ on' /\ shown' # shown /\ views' = views
        /\ kept # <<>> /\ Len(kept) <= Len(shown') /\ SubSeq(shown', 1, Len(kept)) = kept
        /\ Range(SubSeq(shown, 1, d - 1)) \cap Range(shown') = {}
        => built' <= Len(shown') - Len(kept)
<1>1. ASSUME LogInv, [Next]_vars,
             NEW d \in 0..Len(shown),
             on, shown' # shown, views' = views,
             SubSeq(shown, d + 1, Len(shown)) # <<>>,
             Len(SubSeq(shown, d + 1, Len(shown))) <= Len(shown'),
             SubSeq(shown', 1, Len(SubSeq(shown, d + 1, Len(shown)))) = SubSeq(shown, d + 1, Len(shown)),
             Range(SubSeq(shown, 1, d - 1)) \cap Range(shown') = {}
      PROVE  built' <= Len(shown') - Len(SubSeq(shown, d + 1, Len(shown)))
  <2> DEFINE rows == Rows
             lines == value
             place == Walked(lines, rows)
             fresh == FlattenSeq(Aboves(lines, rows, place)) \o Rest(lines, rows, place)
  <2>1. shown' = lines /\ lines # shown /\ built' = Sync(lines).built
    BY <1>1, ShownByFrame
  <2>2. lines \in Seq(Lines) /\ chunks \in Seq(Seq(RowType)) /\ LinesOf(rows) = shown
    <3>1. 2 * CHUNK \in Nat
      BY LogViewAssumption DEF LogViewAssumption
    <3> QED BY <1>1, <3>1, FitSome DEF LogInv
  <2>3. rows \in Seq(RowType)
    BY <2>2, FlatType DEF Rows
  <2> HIDE DEF rows, lines
  <2>4. Polled(lines, rows, d) /\ Len(SubSeq(shown, d + 1, Len(shown))) = Len(rows) - d
    <3>1. OldestGone(shown, lines, d)
      BY <1>1, <2>1 DEF OldestGone
    <3>2. rows \in Seq(RowType) /\ shown = LinesOf(rows)
      BY <2>2, <2>3
    <3> QED BY <2>2, <3>1, <3>2, PollIsPolled
  <2>5. lines # <<>>
    <3>1. Len(rows) - d <= Len(lines) /\ d \in 0..(Len(rows) - 1) /\ Len(rows) \in Nat
      BY <2>3, <2>4, LenProperties DEF Polled
    <3>2. Len(lines) # 0
      BY <2>2, <3>1, LenProperties
    <3> QED BY <3>2
  <2>6. Walk(place, lines, rows) /\ Sync(lines).built = Len(fresh)
    BY <2>2, <2>5, SyncIs DEF rows
  <2> HIDE DEF place
  <2>7. Len(fresh) \in Nat /\ Len(fresh) <= Len(lines) - (Len(rows) - d)
    BY <2>2, <2>3, <2>4, <2>6, PollBuilds
  <2>8. built' = Len(fresh) /\ Len(lines) \in Nat /\ Len(rows) \in Nat
    BY <2>1, <2>2, <2>3, <2>6, LenProperties
  <2> DEFINE k == Len(SubSeq(shown, d + 1, Len(shown)))
  <2>9. k = Len(rows) - d /\ d \in Int
    BY <1>1, <2>4 DEF Polled
  <2> HIDE DEF fresh, k
  <2>10. built' <= Len(shown') - k
    BY <2>1, <2>7, <2>8, <2>9
  <2> QED BY <2>10 DEF k
<1>2. LogInv /\ [Next]_vars => [Touched]_vars
  <2> SUFFICES ASSUME LogInv, [Next]_vars PROVE Touched
    OBVIOUS
  <2> QED BY <1>1
<1>3. Init => LogInv
  BY LogInit
<1>4. LogInv /\ [Next]_vars => LogInv'
  BY LogNext
<1> QED BY <1>2, <1>3, <1>4, PTL DEF Spec, PollTouchesOnlyTheNew
-----------------------------------------------------------------------------
(***************************************************************************)
(* The levels: a row that waits and is in no read has one coming.             *)
(***************************************************************************)
\* Rows that do not wait for their level, or that the read in flight will answer.
Cared == {row \in RowType : Asking(row) => row.inRead}

\* Chunks of such rows forget none.
LEMMA CaredFor ==
  ASSUME NEW cs \in Seq(Seq(Cared)), chunks' = cs, kind' = kind
  PROVE  ~Forgotten'
<1>1. FlattenSeq(cs) \in Seq(Cared)
  BY FlatType
<1>2. ASSUME NEW i \in DOMAIN FlattenSeq(cs)
      PROVE  Asking(FlattenSeq(cs)[i]) => FlattenSeq(cs)[i].inRead
  <2>1. FlattenSeq(cs)[i] \in Cared
    BY <1>1, LenProperties, ElementOfSeq
  <2> QED BY <2>1 DEF Cared
<1> QED BY <1>2 DEF Forgotten, Rows, Asking, Waiting

\* Those that readLevels asks for are, and so are the rows when none asks.
LEMMA AskedCares ==
  ASSUME NEW cs \in Seq(Seq(RowType))
  PROVE  /\ Asked(cs) \in Seq(Seq(Cared))
         /\ ~SomeAsking(cs) => cs \in Seq(Seq(Cared))
<1>1. /\ Len(cs) \in Nat /\ DOMAIN cs = 1..Len(cs)
      /\ \A c \in 1..Len(cs) : cs[c] \in Seq(RowType)
  BY LenProperties, ElementOfSeq
<1>2. \A c \in 1..Len(cs) : /\ Len(cs[c]) \in Nat /\ DOMAIN cs[c] = 1..Len(cs[c])
                            /\ \A k \in 1..Len(cs[c]) : cs[c][k] \in RowType
  BY <1>1, LenProperties, ElementOfSeq
<1>3. ASSUME NEW row \in RowType PROVE [row EXCEPT !.inRead = Asking(row)] \in Cared
  <2>1. [row EXCEPT !.inRead = Asking(row)] \in RowType
    BY AskedRowIs DEF AskedRow
  <2>2. Asking(row) <=> Asking([row EXCEPT !.inRead = Asking(row)])
    BY DEF Asking, Waiting, RowType
  <2> QED BY <2>1, <2>2 DEF Cared, RowType
<1>4. Asked(cs) \in Seq(Seq(Cared))
  <2> DEFINE new(row) == [row EXCEPT !.inRead = Asking(row)]
             ee(c) == [k \in 1..Len(cs[c]) |-> new(cs[c][k])]
  <2>1. ASSUME NEW c \in 1..Len(cs) PROVE ee(c) \in Seq(Cared)
    <3> DEFINE ek(k) == new(cs[c][k])
    <3>1. \A k \in 1..Len(cs[c]) : ek(k) \in Cared
      BY <1>2, <1>3
    <3>2. ee(c) = [k \in 1..Len(cs[c]) |-> ek(k)]
      OBVIOUS
    <3> HIDE DEF ek, ee
    <3> QED BY <1>2, <3>1, <3>2, IsASeq
  <2>2. Asked(cs) = [c \in 1..Len(cs) |-> ee(c)]
    BY <1>1, <1>2 DEF Asked, MapRows
  <2> HIDE DEF ee
  <2> QED BY <1>1, <2>1, <2>2, IsASeq
<1>5. ASSUME ~SomeAsking(cs) PROVE cs \in Seq(Seq(Cared))
  <2> DEFINE ee(c) == cs[c]
  <2>1. ASSUME NEW c \in 1..Len(cs) PROVE ee(c) \in Seq(Cared)
    <3> DEFINE ek(k) == cs[c][k]
    <3>1. \A k \in 1..Len(cs[c]) : ek(k) \in Cared
      BY <1>1, <1>2, <1>5 DEF SomeAsking, Cared
    <3>2. ee(c) = [k \in 1..Len(cs[c]) |-> ek(k)]
      BY <1>1, SeqDef
    <3> HIDE DEF ek, ee
    <3> QED BY <1>2, <3>1, <3>2, IsASeq
  <2>2. cs = [c \in 1..Len(cs) |-> ee(c)]
    BY <1>1, SeqDef
  <2>3. Len(cs) \in Nat
    BY <1>1
  <2> HIDE DEF ee
  <2>4. [c \in 1..Len(cs) |-> ee(c)] \in Seq(Seq(Cared))
    BY <2>1, <2>3, IsASeq
  <2> QED BY <2>2, <2>4
<1> QED BY <1>4, <1>5

\* A row that waits and is in no read has a read in flight to wait for, or a read failed.
AskedFor == reading \in 0..2 /\ (Forgotten => reading # 0 \/ noLevels)

\* readLevels sees to it that none is forgotten unless a read is in flight.
LEMMA ReadLevelsAsks ==
  ASSUME NEW cs \in Seq(Fit(RowType, 2 * CHUNK)), ReadLevels(cs), reading \in 0..2,
         kind' = kind, noLevels' = noLevels
  PROVE  AskedFor' /\ (reading # 0 => reading' = reading)
<1>1. cs \in Seq(Seq(RowType))
  <2>1. 2 * CHUNK \in Nat
    BY LogViewAssumption DEF LogViewAssumption
  <2> QED BY <2>1, FitSome
<1>2. CASE reading = 0 /\ ~noLevels /\ SomeAsking(cs)
  BY <1>2 DEF ReadLevels, AskedFor
<1>3. CASE ~(reading = 0 /\ ~noLevels /\ SomeAsking(cs))
  <2>1. chunks' = cs /\ reading' = reading
    BY <1>3 DEF ReadLevels
  <2>2. CASE SomeAsking(cs)
    BY <1>3, <2>1, <2>2 DEF AskedFor
  <2>3. CASE ~SomeAsking(cs)
    <3>1. ~Forgotten'
      BY <1>1, <2>1, <2>3, AskedCares, CaredFor
    <3> QED BY <2>1, <3>1 DEF AskedFor
  <2> QED BY <2>2, <2>3
<1> QED BY <1>2, <1>3

\* The step that ends a read, if this is one, leaves no row that waits unasked for.
AsksAgain == reading # 0 /\ reading' # reading => noLevels' \/ ~Forgotten'

\* Every step keeps that, and the one that ends a read asks again.
LEMMA AskedNext == ASSUME LogInv, AskedFor, [Next]_vars PROVE AskedFor' /\ AsksAgain
<1>1. 2 * CHUNK \in Nat /\ value \in Seq(Lines) /\ chunks \in Seq(Seq(RowType)) /\ reading \in 0..2
  <2>1. 2 * CHUNK \in Nat
    BY LogViewAssumption DEF LogViewAssumption
  <2> QED BY <2>1, FitSome DEF LogInv, AskedFor
<1>2. ASSUME UNCHANGED <<kind, on, chunks, reading, noLevels>> PROVE AskedFor' /\ AsksAgain
  BY <1>2 DEF AskedFor, AsksAgain, Forgotten, Rows, Asking, Waiting
<1>3. ASSUME NEW cs \in Seq(Fit(RowType, 2 * CHUNK)), ReadLevels(cs), UNCHANGED <<kind, noLevels>>
      PROVE  AskedFor' /\ AsksAgain
  BY <1>1, <1>3, ReadLevelsAsks DEF AsksAgain
<1>4. CASE UNCHANGED vars
  BY <1>2, <1>4 DEF vars, luci, drawn, reads
<1>5. CASE \E l \in Lines : Logs(l)
  BY <1>2, <1>5 DEF Logs, luci, drawn, reads
<1>6. CASE \E text \in Texts : Writes(text)
  BY <1>2, <1>6 DEF Writes, drawn, reads
<1>7. ASSUME NEW text \in Texts, Redrawn(text) PROVE AskedFor' /\ AsksAgain
  <2>1. Attached(text).chunks \in Seq(Fit(RowType, 2 * CHUNK))
    BY TextsType, AttachedIs DEF LogInv
  <2>2. ReadLevels(Attached(text).chunks) /\ UNCHANGED <<kind, noLevels>>
    BY <1>7 DEF Redrawn
  <2> QED BY <1>3, <2>1, <2>2
<1>8. CASE Frame
  <2>1. CASE ~on \/ value = shown
    BY <1>2, <1>8, <2>1 DEF Frame, luci, drawn
  <2>2. CASE ~(~on \/ value = shown)
    <3>1. ReadLevels(Sync(value).chunks) /\ UNCHANGED <<kind, noLevels>>
      BY <1>8, <2>2 DEF Frame, luci
    <3>2. Sync(value).chunks \in Seq(Fit(RowType, 2 * CHUNK))
      BY <1>1, SyncLines
    <3> QED BY <1>3, <3>1, <3>2
  <2> QED BY <2>1, <2>2
<1>9. CASE \E m \in {"list", "raw"} : Press(m)
  BY <1>2, <1>9 DEF Press, luci, drawn, reads
<1>10. ASSUME NEW known, ReadEnds(known) PROVE AskedFor' /\ AsksAgain
  <2> DEFINE cs == Answered(chunks, known)
  <2>1. CASE ~on
    <3>1. reading' = 0 /\ ~on'
      BY <1>10, <2>1 DEF ReadEnds
    <3> QED BY <3>1 DEF AskedFor, AsksAgain, Forgotten
  <2>2. CASE on
    <3>1. /\ reading # 0 /\ kind' = kind
          /\ IF ~noLevels' /\ SomeAsking(cs)
             THEN chunks' = Asked(cs) /\ reading' = 3 - reading
             ELSE chunks' = cs /\ reading' = 0
      BY <1>10, <2>2 DEF ReadEnds, luci
    <3>2. cs \in Seq(Seq(RowType))
      BY <1>1, AnsweredKeeps, FitSome DEF LogInv
    <3> HIDE DEF cs
    <3>3. CASE ~noLevels' /\ SomeAsking(cs)
      <4>1. ~Forgotten'
        BY <3>1, <3>2, <3>3, AskedCares, CaredFor
      <4> QED BY <1>1, <3>1, <3>3, <4>1 DEF AskedFor, AsksAgain
    <3>4. CASE ~noLevels' /\ ~SomeAsking(cs)
      <4>1. ~Forgotten'
        BY <3>1, <3>2, <3>4, AskedCares, CaredFor
      <4> QED BY <3>1, <3>4, <4>1 DEF AskedFor, AsksAgain
    <3>5. CASE noLevels'
      BY <3>1, <3>5 DEF AskedFor, AsksAgain
    <3> QED BY <3>3, <3>4, <3>5
  <2> QED BY <2>1, <2>2 DEF LogInv
<1> QED BY <1>4, <1>5, <1>6, <1>7, <1>8, <1>9, <1>10 DEF Next, ReadAnswered, ReadFails

\* readLevels (logs.js:625): a row that waits for its level and is in no read has a read
\* to wait for, unless one failed; and when that one ends, however the rows have changed
\* meanwhile, no row is left unasked for.  With a read that ends, that is NoRowForgotten.
THEOREM RowsAreAskedFor == Spec => []AskedFor /\ [][AsksAgain]_vars
<1>1. Init => AskedFor
  <2>1. ASSUME Init PROVE ~Forgotten /\ reading = 0
    <3>1. Rows = <<>>
      BY <2>1, FlatEmpty DEF Init, Rows
    <3> QED BY <2>1, <3>1 DEF Init, Forgotten
  <2> QED BY <2>1 DEF AskedFor
<1>2. LogInv /\ AskedFor /\ [Next]_vars => AskedFor' /\ [AsksAgain]_vars
  BY AskedNext
<1> QED BY <1>1, <1>2, LogInvHolds, PTL DEF Spec
=============================================================================
