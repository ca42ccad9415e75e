-------------------------- MODULE ConfigPushProofs --------------------------
(* What holds of the settlement of pushes for every set of configurations, every *)
(* number of retries and every number of cuts.                                 *)
EXTENDS ConfigPush, Integers, TLAPS

\* Every handler says in the end what a push leaves reported.
LEMMA HandlerReports ==
  ASSUME NEW v, NEW w, Handle(v, w), ver \in settled \cup {Blank}
  PROVE  ver' \in settled' \cup {Blank}
<1>1. CASE v \in MgmtOnly
  BY <1>1 DEF Handle
<1>2. CASE CutShort(v)
  BY <1>2 DEF CutShort
<1>3. CASE \E ok \in BOOLEAN : Settle(v, ok)
  BY <1>3 DEF Settle, SettleClean, SettleFailed
<1>4. v \in MgmtOnly \/ CutShort(v) \/ (\E ok \in BOOLEAN : Settle(v, ok))
  <2> SUFFICES ASSUME v \notin MgmtOnly, ~CutShort(v)
               PROVE  \E ok \in BOOLEAN : Settle(v, ok)
    OBVIOUS
  <2>1. PICK ok \in {NetworkPart(v, w).ok /\ v \notin Failing, FALSE} : Settle(v, ok)
    BY DEF Handle
  <2>2. (NetworkPart(v, w).ok /\ v \notin Failing) \in BOOLEAN
    OBVIOUS
  <2> QED BY <2>1, <2>2
<1> QED BY <1>1, <1>2, <1>3, <1>4

\* No configuration is reported as received whose push did not run to its end,
\* wherever handlers raise and the daemon dies.
THEOREM NothingReportedEarly == Spec => []ReportsOnlySettled
<1>1. Init => ReportsOnlySettled
  BY DEF Init, ReportsOnlySettled
<1>2. ReportsOnlySettled /\ [Next]_vars => ReportsOnlySettled'
  <2> SUFFICES ASSUME ReportsOnlySettled, [Next]_vars PROVE ReportsOnlySettled'
    OBVIOUS
  <2> USE DEF ReportsOnlySettled
  <2>1. CASE UNCHANGED vars \/ NewConfig \/ TenMinutes \/ PushLost
    BY <2>1 DEF vars, NewConfig, TenMinutes, PushLost, device, history
  <2>2. CASE Push
    BY <2>2, HandlerReports DEF Push
  <2>3. CASE Noop \/ RollBack
    BY <2>3 DEF Noop, RollBack, history
  <2>4. CASE Reprovision
    BY <2>4 DEF Reprovision
  <2> QED BY <2>1, <2>2, <2>3, <2>4 DEF Next
<1> QED BY <1>1, <1>2, PTL DEF Spec

-----------------------------------------------------------------------------
\* How many pushes of the wanted version are accounted for besides the cuts: those
\* that were held back while it is not reported, one more once it is.
Allowed(reported, wanted, r) ==
  IF reported = wanted THEN Retries + 1
  ELSE IF r.v = wanted THEN IF r.n <= Retries THEN r.n ELSE Retries
  ELSE 0

BoundInv ==
  /\ want \in Versions /\ pushes \in Nat /\ again \in Nat
  /\ retry \in [v : Versions \cup {None}, n : Nat]
  /\ pushes <= Allowed(ver, want, retry) + again

\* A bounded number in any case.
LEMMA AllowedIsNat ==
  ASSUME Retries \in Nat, NEW reported, NEW wanted, NEW r \in [v : Versions \cup {None}, n : Nat]
  PROVE  Allowed(reported, wanted, r) \in Nat /\ Allowed(reported, wanted, r) <= Retries + 1
BY DEF Allowed

\* A handler that does not raise by itself either is cut short, and counted as a
\* cut, or uses one of the pushes that are allowed for.
LEMMA HandlerCounts ==
  ASSUME Raising = {}, BoundInv, ver # want, want' = want,
         NEW w, Handle(want, w)
  PROVE  /\ again' \in Nat /\ retry' \in [v : Versions \cup {None}, n : Nat]
         /\ pushes + 1 <= Allowed(ver', want', retry') + again'
<1> USE DEF BoundInv
<1>0. Retries \in Nat /\ want \in Versions
  BY PushAssumption DEF PushAssumption
<1>a. Attempts(want) \in Nat /\ Attempts(want) = IF retry.v = want THEN retry.n + 1 ELSE 1
  BY <1>0 DEF Attempts
<1>1. CASE want \in MgmtOnly
  <2>1. ver' = want' /\ UNCHANGED <<retry, again>>
    BY <1>1 DEF Handle
  <2> QED BY <1>0, <2>1 DEF Allowed
<1>2. CASE CutShort(want)
  <2>1. again' = again + 1 /\ UNCHANGED <<ver, retry>>
    BY <1>2 DEF CutShort, Cut
  <2> QED BY <1>0, <2>1 DEF Allowed
<1>3. CASE \E ok \in BOOLEAN : Settle(want, ok)
  <2>1. again' = again
    BY <1>3 DEF Settle
  <2>2. CASE SettleClean(want)
    <3>1. ver' = want' /\ retry' = NoRetry
      BY <2>2 DEF SettleClean
    <3>2. NoRetry \in [v : Versions \cup {None}, n : Nat]
      BY DEF NoRetry
    <3> QED BY <1>0, <2>1, <3>1, <3>2 DEF Allowed
  <2>3. CASE SettleFailed(want)
    <3>1. retry' = [v |-> want, n |-> Attempts(want)]
      BY <2>3 DEF SettleFailed
    <3>2. CASE HeldBack(want)
      <4>1. ver' = ver /\ Attempts(want) <= Retries
        BY <2>3, <3>2 DEF SettleFailed, HeldBack
      <4> QED BY <1>0, <1>a, <2>1, <3>1, <4>1 DEF Allowed
    <3>3. CASE ~HeldBack(want)
      <4>1. ver' = want
        BY <2>3, <3>3 DEF SettleFailed
      <4> QED BY <1>0, <1>a, <2>1, <3>1, <4>1 DEF Allowed
    <3> QED BY <3>2, <3>3
  <2> QED BY <1>3, <2>2, <2>3 DEF Settle
<1>4. want \in MgmtOnly \/ CutShort(want) \/ (\E ok \in BOOLEAN : Settle(want, ok))
  <2> SUFFICES ASSUME want \notin MgmtOnly, ~CutShort(want)
               PROVE  \E ok \in BOOLEAN : Settle(want, ok)
    OBVIOUS
  <2>1. PICK ok \in {NetworkPart(want, w).ok /\ want \notin Failing, FALSE} : Settle(want, ok)
    BY DEF Handle
  <2>2. (NetworkPart(want, w).ok /\ want \notin Failing) \in BOOLEAN
    OBVIOUS
  <2> QED BY <2>1, <2>2
<1> QED BY <1>1, <1>2, <1>3, <1>4

\* A configuration whose handler does not always raise is pushed once, and once
\* more for every retry and every push that was lost or cut short: never without
\* end, whatever fails and whatever is rolled back in between.
THEOREM PushesEnd == ASSUME Raising = {} PROVE Spec => []PushesBounded
<1>0. Retries \in Nat /\ MaxCuts \in Nat
  BY PushAssumption DEF PushAssumption
<1>1. Init => BoundInv
  BY <1>0, PushAssumption DEF Init, BoundInv, NoRetry, Allowed
<1>2. BoundInv /\ [Next]_vars => BoundInv'
  <2> SUFFICES ASSUME BoundInv, [Next]_vars PROVE BoundInv'
    OBVIOUS
  <2>1. CASE UNCHANGED vars \/ TenMinutes
    BY <2>1 DEF vars, TenMinutes, device, history, BoundInv, Allowed, controller
  <2>2. CASE NewConfig
    <3>1. want' \in Versions /\ pushes' = 0 /\ again' = 0 /\ retry' = retry
      BY <2>2 DEF NewConfig, device
    <3>2. Allowed(ver', want', retry') \in Nat
      BY <1>0, <3>1, AllowedIsNat DEF BoundInv
    <3> QED BY <3>1, <3>2 DEF BoundInv
  <2>3. CASE PushLost
    <3>1. again' = again + 1 /\ UNCHANGED <<want, pushes, ver, retry>>
      BY <2>3 DEF PushLost, Cut, device, history
    <3>2. Allowed(ver', want', retry') = Allowed(ver, want, retry) /\ Allowed(ver, want, retry) \in Nat
      BY <1>0, <3>1, AllowedIsNat DEF BoundInv
    <3> QED BY <3>1, <3>2 DEF BoundInv
  <2>4. CASE Push
    <3>1. PICK w \in {None, window} : Handle(want, w)
      BY <2>4 DEF Push
    <3>2. ver # want /\ want' = want /\ pushes' \in {pushes, pushes + 1}
      BY <2>4 DEF Push, Pushing
    <3>3. /\ again' \in Nat /\ retry' \in [v : Versions \cup {None}, n : Nat]
          /\ pushes + 1 <= Allowed(ver', want', retry') + again'
      BY <3>1, <3>2, HandlerCounts
    <3>4. Allowed(ver', want', retry') \in Nat
      BY <1>0, <3>3, AllowedIsNat
    <3> QED BY <3>2, <3>3, <3>4 DEF BoundInv
  <2>5. CASE Noop \/ RollBack
    BY <2>5 DEF Noop, RollBack, controller, history, BoundInv, Allowed
  <2>6. CASE Reprovision
    <3>1. want' = want /\ pushes' = 0 /\ again' = 0 /\ retry' = retry
      BY <2>6 DEF Reprovision, controller
    <3>2. Allowed(ver', want', retry') \in Nat
      BY <1>0, <3>1, AllowedIsNat DEF BoundInv
    <3> QED BY <3>1, <3>2 DEF BoundInv
  <2> QED BY <2>1, <2>2, <2>3, <2>4, <2>5, <2>6 DEF Next
<1>3. BoundInv => PushesBounded
  <2> SUFFICES ASSUME BoundInv PROVE PushesBounded
    OBVIOUS
  <2>1. Allowed(ver, want, retry) \in Nat /\ Allowed(ver, want, retry) <= Retries + 1
    BY <1>0, AllowedIsNat DEF BoundInv
  <2> QED BY <1>0, <2>1 DEF BoundInv, PushesBounded
<1> QED BY <1>1, <1>2, <1>3, PTL DEF Spec

-----------------------------------------------------------------------------
\* What the claim is held to, for the claim of now and for the one an open window
\* would bring back: of the first n pushes that applied clean, c, it names the last
\* one whose network was not rolled back, none if there is no such push.
Names(e, n, c, g) ==
  \/ e = None /\ 1..n \subseteq g
  \/ \E i \in (1..n) \ g : e = c[i] /\ (i + 1)..n \subseteq g

\* Under which the claim can be restored at all: no network goes back without the
\* claim (apply_addressing), and no configuration without a network applies while
\* a window is open, which only the answer to an event can bring.
Restorable ==
  /\ Addressing = {}
  /\ StaEvents => {v \in Versions : NetOf[v] = None} \subseteq MgmtOnly \cup Failing \cup Raising

Window == [back : Networks, before : Versions \cup {None}]

ClaimInv ==
  /\ want \in Versions /\ net \in Networks
  /\ clean \in Seq(Versions) /\ gone \subseteq DOMAIN clean /\ opened \in 0..Len(clean)
  /\ eff \in Versions \cup {None} /\ Names(eff, Len(clean), clean, gone)
  /\ window # None =>
       /\ window \in Window /\ Names(window.before, opened, clean, gone)
       /\ \A i \in DOMAIN clean : i > opened => (i \notin gone /\ NetOf[clean[i]] = net)

\* A push that is appended leaves what the earlier ones say.
LEMMA NamesOfPrefix ==
  ASSUME NEW c \in Seq(Versions), NEW g, NEW n \in 0..Len(c), NEW e, NEW v \in Versions,
         Names(e, n, c, g)
  PROVE  Names(e, n, Append(c, v), g)
<1>1. \A i \in 1..n : Append(c, v)[i] = c[i]
  OBVIOUS
<1> QED BY <1>1 DEF Names

\* The claim names the push that just applied clean.
LEMMA NamesLast ==
  ASSUME NEW c \in Seq(Versions), NEW g, g \subseteq DOMAIN c, NEW v \in Versions
  PROVE  Names(v, Len(c) + 1, Append(c, v), g)
<1>1. Append(c, v)[Len(c) + 1] = v /\ Len(c) + 1 \notin g /\ Len(c) \in Nat
  OBVIOUS
<1>2. (Len(c) + 2)..(Len(c) + 1) = {}
  BY <1>1
<1> QED BY <1>1, <1>2 DEF Names

\* What is rolled back are all the pushes after the window opened, so that the claim
\* the window kept names the last of the rest.
LEMMA NamesAfterRollBack ==
  ASSUME NEW c \in Seq(Versions), NEW g, NEW n \in 0..Len(c), NEW e, Names(e, n, c, g),
         \A i \in DOMAIN c : i > n => i \notin g
  PROVE  Names(e, Len(c), c, g \cup {i \in DOMAIN c : i > n})
<1> DEFINE all == g \cup {i \in DOMAIN c : i > n}
<1>1. Len(c) \in Nat /\ n \in Nat /\ n <= Len(c) /\ DOMAIN c = 1..Len(c)
  OBVIOUS
<1>2. (n + 1)..Len(c) \subseteq all
  BY <1>1
<1>3. CASE e = None /\ 1..n \subseteq g
  <2>1. 1..Len(c) \subseteq all
    BY <1>1, <1>2, <1>3
  <2> QED BY <1>3, <2>1 DEF Names
<1>4. CASE \E i \in (1..n) \ g : e = c[i] /\ (i + 1)..n \subseteq g
  <2>1. PICK i \in (1..n) \ g : e = c[i] /\ (i + 1)..n \subseteq g
    BY <1>4
  <2>2. i \in (1..Len(c)) \ all
    BY <1>1, <2>1
  <2>3. (i + 1)..Len(c) \subseteq all
    BY <1>1, <1>2, <2>1
  <2> QED BY <2>1, <2>2, <2>3 DEF Names
<1> QED BY <1>3, <1>4 DEF Names

\* A handler that was cut short or failed appends nothing, one that ran clean the
\* version itself.
LEMMA HandlerOutcome ==
  ASSUME NEW v, NEW w, Handle(v, w), v \notin MgmtOnly
  PROVE  \/ UNCHANGED <<eff, clean>>
         \/ /\ NetworkPart(v, w).ok = TRUE /\ v \notin Failing \cup Raising
            /\ eff' = v /\ clean' = Append(clean, v)
<1> SUFFICES ASSUME ~CutShort(v)
             PROVE  \/ UNCHANGED <<eff, clean>>
                    \/ /\ NetworkPart(v, w).ok = TRUE /\ v \notin Failing \cup Raising
                       /\ eff' = v /\ clean' = Append(clean, v)
  BY DEF CutShort
<1>1. v \notin Raising
  BY DEF Handle
<1>2. PICK ok \in {NetworkPart(v, w).ok /\ v \notin Failing, FALSE} : Settle(v, ok)
  BY DEF Handle
<1>3. NetworkPart(v, w).ok \in BOOLEAN
  BY DEF NetworkPart, Unchanged, Rejected, Applied
<1>4. CASE ok = TRUE
  <2>1. NetworkPart(v, w).ok = TRUE /\ v \notin Failing
    BY <1>2, <1>3, <1>4
  <2>2. SettleClean(v)
    BY <1>2, <1>4 DEF Settle
  <2> QED BY <1>1, <2>1, <2>2 DEF SettleClean
<1>5. CASE ok = FALSE
  BY <1>2, <1>5 DEF Settle, SettleFailed
<1>6. ok \in BOOLEAN
  OBVIOUS
<1> QED BY <1>4, <1>5, <1>6

\* What the network part of a push leaves, by what it asks for.
LEMMA NetworkPartOf ==
  ASSUME Addressing = {}, NEW v \in Versions, NEW w
  PROVE  /\ Opens(v) => /\ NetworkPart(v, w).net = NetOf[v] /\ NetOf[v] \in Networks
                        /\ NetworkPart(v, w).window = [back |-> net, before |-> eff]
         /\ ~Opens(v) => /\ NetworkPart(v, w).net = net /\ NetworkPart(v, w).window = w
                         /\ NetworkPart(v, w).ok = TRUE => NetOf[v] \in {None, net}
BY PushAssumption DEF PushAssumption, Networks, Opens, NetworkPart, Unchanged, Rejected, Applied

\* A push, of whatever version and on whatever answer, keeps the claim true.
LEMMA PushKeepsClaim ==
  ASSUME Restorable, ClaimInv, Push
  PROVE  ClaimInv'
<1> USE DEF ClaimInv
<1>1. PICK w \in {None, window} : (w # None => StaEvents) /\ Handle(want, w)
  BY DEF Push
<1>2. want' = want /\ gone' = gone /\ want \in Versions
  BY DEF Push
<1>3. opened \in Nat /\ Len(clean) \in Nat /\ DOMAIN clean = 1..Len(clean)
  OBVIOUS
<1>4. CASE want \in MgmtOnly
  <2>1. window' = w /\ net' = net /\ eff' = eff /\ clean' = clean
        /\ opened' = IF w = None THEN 0 ELSE opened
    BY <1>1, <1>4 DEF Handle
  <2> QED BY <1>1, <1>2, <1>3, <2>1
<1>5. CASE want \notin MgmtOnly
  <2>1. /\ net' = NetworkPart(want, w).net /\ window' = NetworkPart(want, w).window
        /\ opened' = IF Opens(want) THEN Len(clean) ELSE IF w = None THEN 0 ELSE opened
    BY <1>1, <1>5 DEF Handle
  <2>2. \/ UNCHANGED <<eff, clean>>
        \/ /\ NetworkPart(want, w).ok = TRUE /\ want \notin Failing \cup Raising
           /\ eff' = want /\ clean' = Append(clean, want)
    BY <1>1, <1>5, HandlerOutcome
  <2>3. /\ clean' \in Seq(Versions) /\ gone' \subseteq DOMAIN clean'
        /\ eff' \in Versions \cup {None} /\ Len(clean') >= Len(clean)
        /\ Names(eff', Len(clean'), clean', gone')
    <3>1. CASE UNCHANGED <<eff, clean>>
      BY <1>2, <1>3, <3>1
    <3>2. CASE eff' = want /\ clean' = Append(clean, want)
      <4>1. Len(clean') = Len(clean) + 1 /\ DOMAIN clean' = 1..Len(clean')
        BY <1>2, <3>2
      <4>2. Names(eff', Len(clean'), clean', gone')
        BY <1>2, <3>2, <4>1, NamesLast
      <4> QED BY <1>2, <1>3, <3>2, <4>1, <4>2
    <3> QED BY <2>2, <3>1, <3>2
  <2>4. opened' \in 0..Len(clean')
    BY <1>3, <2>1, <2>3
  <2>5. CASE Opens(want)
    <3>1. /\ net' = NetOf[want] /\ net' \in Networks /\ opened' = Len(clean)
          /\ window' = [back |-> net, before |-> eff]
      BY <1>2, <2>1, <2>5, NetworkPartOf DEF Restorable
    <3>2. window' \in Window /\ window'.before = eff
      BY <3>1 DEF Window
    <3>3. CASE clean' = clean
      BY <1>2, <1>3, <2>3, <2>4, <3>1, <3>2, <3>3
    <3>4. CASE clean' = Append(clean, want)
      <4>1. Names(window'.before, opened', clean', gone')
        BY <1>2, <1>3, <3>1, <3>2, <3>4, NamesOfPrefix
      <4>2. \A i \in DOMAIN clean' : i > opened' => (i \notin gone' /\ NetOf[clean'[i]] = net')
        BY <1>2, <1>3, <3>1, <3>4
      <4> QED BY <1>2, <2>3, <2>4, <3>1, <3>2, <4>1, <4>2
    <3> QED BY <2>2, <3>3, <3>4
  <2>6. CASE ~Opens(want)
    <3>1. /\ net' = net /\ window' = w
          /\ NetworkPart(want, w).ok = TRUE => NetOf[want] \in {None, net}
      BY <1>2, <2>1, <2>6, NetworkPartOf DEF Restorable
    <3>2. CASE w = None
      BY <1>2, <2>3, <2>4, <3>1, <3>2
    <3>3. CASE w # None
      <4>1. w = window /\ opened' = opened /\ StaEvents
        BY <1>1, <2>1, <2>6, <3>3
      <4>2. CASE clean' = clean
        BY <1>2, <2>3, <2>4, <3>1, <3>3, <4>1, <4>2
      <4>3. CASE /\ NetworkPart(want, w).ok = TRUE /\ want \notin Failing \cup Raising
                 /\ clean' = Append(clean, want)
        <5>1. want \notin {v \in Versions : NetOf[v] = None}
          BY <1>5, <4>1, <4>3 DEF Restorable
        <5>2. NetOf[want] = net
          BY <1>2, <3>1, <4>3, <5>1
        <5>3. Names(window'.before, opened', clean', gone')
          BY <1>2, <3>1, <3>3, <4>1, <4>3, NamesOfPrefix
        <5>4. \A i \in DOMAIN clean' : i > opened' => (i \notin gone' /\ NetOf[clean'[i]] = net')
          BY <1>2, <1>3, <3>1, <3>3, <4>1, <4>3, <5>2
        <5> QED BY <1>2, <2>3, <2>4, <3>1, <3>3, <4>1, <5>3, <5>4
      <4> QED BY <2>2, <4>2, <4>3
    <3> QED BY <3>2, <3>3
  <2> QED BY <2>5, <2>6
<1> QED BY <1>4, <1>5

\* cfgversion_effective names the last push that applied clean and was not rolled
\* back, for every set of configurations, in every order of pushes, events, losses,
\* crashes and rollbacks.
THEOREM ClaimIsTheLastClean == Restorable => (Spec => []EffectiveIsLastClean)
<1> SUFFICES ASSUME Restorable PROVE Spec => []EffectiveIsLastClean
  OBVIOUS
<1>1. Init => ClaimInv
  BY PushAssumption DEF PushAssumption, Init, ClaimInv, Names, Networks
<1>2. ClaimInv /\ [Next]_vars => ClaimInv'
  <2> SUFFICES ASSUME ClaimInv, [Next]_vars PROVE ClaimInv'
    OBVIOUS
  <2>1. CASE UNCHANGED vars \/ NewConfig \/ TenMinutes \/ PushLost \/ Reprovision
    <3>1. want' \in Versions /\ UNCHANGED <<net, eff, window, clean, gone, opened>>
      BY <2>1 DEF vars, controller, device, log, history, NewConfig, TenMinutes, PushLost,
                  Reprovision, ClaimInv
    <3> QED BY <3>1 DEF ClaimInv
  <2>2. CASE Push
    BY <2>2, PushKeepsClaim
  <2>3. CASE Noop
    BY <2>3 DEF Noop, controller, ClaimInv
  <2>4. CASE RollBack
    <3>1. /\ window # None /\ window' = None /\ opened' = 0 /\ eff' = window.before
          /\ want' = want /\ net' = window.back /\ clean' = clean
          /\ gone' = gone \cup {i \in DOMAIN clean : i > opened /\ NetOf[clean[i]] = net}
      BY <2>4 DEF RollBack, RolledBack, controller
    <3>2. gone' = gone \cup {i \in DOMAIN clean : i > opened}
      BY <3>1 DEF ClaimInv
    <3>3. Names(eff', Len(clean'), clean', gone')
      BY <3>1, <3>2, NamesAfterRollBack DEF ClaimInv
    <3>4. net' \in Networks /\ eff' \in Versions \cup {None}
      BY <3>1 DEF ClaimInv, Window
    <3>5. gone' \subseteq DOMAIN clean'
      BY <3>1 DEF ClaimInv
    <3> QED BY <3>1, <3>3, <3>4, <3>5 DEF ClaimInv
  <2> QED BY <2>1, <2>2, <2>3, <2>4 DEF Next
<1>3. ClaimInv => EffectiveIsLastClean
  BY DEF ClaimInv, Names, EffectiveIsLastClean
<1> QED BY <1>1, <1>2, <1>3, PTL DEF Spec
=============================================================================
