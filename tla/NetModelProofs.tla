--------------------------- MODULE NetModelProofs ---------------------------
(* What holds of NetModel for every set of plans, every timeout and every    *)
(* bound, whichever saves raise and copies come out short.  TypeOK and         *)
(* AppliedNeverFailed need no assumption; that an unproven network is always  *)
(* covered needs Careful.                                                    *)
EXTENDS NetModel, TLAPS

\* A record stays a record when its clock moves, and when another process has
\* written it.
LEMMA NoRecordIsRecord == NoRecord \in Records
BY DEF NoRecord, NoWindow, Records, Windows

LEMMA RecordSteps ==
  ASSUME NetAssumption, NEW s \in Records, uptime \in Int
  PROVE  /\ Older(s) \in Records /\ Rebooted(s) \in Records
         /\ FreshWindow(s) \in Records /\ Confirmed(s) \in Records
         /\ RolledBack(s) \in Records /\ NoRecord \in Records
         /\ \A f \in Changes : Opened(s, f) \in Records /\ Asked(s, f) \in Records
         /\ \A op \in Commands : Written(op, s) \in Records
<1>1. NoRecord \in Records /\ NoWindow \in Windows
  BY DEF NoRecord, NoWindow, Records, Windows
<1>2. Older(s) \in Records /\ Rebooted(s) \in Records /\ FreshWindow(s) \in Records
  BY DEF Older, Rebooted, FreshWindow, Open, Records, Windows
<1>3. Confirmed(s) \in Records /\ RolledBack(s) \in Records
  BY <1>1 DEF Confirmed, RolledBack, Records, Windows
<1>4. \A f \in Changes : Opened(s, f) \in Records /\ Asked(s, f) \in Records
  <2> SUFFICES ASSUME NEW f \in Changes
               PROVE  Opened(s, f) \in Records /\ Asked(s, f) \in Records
    OBVIOUS
  <2>1. Asked(s, f) \in Records /\ Asked(s, f).applied = s.applied
    BY DEF Asked, Records
  <2>2. [fp |-> f, age |-> 0] \in Windows
    BY DEF Windows
  <2>3. (IF f \in Plans THEN f ELSE Asked(s, f).applied) \in Plans \cup {None}
    BY <2>1 DEF Records
  <2> QED BY <2>1, <2>2, <2>3 DEF Opened, Records
<1>5. \A op \in Commands : Written(op, s) \in Records
  BY <1>1 DEF Written, Commands, Records
<1> QED BY <1>1, <1>2, <1>3, <1>4, <1>5

\* Committing and reloading have a change to commit and to reload.
TypeInv == TypeOK /\ (pc \in {"copied", "committed"} => target \in Changes)

LEMMA InitTypes == Init => TypeInv
<1> SUFFICES ASSUME Init PROVE TypeInv
  OBVIOUS
<1>1. IdleProcess \in [op : Commands \cup {"none"}, copy : Records]
  BY NoRecordIsRecord DEF IdleProcess
<1>2. 0 \in 0..MaxUptime /\ 0 \in 0..MaxRestarts /\ AtStart \in AtStart..EventsPerTick
  BY NetAssumption DEF NetAssumption, AtStart
<1> QED
  BY <1>1, <1>2, NoRecordIsRecord, NetAssumption
  DEF Init, TypeInv, TypeOK, Nets, Steps, AtStart, NetAssumption

LEMMA TypeStep ==
  ASSUME TypeInv, [Next]_vars
  PROVE  TypeInv'
<1> USE NetAssumption
<1>0. uptime \in Int /\ MaxUptime \in Nat /\ MaxRestarts \in Nat /\ EventsPerTick \in Nat
  BY DEF TypeInv, TypeOK, NetAssumption
<1>r. \A s \in Records :
        /\ Older(s) \in Records /\ Rebooted(s) \in Records
        /\ FreshWindow(s) \in Records /\ Confirmed(s) \in Records
        /\ RolledBack(s) \in Records /\ NoRecord \in Records
        /\ \A f \in Changes : Opened(s, f) \in Records /\ Asked(s, f) \in Records
        /\ \A op \in Commands : Written(op, s) \in Records
  BY <1>0, RecordSteps
<1>x. ASSUME NEW op \in Commands, NEW s \in Records, Writes(op, s)
      PROVE  disk' \in Records /\ changed' \in BOOLEAN /\ lost' \in Changes \cup {None}
  <2>1. CASE disk' = Written(op, s) /\ changed' = (pc # "off")
             /\ lost' = IF op = "touch" THEN lost ELSE None
    <3>1. Written(op, s) \in Records
      BY <1>r
    <3>2. lost' \in Changes \cup {None}
      BY <2>1 DEF TypeInv, TypeOK
    <3> QED BY <2>1, <3>1, <3>2
  <2>2. CASE UNCHANGED <<disk, changed, lost>>
    BY <2>2 DEF TypeInv, TypeOK
  <2> QED BY <1>x, <2>1, <2>2 DEF Writes
<1>u. \A n \in Nets : Put(n) \subseteq Nets
  BY DEF Put, Nets
<1>1. CASE UNCHANGED vars
  BY <1>1 DEF TypeInv, TypeOK, vars, files, records, loop, others, history
<1>2. CASE Heartbeat
  <2>1. CASE StartTick
    <3>1. sent' \in AtStart..EventsPerTick
      BY <2>1, <1>0 DEF StartTick, AtStart
    <3>2. mem' \in Records
      BY <2>1 DEF StartTick, TypeInv, TypeOK
    <3>3. owed' \in BOOLEAN /\ amiss' \in BOOLEAN
      BY <2>1 DEF StartTick
    <3> QED
      BY <2>1, <3>1, <3>2, <3>3 DEF StartTick, TypeInv, TypeOK, Steps, files, others, history
  <2>2. CASE Answer
    BY <2>2, <1>r DEF Answer, Nets, TypeInv, TypeOK, Steps, files, records, loop, others, history
  <2>3. CASE SaveConfirmed
    BY <2>3, <1>r DEF SaveConfirmed, Save, SaveRaises, TypeInv, TypeOK, Steps, files, records, loop, others, history
  <2>4. CASE NoAnswer
    BY <2>4, <1>r DEF NoAnswer, TypeInv, TypeOK, Steps, files, records, loop, others, history
  <2> QED BY <1>2, <2>1, <2>2, <2>3, <2>4 DEF Heartbeat
<1>3. CASE Rollback
  <2>1. CASE WriteBack
    BY <2>1, <1>r, <1>u DEF WriteBack, Records, Windows, Open, TypeInv, TypeOK, Steps, files, records, loop, others, history
  <2>2. CASE WriteBackFails
    BY <2>2, <1>r DEF WriteBackFails, Save, TypeInv, TypeOK, Steps, files, records, loop, others, history
  <2>3. CASE NothingToRestore
    BY <2>3, <1>r DEF NothingToRestore, Records, Windows, TypeInv, TypeOK, Steps, files, records, loop, others, history
  <2>4. CASE DropCopy
    BY <2>4, <1>r DEF DropCopy, TypeInv, TypeOK, Steps, files, records, loop, others, history
  <2>5. CASE ReloadRestored
    BY <2>5, <1>r DEF ReloadRestored, TypeInv, TypeOK, Steps, files, records, loop, others, history
  <2>6. CASE SaveRolledBack
    BY <2>6, <1>r DEF SaveRolledBack, Save, SaveRaises, TypeInv, TypeOK, Steps, files, records, loop, others, history
  <2> QED BY <1>3, <2>1, <2>2, <2>3, <2>4, <2>5, <2>6 DEF Rollback
<1>4. CASE Push
  <2>0. CASE NoNetwork
    BY <2>0 DEF NoNetwork, TypeInv, TypeOK, Steps, files, records, loop, others, history
  <2>1. CASE \E f \in Changes : Refuse(f)
    <3>1. PICK f \in Changes : Refuse(f)
      BY <2>1
    <3>2. mem' \in Records
      BY <3>1, <1>r DEF Refuse, TypeInv, TypeOK
    <3>3. pristine' \in Nets \cup {None} /\ amiss' \in BOOLEAN
      BY <3>1, <1>u DEF Refuse, TypeInv, TypeOK
    <3> QED
      BY <3>1, <3>2, <3>3 DEF Refuse, TypeInv, TypeOK, Steps, loop, others, history
  <2>2. CASE \E f \in Changes : AlreadyThere(f)
    <3>1. PICK f \in Changes : AlreadyThere(f)
      BY <2>2
    <3>2. Asked(mem, f) \in Records
      BY <1>r DEF TypeInv, TypeOK
    <3>3. mem' \in Records
      BY <3>1, <3>2 DEF AlreadyThere, Records
    <3> QED
      BY <3>1, <3>3 DEF AlreadyThere, TypeInv, TypeOK, Steps, files, loop, others, history
  <2>3. CASE \E f \in Changes : KeepCopy(f)
    BY <2>3, <1>u DEF KeepCopy, TypeInv, TypeOK, Steps, files, records, loop, others, history
  <2>4. CASE Commit \/ CommitFails
    <3>1. CASE Commit
      BY <3>1 DEF Commit, TypeInv, TypeOK, Steps, Nets, records, loop, others, history
    <3>2. CASE CommitFails
      <4>1. mem' \in Records
        BY <3>2, <1>r DEF CommitFails, TypeInv, TypeOK
      <4> QED
        BY <3>2, <4>1 DEF CommitFails, TypeInv, TypeOK, Steps, others, history
    <3> QED BY <2>4, <3>1, <3>2
  <2>5. CASE Reload
    BY <2>5, <1>r DEF Reload, TypeInv, TypeOK, Steps, files, records, loop, others, history
  <2>6. CASE SaveApplied \/ EndResponse
    BY <2>6 DEF SaveApplied, EndResponse, Save, SaveRaises, TypeInv, TypeOK, Steps,
         files, records, loop, others, history
  <2>7. CASE EventAnswer
    <3>1. sent' \in AtStart..EventsPerTick
      BY <2>7, <1>0 DEF EventAnswer, AtStart
    <3>2. proven' \subseteq Nets
      BY <2>7 DEF EventAnswer, TypeInv, TypeOK
    <3>3. disk' \in Records /\ mem' \in Records /\ changed' \in BOOLEAN /\ owed' \in BOOLEAN
      BY <2>7 DEF EventAnswer, Save, records, TypeInv, TypeOK
    <3> QED
      BY <2>7, <3>1, <3>2, <3>3 DEF EventAnswer, Save, TypeInv, TypeOK, Steps,
         files, records, loop, others, history
  <2> QED BY <1>4, <2>0, <2>1, <2>2, <2>3, <2>4, <2>5, <2>6, <2>7 DEF Push
<1>5. CASE Start \/ NothingToReapply
  BY <1>5, <1>r DEF Start, NothingToReapply, TypeInv, TypeOK, Steps, files, records,
     loop, others, history
<1>5r. CASE ReapplyStatic
  <2>1. target' \in Changes
    BY <1>5r DEF ReapplyStatic, Reapplied, TypeInv, TypeOK, Records, Changes
  <2> QED
    BY <1>5r, <2>1, <1>u DEF ReapplyStatic, TypeInv, TypeOK, Steps, records, others, history
<1>6. CASE Crash \/ Reboot
  <2>1. ASSUME GoDown PROVE restarts' \in 0..MaxRestarts /\ AtStart \in AtStart..EventsPerTick
    BY <2>1, <1>0 DEF GoDown, TypeInv, TypeOK, AtStart
  <2>2. IdleProcess \in [op : Commands \cup {"none"}, copy : Records]
    BY NoRecordIsRecord DEF IdleProcess
  <2>3. CASE Crash
    BY <2>3, <2>1, NoRecordIsRecord DEF Crash, GoDown, Forget, TypeInv, TypeOK, Steps, files
  <2>4. CASE Reboot
    <3>1. uptime' \in 0..MaxUptime
      BY <2>4, <1>0 DEF Reboot
    <3>2. disk' \in Records /\ mem' \in Records /\ changed' \in BOOLEAN
          /\ owed' \in BOOLEAN /\ amiss' \in BOOLEAN
      BY <2>4, <1>r, NoRecordIsRecord DEF Reboot, GoDown, Forget, TypeInv, TypeOK
    <3>3. pc' = "off" /\ target' = None /\ sent' \in AtStart..EventsPerTick
          /\ restarts' \in 0..MaxRestarts
      BY <2>4, <2>1 DEF Reboot, GoDown, Forget
    <3> QED
      BY <2>4, <2>2, <3>1, <3>2, <3>3 DEF Reboot, TypeInv, TypeOK, Steps
  <2> QED BY <1>6, <2>3, <2>4
<1>6d. CASE DieUnsaved
  <2>1. AtStart \in AtStart..EventsPerTick
    BY <1>0 DEF AtStart
  <2> QED
    BY <1>6d, <2>1, NoRecordIsRecord DEF DieUnsaved, Forget, TypeInv, TypeOK, Steps, files, others
<1>7. CASE Command
  <2>1. CASE \E op \in Commands : Run(op)
    <3>1. PICK op \in Commands : Run(op)
      BY <2>1
    <3>2. netfile' \in Nets /\ live' \in Nets /\ amiss' \in BOOLEAN
      BY <3>1, <1>u DEF Run, Restores, TypeInv, TypeOK
    <3>3. disk' \in Records /\ changed' \in BOOLEAN /\ lost' \in Changes \cup {None}
      BY <3>1, <1>x DEF Run, TypeInv, TypeOK
    <3> QED BY <3>1, <3>2, <3>3 DEF Run, TypeInv, TypeOK, loop, others
  <2>2. CASE \E op \in Commands : Load(op)
    <3>1. PICK op \in Commands : Load(op)
      BY <2>2
    <3>2. netfile' \in Nets /\ live' \in Nets /\ amiss' \in BOOLEAN
      BY <3>1, <1>u DEF Load, Restores, TypeInv, TypeOK
    <3>3. sw' \in [op : Commands \cup {"none"}, copy : Records]
      BY <3>1 DEF Load, TypeInv, TypeOK
    <3> QED BY <3>1, <3>2, <3>3 DEF Load, TypeInv, TypeOK, records, loop
  <2>3. CASE Store
    <3>1. disk' \in Records /\ changed' \in BOOLEAN /\ lost' \in Changes \cup {None}
      BY <2>3, <1>x DEF Store, TypeInv, TypeOK
    <3>2. sw' \in [op : Commands \cup {"none"}, copy : Records]
      BY <2>3, NoRecordIsRecord DEF Store, IdleProcess
    <3> QED BY <2>3, <3>1, <3>2 DEF Store, TypeInv, TypeOK, files, loop
  <2> QED BY <1>7, <2>1, <2>2, <2>3 DEF Command
<1>8. CASE Clock
  BY <1>8, <1>r, <1>0 DEF Clock, TypeInv, TypeOK, files, records, loop, others, history
<1> QED BY <1>1, <1>2, <1>3, <1>4, <1>5, <1>5r, <1>6, <1>6d, <1>7, <1>8 DEF Next, Daemon

\* Types are kept by every action, whatever the constants.
THEOREM TypeCorrect == Spec => []TypeOK
<1>1. TypeInv /\ [Next]_vars => TypeInv'
  BY TypeStep
<1>2. TypeInv => TypeOK
  BY DEF TypeInv
<1> QED BY InitTypes, <1>1, <1>2, PTL DEF Spec

-----------------------------------------------------------------------------
\* The clock, a reboot, a restart and a forgiven failure leave a window as open
\* as it was.
LEMMA OpenSteps ==
  ASSUME NetAssumption, NEW s \in Records
  PROVE  /\ Open(Older(s)) <=> Open(s)
         /\ Open(Rebooted(s)) <=> Open(s)
         /\ Open(FreshWindow(s)) <=> Open(s)
         /\ \A f \in Changes :
              /\ Open(Opened(s, f)) /\ (Open(Asked(s, f)) <=> Open(s))
              /\ Opened(s, f).static \in {None, f} /\ Asked(s, f).static \in {None, f}
         /\ \A op \in {"touch", "retry"} :
              (Open(Written(op, s)) <=> Open(s)) /\ Written(op, s).static = s.static
         /\ Older(s).static = s.static /\ Rebooted(s).static = s.static
         /\ FreshWindow(s).static = s.static
<1>1. /\ Open(Older(s)) <=> Open(s)
      /\ Open(Rebooted(s)) <=> Open(s)
      /\ Older(s).static = s.static /\ Rebooted(s).static = s.static
  BY DEF Older, Rebooted, Open, Records, Windows
<1>2. (Open(FreshWindow(s)) <=> Open(s)) /\ FreshWindow(s).static = s.static
  BY DEF FreshWindow, Open, Records, Windows
<1>3. ASSUME NEW f \in Changes
      PROVE  /\ Open(Opened(s, f)) /\ (Open(Asked(s, f)) <=> Open(s))
             /\ Opened(s, f).static \in {None, f} /\ Asked(s, f).static \in {None, f}
  <2>1. /\ Asked(s, f) \in [pending : Windows, applied : Plans \cup {None},
                             failed : Changes \cup {None}, static : {None, f}]
        /\ Asked(s, f).pending = s.pending
    BY DEF Asked, Records
  <2>2. Opened(s, f).pending = [fp |-> f, age |-> 0] /\ Opened(s, f).static = Asked(s, f).static
    BY <2>1 DEF Opened
  <2> QED BY <2>1, <2>2, NetAssumption DEF NetAssumption, Open, Nets
<1>4. ASSUME NEW op \in {"touch", "retry"}
      PROVE  (Open(Written(op, s)) <=> Open(s)) /\ Written(op, s).static = s.static
  BY DEF Written, Open, Records
<1> QED BY <1>1, <1>2, <1>3, <1>4

\* What was lost stays lost.
LEMMA AmissStays ==
  ASSUME TypeInv, [Next]_vars
  PROVE  amiss => amiss'
<1>1. CASE UNCHANGED vars
  BY <1>1 DEF vars, history
<1>2. CASE Heartbeat \/ Rollback
  BY <1>2 DEF Heartbeat, StartTick, Answer, SaveConfirmed, NoAnswer, Rollback, WriteBack,
     WriteBackFails, NothingToRestore, DropCopy, ReloadRestored, SaveRolledBack, history
<1>3. CASE Push
  BY <1>3 DEF Push, NoNetwork, Refuse, AlreadyThere, KeepCopy, Commit, CommitFails, Reload,
     SaveApplied, EndResponse, EventAnswer, history
<1>4. CASE DieUnsaved \/ Start \/ NothingToReapply \/ ReapplyStatic \/ Crash \/ Reboot
  BY <1>4 DEF DieUnsaved, Start, NothingToReapply, ReapplyStatic, Crash, Reboot, GoDown,
     Forget, history
<1>5. CASE Command \/ Clock
  BY <1>5 DEF Command, Run, Load, Store, Restores, Clock, history
<1> QED BY <1>1, <1>2, <1>3, <1>4, <1>5 DEF Next, Daemon

\* Without interleaved commands there is no other process between two steps; and a
\* daemon that is down owes nothing: what it could not save is lost.
Settled == sw = IdleProcess /\ (pc = "off" => ~owed)

LEMMA SettledStep ==
  ASSUME NetAssumption, ~Race, TypeInv, Settled, [Next]_vars
  PROVE  Settled'
<1> USE DEF Settled
<1>1. CASE UNCHANGED vars
  BY <1>1 DEF vars, records, others
<1>2. CASE Heartbeat \/ Rollback
  BY <1>2 DEF Heartbeat, StartTick, Answer, SaveConfirmed, NoAnswer, Rollback, WriteBack,
     WriteBackFails, NothingToRestore, DropCopy, ReloadRestored, SaveRolledBack, others
<1>3. CASE Push
  BY <1>3 DEF Push, NoNetwork, Refuse, AlreadyThere, KeepCopy, Commit, CommitFails, Reload,
     SaveApplied, EndResponse, EventAnswer, others
<1>4. CASE DieUnsaved \/ Start \/ NothingToReapply \/ ReapplyStatic \/ Crash \/ Reboot
  BY <1>4 DEF DieUnsaved, Start, NothingToReapply, ReapplyStatic, Crash, Reboot, GoDown,
     Forget, others
<1>5. CASE Command
  BY <1>5 DEF Command, Run, Load, Store, IdleProcess, others
<1>6. CASE Clock
  <2>1. sw' = IdleProcess
    BY <1>6 DEF Clock, IdleProcess, Older, Open, NoRecord, NoWindow
  <2> QED BY <1>6, <2>1 DEF Clock
<1> QED BY <1>1, <1>2, <1>3, <1>4, <1>5, <1>6 DEF Next, Daemon

LEMMA NothingBetween ==
  ASSUME ~Race, Settled
  PROVE  ~((\E op \in Commands : Load(op)) \/ Store)
<1>1. ~Store
  BY DEF Store, Settled, IdleProcess
<1>2. \A op \in Commands : ~Load(op)
  BY DEF Load
<1> QED BY <1>1, <1>2

\* A file that nobody cut short is what was to be written.
LEMMA PutWhole ==
  ASSUME NEW n, NEW m \in Put(n), m # Torn
  PROVE  m = n
BY DEF Put

\* One step of any process keeps an unproven network covered.
LEMMA CoverStep ==
  ASSUME NetAssumption, Careful, TypeInv, CoverInv, [Next]_vars
  PROVE  CoverInv'
<1>n. None \notin Nets /\ None \notin Changes /\ Board # None
  BY DEF NetAssumption, Nets
<1>t. disk \in Records /\ mem \in Records /\ netfile \in Nets /\ live \in Nets
      /\ proven \subseteq Nets
  BY DEF TypeInv, TypeOK
<1>o. \A s \in {disk, mem} :
        /\ Open(Older(s)) <=> Open(s)
        /\ Open(Rebooted(s)) <=> Open(s)
        /\ Open(FreshWindow(s)) <=> Open(s)
        /\ \A f \in Changes :
             /\ Open(Opened(s, f)) /\ (Open(Asked(s, f)) <=> Open(s))
             /\ Opened(s, f).static \in {None, f} /\ Asked(s, f).static \in {None, f}
        /\ \A op \in {"touch", "retry"} :
             (Open(Written(op, s)) <=> Open(s)) /\ Written(op, s).static = s.static
        /\ Older(s).static = s.static /\ Rebooted(s).static = s.static
        /\ FreshWindow(s).static = s.static
  BY <1>t, OpenSteps
<1>p. None \notin proven
  BY <1>t, <1>n
<1>s. Settled /\ Settled'
  BY SettledStep DEF CoverInv, Settled, Careful
<1> SUFFICES ASSUME ~amiss' PROVE Covered'
  BY <1>s DEF CoverInv, Settled
<1>a. ~amiss /\ Covered
  BY AmissStays DEF CoverInv
<1> USE <1>a, <1>s DEF Covered, Settled
<1>1. CASE UNCHANGED vars
  BY <1>1 DEF vars, files, records, loop, others, history, Open
<1>2. CASE Heartbeat
  <2>1. CASE StartTick
    BY <1>2, <2>1 DEF StartTick, files, loop, others, history, Open
  <2>2. CASE Answer
    BY <2>2 DEF Answer, loop, others, Open
  <2>3. CASE SaveConfirmed
    BY <2>3 DEF SaveConfirmed, Save, SaveRaises, files, loop, others, history, Open
  <2>4. CASE NoAnswer
    BY <2>4 DEF NoAnswer, files, records, loop, others, history, Open
  <2> QED BY <1>2, <2>1, <2>2, <2>3, <2>4 DEF Heartbeat
<1>3. CASE Rollback
  <2>1. CASE WriteBack
    BY <2>1, <1>n, PutWhole DEF WriteBack, records, loop, others, Open
  <2>2. CASE WriteBackFails
    BY <2>2 DEF WriteBackFails, Save, SaveRaises, files, records, loop, others, history, Open
  <2>3. CASE NothingToRestore
    BY <2>3 DEF NothingToRestore, files, loop, others, Open
  <2>4. CASE DropCopy
    BY <2>4 DEF DropCopy, records, loop, others, history, Open
  <2>5. CASE ReloadRestored
    BY <2>5 DEF ReloadRestored, loop, others, history, Open
  <2>6. CASE SaveRolledBack
    BY <2>6 DEF SaveRolledBack, Save, SaveRaises, files, loop, others, history, Open
  <2> QED BY <1>3, <2>1, <2>2, <2>3, <2>4, <2>5, <2>6 DEF Rollback
<1>4. CASE Push
  <2>0. CASE NoNetwork
    BY <2>0 DEF NoNetwork, files, records, loop, others, history, Open
  <2>1. CASE \E f \in Changes : Refuse(f)
    <3>1. PICK f \in Changes : Refuse(f)
      BY <2>1
    <3>2. pristine' \in {pristine, netfile}
      BY <3>1, PutWhole DEF Refuse
    <3>3. pristine' \in proven \cup {None}
      BY <3>1, <3>2 DEF Refuse
    <3> QED BY <3>1, <3>3, <1>o DEF Refuse, loop, others
  <2>2. CASE \E f \in Changes : AlreadyThere(f)
    BY <2>2 DEF AlreadyThere, files, loop, others, history
  <2>3. CASE \E f \in Changes : KeepCopy(f)
    <3>1. PICK f \in Changes : KeepCopy(f)
      BY <2>3
    <3>2. rollback' = netfile /\ pristine' \in {pristine, netfile}
      BY <3>1, PutWhole DEF KeepCopy
    <3>3. netfile \in proven
      BY <3>1 DEF KeepCopy
    <3> QED BY <3>1, <3>2, <3>3, <1>p, <1>n, <1>t DEF KeepCopy, records, others, Open
  <2>4. CASE Commit
    BY <2>4 DEF Commit, records, loop, others, history, Open
  <2>5. CASE CommitFails
    BY <2>5 DEF CommitFails, others, history, Open
  <2>6. CASE Reload
    BY <2>6, <1>o DEF Reload, TypeInv, others, history
  <2>7. CASE SaveApplied \/ EndResponse
    BY <2>7 DEF SaveApplied, EndResponse, Save, SaveRaises, files, records, loop, others,
       history, Open
  <2>8. CASE EventAnswer
    BY <2>8 DEF EventAnswer, Save, SaveRaises, files, records, others, Open
  <2> QED BY <1>4, <2>0, <2>1, <2>2, <2>3, <2>4, <2>5, <2>6, <2>7, <2>8 DEF Push
<1>5. CASE Start \/ NothingToReapply
  BY <1>5, <1>o DEF Start, NothingToReapply, files, records, loop, others,
     history, Open
<1>5d. CASE DieUnsaved
  BY <1>5d DEF DieUnsaved, Forget
<1>5r. CASE ReapplyStatic
  <2>1. netfile \in proven /\ live \in proven
    BY <1>5r DEF ReapplyStatic, Reapplied
  <2> QED
    BY <1>5r, <2>1, <1>p DEF ReapplyStatic, Reapplied, Put, records, others, history
<1>6. CASE Crash
  BY <1>6 DEF Crash, GoDown, Forget, Careful, InHand, files, history
<1>7. CASE Reboot
  BY <1>7, <1>o DEF Reboot, GoDown, Forget, Careful, InHand, history
<1>8. CASE Command
  <2>1. CASE \E op \in Commands : Run(op)
    <3>1. PICK op \in Commands : Run(op)
      BY <2>1
    <3>2. CASE op = "restore"
      BY <3>1, <3>2, <1>n, <1>p DEF Run, Restores, Writes, Written, loop, others
    <3>3. CASE op \in {"touch", "retry"}
      BY <3>1, <3>3, <1>o DEF Run, Restores, Writes, loop, others
    <3> QED BY <3>1, <3>2, <3>3 DEF Run, Runs, Careful, Commands
  <2>2. CASE (\E op \in Commands : Load(op)) \/ Store
    BY <2>2, <1>s, NothingBetween DEF Careful
  <2> QED BY <1>8, <2>1, <2>2 DEF Command
<1>9. CASE Clock
  BY <1>9, <1>o DEF Clock, files, loop, history
<1> QED BY <1>1, <1>2, <1>3, <1>4, <1>5, <1>5d, <1>5r, <1>6, <1>7, <1>8, <1>9 DEF Next, Daemon

\* The safety net holds for every set of plans, timeout and number of restarts, and
\* whichever saves raise: as long as commands do not interleave or reset the device,
\* and nothing goes down between a commit and the save of its window, a network
\* nobody answered over has an open window and a copy of one that was answered over
\* -- until a daemon forgets a record it could not save, or a file is cut short.
THEOREM NetworkIsCovered ==
  ASSUME Careful
  PROVE  Spec => []UnprovenIsCovered
<1>1. Init => TypeInv /\ CoverInv
  BY InitTypes DEF Init, CoverInv, Covered, IdleProcess
<1>2. TypeInv /\ CoverInv /\ [Next]_vars => TypeInv' /\ CoverInv'
  BY NetAssumption, Careful, TypeStep, CoverStep
<1>3. TypeInv /\ CoverInv => UnprovenIsCovered
  <2> SUFFICES ASSUME TypeInv, CoverInv, pc \notin InHand,
                      ~({netfile, live} \subseteq proven), ~amiss
               PROVE  (Open(disk) \/ owed) /\ (pc # "off" => Open(mem)) /\ rollback \in proven
    BY DEF UnprovenIsCovered
  <2>1. Covered /\ live \notin proven
    BY DEF CoverInv, Covered, InHand
  <2> QED BY <2>1 DEF Covered, InHand
<1> QED BY <1>1, <1>2, <1>3, PTL DEF Spec
-----------------------------------------------------------------------------
\* What the clock, a restart, a push or a command does to what a record says of
\* applied and failed plans.
LEMMA FailedSteps ==
  ASSUME NetAssumption, NEW s \in Records
  PROVE  /\ Older(s).failed = s.failed /\ Older(s).applied = s.applied
         /\ Rebooted(s).failed = s.failed /\ Rebooted(s).applied = s.applied
         /\ FreshWindow(s).failed = s.failed /\ FreshWindow(s).applied = s.applied
         /\ Confirmed(s).failed = s.failed /\ Confirmed(s).applied = s.applied
         /\ RolledBack(s).failed = s.pending.fp /\ RolledBack(s).applied = None
         /\ \A f \in Changes :
              /\ Asked(s, f).failed = s.failed /\ Asked(s, f).applied = s.applied
              /\ Opened(s, f).failed = s.failed
              /\ Opened(s, f).applied = IF f \in Plans THEN f ELSE s.applied
         /\ Written("touch", s) = s
         /\ \A op \in Commands : Written(op, s).failed \in {None, s.failed}
         /\ \A op \in Commands : Written(op, s).applied \in {None, s.applied}
         /\ Older(s).pending.fp = s.pending.fp
<1>1. /\ Older(s).failed = s.failed /\ Older(s).applied = s.applied
      /\ Rebooted(s).failed = s.failed /\ Rebooted(s).applied = s.applied
      /\ FreshWindow(s).failed = s.failed /\ FreshWindow(s).applied = s.applied
      /\ Older(s).pending.fp = s.pending.fp
  BY DEF Older, Rebooted, FreshWindow, Records, Windows
<1>2. /\ Confirmed(s).failed = s.failed /\ Confirmed(s).applied = s.applied
      /\ RolledBack(s).failed = s.pending.fp /\ RolledBack(s).applied = None
  BY DEF Confirmed, RolledBack, Records
<1>3. ASSUME NEW f \in Changes
      PROVE  /\ Asked(s, f).failed = s.failed /\ Asked(s, f).applied = s.applied
             /\ Opened(s, f).failed = s.failed
             /\ Opened(s, f).applied = IF f \in Plans THEN f ELSE s.applied
  <2>1. /\ Asked(s, f) \in [pending : Windows, applied : Plans \cup {None},
                             failed : Changes \cup {None}, static : {None, f}]
        /\ Asked(s, f).failed = s.failed /\ Asked(s, f).applied = s.applied
    BY DEF Asked, Records
  <2> QED BY <2>1 DEF Opened
<1>4. Written("touch", s) = s
  BY DEF Written
<1>5. \A op \in Commands : /\ Written(op, s).failed \in {None, s.failed}
                           /\ Written(op, s).applied \in {None, s.applied}
  BY DEF Written, Commands, NoRecord, Records
<1> QED BY <1>1, <1>2, <1>3, <1>4, <1>5

\* What stands in a record as applied is never what stands in it as failed, and
\* a change on its way into place is not the failed one.
Applicable(s) == s.applied # None => s.applied # s.failed
AppliedInv ==
  /\ Applicable(disk) /\ Applicable(mem) /\ Applicable(sw.copy)
  /\ pc \in {"copied", "committed"} => target # mem.failed

LEMMA AppliedStep ==
  ASSUME NetAssumption, TypeInv, AppliedInv, [Next]_vars
  PROVE  AppliedInv'
<1>n. None \notin Changes /\ Applicable(NoRecord) /\ NoRecord.failed = None
  BY DEF NetAssumption, Nets, Applicable, NoRecord
<1>t. disk \in Records /\ mem \in Records /\ sw.copy \in Records
  BY DEF TypeInv, TypeOK
<1>f. \A s \in Records :
        /\ Older(s).failed = s.failed /\ Older(s).applied = s.applied
        /\ Rebooted(s).failed = s.failed /\ Rebooted(s).applied = s.applied
        /\ FreshWindow(s).failed = s.failed /\ FreshWindow(s).applied = s.applied
        /\ Confirmed(s).failed = s.failed /\ Confirmed(s).applied = s.applied
        /\ RolledBack(s).applied = None
        /\ \A f \in Changes :
             /\ Asked(s, f).failed = s.failed /\ Asked(s, f).applied = s.applied
             /\ Opened(s, f).failed = s.failed
             /\ Opened(s, f).applied = IF f \in Plans THEN f ELSE s.applied
        /\ \A op \in Commands : Written(op, s).failed \in {None, s.failed}
        /\ \A op \in Commands : Written(op, s).applied \in {None, s.applied}
  BY FailedSteps
<1>1. CASE UNCHANGED vars
  BY <1>1 DEF AppliedInv, Applicable, vars, records, loop, others
<1>2. CASE Heartbeat
  BY <1>2, <1>t, <1>f DEF Heartbeat, StartTick, Answer, SaveConfirmed, NoAnswer, Save, SaveRaises,
     AppliedInv, Applicable, records, loop, others
<1>3. CASE Rollback
  BY <1>3, <1>t, <1>f DEF Rollback, WriteBack, WriteBackFails, NothingToRestore,
     DropCopy, ReloadRestored, SaveRolledBack, Save, SaveRaises, AppliedInv, Applicable, records,
     loop, others
<1>4. CASE Push
  <2>1. CASE NoNetwork
    BY <2>1 DEF NoNetwork, AppliedInv, Applicable, records, loop, others
  <2>2. ASSUME NEW f \in Changes, Refuse(f) PROVE AppliedInv'
    BY <2>2, <1>t, <1>f DEF Refuse, AppliedInv, Applicable, loop, others
  <2>3. ASSUME NEW f \in Changes, AlreadyThere(f) PROVE AppliedInv'
    <3>1. /\ mem'.failed = mem.failed
          /\ mem'.applied = IF f \in Plans THEN f ELSE mem.applied
      <4>1. Asked(mem, f) \in [pending : Windows, applied : Plans \cup {None},
                               failed : Changes \cup {None}, static : Addresses \cup {None}]
        BY <1>t, RecordSteps DEF TypeInv, TypeOK, Records, NetAssumption
      <4> QED BY <2>3, <4>1, <1>t, <1>f DEF AlreadyThere
    <3> QED BY <2>3, <3>1 DEF AlreadyThere, AppliedInv, Applicable, loop, others
  <2>4. ASSUME NEW f \in Changes, KeepCopy(f) PROVE AppliedInv'
    BY <2>4 DEF KeepCopy, AppliedInv, Applicable, records, others
  <2>5. CASE Commit
    BY <2>5 DEF Commit, AppliedInv, Applicable, records, loop, others
  <2>6. CASE CommitFails
    BY <2>6, <1>t, <1>f DEF CommitFails, AppliedInv, Applicable, TypeInv, others
  <2>7. CASE Reload
    BY <2>7, <1>t, <1>f DEF Reload, AppliedInv, Applicable, TypeInv, others
  <2>8. CASE SaveApplied \/ EndResponse \/ EventAnswer
    BY <2>8 DEF SaveApplied, EndResponse, EventAnswer, Save, SaveRaises, AppliedInv, Applicable,
       records, loop, others
  <2> QED BY <1>4, <2>1, <2>2, <2>3, <2>4, <2>5, <2>6, <2>7, <2>8 DEF Push
<1>5. CASE Start \/ NothingToReapply \/ ReapplyStatic
  <2>1. CASE Start \/ NothingToReapply
    BY <2>1, <1>t, <1>f DEF Start, NothingToReapply, AppliedInv, Applicable, records,
       loop, others
  <2>2. CASE ReapplyStatic
    BY <2>2 DEF ReapplyStatic, Reapplied, AppliedInv, Applicable, records, others
  <2> QED BY <1>5, <2>1, <2>2
<1>6. CASE Crash \/ Reboot
  <2>1. pc' = "off" /\ Applicable(mem') /\ Applicable(disk')
    BY <1>6, <1>n, <1>t, <1>f DEF Crash, Reboot, GoDown, Forget, AppliedInv, Applicable
  <2>2. Applicable(sw'.copy)
    BY <1>6, <1>n DEF Crash, Reboot, AppliedInv, IdleProcess
  <2> QED BY <2>1, <2>2 DEF AppliedInv
<1>6d. CASE DieUnsaved
  BY <1>6d, <1>n DEF DieUnsaved, Forget, AppliedInv, Applicable, others
<1>7. CASE Command
  <2>1. ASSUME NEW op \in Commands, Run(op) PROVE AppliedInv'
    BY <2>1, <1>t, <1>f, <1>n DEF Run, Writes, AppliedInv, Applicable, Records, loop, others
  <2>2. ASSUME NEW op \in Commands, Load(op) PROVE AppliedInv'
    BY <2>2 DEF Load, AppliedInv, Applicable, records, loop
  <2>3. CASE Store
    <3>1. Applicable(Written(sw.op, sw.copy))
      BY <2>3, <1>t, <1>f, <1>n DEF Store, AppliedInv, Applicable, Records, TypeInv, TypeOK
    <3> QED
      BY <2>3, <3>1, <1>n DEF Store, Writes, AppliedInv, Applicable, IdleProcess, loop
  <2> QED BY <1>7, <2>1, <2>2, <2>3 DEF Command
<1>8. CASE Clock
  <2>1. sw'.copy = Older(sw.copy)
    BY <1>8 DEF Clock, TypeInv, TypeOK
  <2> QED BY <1>8, <2>1, <1>t, <1>f DEF Clock, AppliedInv, Applicable, loop
<1> QED BY <1>1, <1>2, <1>3, <1>4, <1>5, <1>6, <1>6d, <1>7, <1>8 DEF Next, Daemon

\* Whatever crashes, interleaves or is pushed, the plan on record as applied is
\* not the one on record as failed: no assumption beyond the constants' own.
THEOREM NeverBoth == Spec => []AppliedNeverFailed
<1>1. Init => AppliedInv
  BY DEF Init, AppliedInv, Applicable, NoRecord, IdleProcess
<1>2. TypeInv /\ AppliedInv /\ [Next]_vars => AppliedInv'
  BY NetAssumption, AppliedStep
<1>3. AppliedInv => AppliedNeverFailed
  BY DEF AppliedInv, Applicable, AppliedNeverFailed
<1> QED BY InitTypes, TypeStep, <1>1, <1>2, <1>3, PTL DEF Spec

-----------------------------------------------------------------------------
\* One step keeps the change rolled back last on record.
LEMMA RefusalStep ==
  ASSUME NetAssumption, RollbacksRecorded, TypeInv, RefusalInv, [Next]_vars
  PROVE  RefusalInv'
<1>t. disk \in Records /\ mem \in Records
  BY DEF TypeInv, TypeOK
<1>f. \A s \in Records :
        /\ Older(s).failed = s.failed /\ Older(s).pending.fp = s.pending.fp
        /\ Rebooted(s).failed = s.failed /\ FreshWindow(s).failed = s.failed
        /\ Confirmed(s).failed = s.failed /\ RolledBack(s).failed = s.pending.fp
        /\ \A f \in Changes : Asked(s, f).failed = s.failed /\ Opened(s, f).failed = s.failed
        /\ Written("touch", s) = s
  BY FailedSteps
<1>s. Settled /\ Settled'
  BY SettledStep DEF RefusalInv, Settled, RollbacksRecorded
<1>a. amiss => amiss'
  BY AmissStays
<1> USE <1>a, <1>s DEF RefusalInv, Remembered, Settled
<1>1. CASE UNCHANGED vars
  BY <1>1 DEF vars, records, loop, others, history
<1>2. CASE Heartbeat
  <2>1. CASE StartTick \/ SaveConfirmed \/ NoAnswer
    BY <2>1 DEF StartTick, SaveConfirmed, NoAnswer, Save, SaveRaises, records, loop,
       others, history
  <2>2. CASE Answer
    BY <2>2, <1>t, <1>f DEF Answer, loop, others
  <2> QED BY <1>2, <2>1, <2>2 DEF Heartbeat
<1>3. CASE Rollback
  <2>1. CASE WriteBack
    BY <2>1 DEF WriteBack, records, loop, others
  <2>2. CASE WriteBackFails \/ NothingToRestore
    BY <2>2 DEF WriteBackFails, NothingToRestore, Save, SaveRaises, records, loop, others, history
  <2>3. CASE DropCopy
    BY <2>3 DEF DropCopy, records, loop, others, history
  <2>4. CASE ReloadRestored
    BY <2>4, <1>t, <1>f DEF ReloadRestored, loop, others, history
  <2>5. CASE SaveRolledBack
    BY <2>5 DEF SaveRolledBack, Save, SaveRaises, loop, others, history
  <2> QED BY <1>3, <2>1, <2>2, <2>3, <2>4, <2>5 DEF Rollback
<1>4. CASE Push
  <2>1. CASE NoNetwork
    BY <2>1 DEF NoNetwork, records, loop, others, history
  <2>2. ASSUME NEW f \in Changes, Refuse(f) PROVE RefusalInv'
    BY <2>2, <1>t, <1>f DEF Refuse, loop, others, history
  <2>3. ASSUME NEW f \in Changes, AlreadyThere(f) PROVE RefusalInv'
    <3>1. Asked(mem, f) \in [pending : Windows, applied : Plans \cup {None},
                             failed : Changes \cup {None}, static : Addresses \cup {None}]
      BY <1>t, RecordSteps DEF TypeInv, TypeOK, Records, NetAssumption
    <3>2. mem'.failed = mem.failed
      BY <2>3, <3>1, <1>t, <1>f DEF AlreadyThere
    <3> QED BY <2>3, <3>2 DEF AlreadyThere, loop, others, history
  <2>4. ASSUME NEW f \in Changes, KeepCopy(f) PROVE RefusalInv'
    BY <2>4 DEF KeepCopy, records, others, history
  <2>5. CASE Commit
    BY <2>5 DEF Commit, records, loop, others, history
  <2>6. CASE CommitFails
    BY <2>6, <1>t, <1>f DEF CommitFails, TypeInv, others, history
  <2>7. CASE Reload
    BY <2>7, <1>t, <1>f DEF Reload, TypeInv, others, history
  <2>8. CASE SaveApplied \/ EndResponse \/ EventAnswer
    BY <2>8 DEF SaveApplied, EndResponse, EventAnswer, Save, SaveRaises, records, loop,
       others, history
  <2> QED BY <1>4, <2>1, <2>2, <2>3, <2>4, <2>5, <2>6, <2>7, <2>8 DEF Push
<1>5. CASE Start \/ NothingToReapply
  BY <1>5, <1>t, <1>f DEF Start, NothingToReapply, records, loop, others,
     history
<1>6. CASE ReapplyStatic
  BY <1>6 DEF ReapplyStatic, Reapplied, records, others, history
<1>6d. CASE DieUnsaved
  BY <1>6d DEF DieUnsaved, Forget
<1>7. CASE Crash
  BY <1>7 DEF Crash, GoDown, Forget, RollbacksRecorded, history
<1>8. CASE Reboot
  BY <1>8, <1>t, <1>f DEF Reboot, GoDown, Forget, RollbacksRecorded, history
<1>9. CASE Command
  <2>1. ASSUME NEW op \in Commands, Run(op) PROVE RefusalInv'
    BY <2>1, <1>t, <1>f DEF Run, Writes, loop, others
  <2>2. CASE (\E op \in Commands : Load(op)) \/ Store
    BY <2>2, <1>s, NothingBetween DEF RollbacksRecorded
  <2> QED BY <1>9, <2>1, <2>2 DEF Command
<1>10. CASE Clock
  BY <1>10, <1>t, <1>f DEF Clock, loop, history
<1> QED BY <1>1, <1>2, <1>3, <1>4, <1>5, <1>6, <1>6d, <1>7, <1>8, <1>9, <1>10 DEF Next, Daemon

\* A change that lost the controller is not committed again before somebody
\* forgives it, for any number of plans, restarts, commands and raising saves that a
\* later one makes good -- netmodel remembers the last loser, and converge and
\* apply_addressing ask it first.
THEOREM LoserStaysOut ==
  ASSUME RollbacksRecorded
  PROVE  Spec => NoSecondTry
<1>1. Init => RefusalInv
  BY DEF Init, RefusalInv, Remembered
<1>2. TypeInv /\ RefusalInv /\ [Next]_vars => RefusalInv'
  BY NetAssumption, RollbacksRecorded, RefusalStep
<1>3. TypeInv /\ RefusalInv /\ [Next]_vars => [Commit /\ ~amiss => target # lost]_vars
  BY NetAssumption DEF NetAssumption, Nets, TypeInv, RefusalInv, Remembered, Commit
<1> QED BY InitTypes, TypeStep, <1>1, <1>2, <1>3, PTL DEF Spec, NoSecondTry

-----------------------------------------------------------------------------
\* Seen through the mapping, one step of the safety net is a trial, an answer,
\* a way back, or nothing.
OnTrial == IF pc = "off" THEN Open(disk) ELSE Open(mem)

LEMMA TrialStep ==
  ASSUME NetAssumption, Careful, TypeInv, CoverInv, [Next]_vars
  PROVE  [Trial!Next]_(Trial!vars)
<1>t. disk \in Records /\ mem \in Records /\ netfile \in Nets /\ live \in Nets
      /\ proven \subseteq Nets /\ pristine \in Nets \cup {None}
  BY DEF TypeInv, TypeOK
<1>n. None \notin Nets /\ None \notin proven
  BY <1>t DEF NetAssumption
<1>b. \A s \in {disk, mem} : Open(s) \in BOOLEAN
  BY DEF Open
<1>o. \A s \in {disk, mem} :
        /\ Open(Older(s)) <=> Open(s)
        /\ Open(Rebooted(s)) <=> Open(s)
        /\ Open(FreshWindow(s)) <=> Open(s)
        /\ \A f \in Changes : Open(Opened(s, f)) /\ (Open(Asked(s, f)) <=> Open(s))
  BY <1>t, OpenSteps
<1>lost. CASE amiss'
  <2>1. live' \in Nets /\ proven' \subseteq Nets
    BY TypeStep DEF TypeInv, TypeOK
  <2>2. OnTrial' \in BOOLEAN
    BY DEF OnTrial, Open
  <2>3. amiss' = TRUE
    BY <1>lost, TypeStep DEF TypeInv, TypeOK
  <2> QED BY <2>1, <2>2, <2>3 DEF Trial!Next, Trial!Lose, OnTrial
<1> SUFFICES ASSUME ~amiss'
             PROVE  [Trial!Next]_(Trial!vars)
  BY <1>lost
<1>k. ~amiss /\ amiss' = amiss
  BY AmissStays, TypeStep DEF TypeInv, TypeOK
<1>c. Covered /\ Covered' /\ Settled /\ Settled'
  BY <1>k, CoverStep DEF CoverInv, Settled
<1>stay. ASSUME live' = live, proven' = proven, OnTrial' = OnTrial
         PROVE  UNCHANGED Trial!vars
  BY <1>k, <1>stay DEF Trial!vars, OnTrial
<1>try. ASSUME live \in proven, live' \in Nets, OnTrial', proven' = proven
        PROVE  Trial!Try
  BY <1>k, <1>try DEF Trial!Try, OnTrial, Open
<1>answer. ASSUME proven' = proven \cup {live}, live' = live,
                  OnTrial' = OnTrial \/ OnTrial' = FALSE
           PROVE  Trial!Answer
  BY <1>k, <1>answer DEF Trial!Answer, OnTrial
<1>back. ASSUME live' \in proven, proven' = proven,
                OnTrial' = OnTrial \/ OnTrial' = FALSE
         PROVE  Trial!Back
  BY <1>k, <1>back DEF Trial!Back, OnTrial
<1>free. ASSUME live \in proven, live' \in proven, proven' = proven
         PROVE  Trial!Next
  <2>1. OnTrial' \/ OnTrial' = FALSE
    BY DEF OnTrial, Open
  <2>2. CASE OnTrial'
    BY <1>free, <1>t, <2>2, <1>try DEF Trial!Next
  <2>3. CASE OnTrial' = FALSE
    BY <1>free, <2>3, <1>back DEF Trial!Next
  <2> QED BY <2>1, <2>2, <2>3
<1>same. ASSUME live' = live, proven' = proven,
                pc \notin {"committed", "dropped"}, pc' \notin {"committed", "dropped"}
         PROVE  [Trial!Next]_(Trial!vars)
  <2>1. CASE live \in proven
    BY <1>same, <2>1, <1>free
  <2>2. CASE live \notin proven
    <3>1. OnTrial /\ OnTrial'
      BY <1>same, <2>2, <1>c DEF Covered, Settled, OnTrial
    <3>2. OnTrial' = OnTrial
      BY <3>1 DEF OnTrial, Open
    <3> QED BY <1>same, <3>2, <1>stay
  <2> QED BY <2>1, <2>2
<1>1. CASE UNCHANGED vars
  BY <1>1, <1>stay DEF vars, files, records, history, OnTrial, Open
<1>2. CASE StartTick \/ SaveConfirmed \/ NoAnswer
  <2>1. live' = live /\ proven' = proven /\ pc \notin {"committed", "dropped"}
        /\ pc' \notin {"committed", "dropped"}
    BY <1>2 DEF StartTick, SaveConfirmed, NoAnswer, files, history
  <2> QED BY <2>1, <1>same
<1>3. CASE Answer
  <2>1. OnTrial' = OnTrial \/ OnTrial' = FALSE
    BY <1>3, <1>t DEF Answer, OnTrial, Open, Confirmed, NoWindow, Records, Windows
  <2> QED BY <1>3, <2>1, <1>answer DEF Answer, Trial!Next
<1>4. CASE WriteBack \/ WriteBackFails
  <2>1. live' = live /\ proven' = proven /\ OnTrial' = OnTrial
    BY <1>4 DEF WriteBack, WriteBackFails, Save, SaveRaises, files, records, history, OnTrial
  <2> QED BY <2>1, <1>stay
<1>5. CASE NothingToRestore
  <2>1. live' = live /\ live \in proven /\ proven' = proven
    BY <1>5, <1>c DEF NothingToRestore, Covered, files
  <2> QED BY <2>1, <1>free
<1>6. CASE DropCopy \/ ReloadRestored \/ SaveRolledBack
  <2>1. CASE DropCopy
    BY <2>1, <1>stay DEF DropCopy, records, history, OnTrial
  <2>2. CASE ReloadRestored
    <3>1. live' \in proven /\ proven' = proven
      BY <2>2, <1>c DEF ReloadRestored, Covered, history
    <3>2. OnTrial' = FALSE
      BY <2>2, <1>t DEF ReloadRestored, OnTrial, Open, RolledBack, NoWindow, Records
    <3> QED BY <3>1, <3>2, <1>back DEF Trial!Next
  <2>3. CASE SaveRolledBack
    BY <2>3, <1>stay DEF SaveRolledBack, Save, SaveRaises, files, history, OnTrial
  <2> QED BY <1>6, <2>1, <2>2, <2>3
<1>7. CASE Push
  <2>1. CASE Reload
    <3>1. live \in proven /\ live' \in Nets /\ proven' = proven
      BY <2>1, <1>t, <1>c DEF Reload, Covered, history
    <3>2. OnTrial'
      BY <2>1, <1>o DEF Reload, OnTrial, TypeInv
    <3> QED BY <3>1, <3>2, <1>try DEF Trial!Next
  <2>2. CASE EventAnswer
    <3>1. live' = live /\ proven' = proven \cup {live} /\ OnTrial' = OnTrial
      BY <2>2 DEF EventAnswer, Save, SaveRaises, files, records, OnTrial
    <3> QED BY <3>1, <1>answer DEF Trial!Next
  <2>3. CASE Commit
    BY <2>3, <1>stay DEF Commit, records, history, OnTrial
  <2>4. CASE CommitFails
    <3>1. live' = live /\ live \in proven /\ proven' = proven
      BY <2>4, <1>c DEF CommitFails, Covered, history
    <3> QED BY <3>1, <1>free
  <2>5. CASE NoNetwork \/ SaveApplied \/ EndResponse
             \/ \E f \in Changes : Refuse(f) \/ AlreadyThere(f) \/ KeepCopy(f)
    <3>1. live' = live /\ proven' = proven /\ pc \notin {"committed", "dropped"}
          /\ pc' \notin {"committed", "dropped"}
      BY <2>5 DEF NoNetwork, SaveApplied, EndResponse, Refuse, AlreadyThere, KeepCopy,
         files, history
    <3> QED BY <3>1, <1>same
  <2> QED BY <1>7, <2>1, <2>2, <2>3, <2>4, <2>5 DEF Push
<1>8. CASE Start \/ NothingToReapply \/ ReapplyStatic \/ Crash
  <2>1. live' = live /\ proven' = proven /\ pc \notin {"committed", "dropped"}
        /\ pc' \notin {"committed", "dropped"}
    BY <1>8 DEF Start, NothingToReapply, ReapplyStatic, Crash, GoDown, Forget, Careful, InHand,
       files, history
  <2> QED BY <2>1, <1>same
<1>8d. CASE DieUnsaved
  BY <1>8d DEF DieUnsaved, Forget
<1>9. CASE Reboot
  <2>1. pc \notin InHand /\ pc' = "off" /\ live' = netfile /\ proven' = proven
    BY <1>9 DEF Reboot, GoDown, Forget, Careful, history
  <2>2. live' = live /\ pc \notin {"committed", "dropped"}
        /\ pc' \notin {"committed", "dropped"}
    BY <2>1, <1>c DEF Covered, InHand
  <2> QED BY <2>1, <2>2, <1>same
<1>10. CASE Command
  <2>1. PICK op \in Commands : Run(op)
    BY <1>10, <1>c DEF Command, Load, Store, Careful, Settled, IdleProcess
  <2>2. proven' = proven /\ pc' = pc /\ mem' = mem
    BY <2>1 DEF Run
  <2>3. CASE op = "restore"
    <3>1. live' \in proven
      BY <2>1, <2>3, <1>n, <1>c DEF Run, Restores, Covered
    <3>2. OnTrial' = OnTrial \/ OnTrial' = FALSE
      BY <2>1, <2>2, <2>3 DEF Run, Writes, Written, NoRecord, NoWindow, OnTrial, Open
    <3> QED BY <3>1, <3>2, <2>2, <1>back DEF Trial!Next
  <2>4. CASE op \in {"touch", "retry"}
    <3>1. live' = live
      BY <2>1, <2>4 DEF Run, Restores
    <3>2. OnTrial' = OnTrial
      BY <2>1, <2>2, <2>4, <1>t DEF Run, Writes, Written, OnTrial, Open, Records
    <3> QED BY <3>1, <3>2, <2>2, <1>stay
  <2> QED BY <2>1, <2>3, <2>4 DEF Run, Runs, Careful, Commands
<1>11. CASE Clock
  <2>1. live' = live /\ proven' = proven /\ pc' = pc
    BY <1>11 DEF Clock, files, history
  <2>2. OnTrial' = OnTrial
    BY <1>11, <2>1, <1>o DEF Clock, OnTrial, Open
  <2> QED BY <2>1, <2>2, <1>stay
<1> QED
  BY <1>1, <1>2, <1>3, <1>4, <1>5, <1>6, <1>7, <1>8, <1>8d, <1>9, <1>10, <1>11
  DEF Next, Daemon, Heartbeat, Rollback

\* The files, records, saves and restarts of the safety net implement
\* TrialNetwork, for every set of plans and every bound: a save that raises leaves the
\* trial as it is, and what voids the promise is the record or copy lost for good.
THEOREM ImplementsTrial ==
  ASSUME Careful
  PROVE  Spec => Trial!Spec
<1>1. Init => TypeInv /\ CoverInv /\ Trial!Init
  BY InitTypes DEF Init, CoverInv, Covered, IdleProcess, Trial!Init, Open, NoRecord, NoWindow
<1>2. TypeInv /\ CoverInv /\ [Next]_vars => TypeInv' /\ CoverInv'
  BY NetAssumption, Careful, TypeStep, CoverStep
<1>3. TypeInv /\ CoverInv /\ [Next]_vars => [Trial!Next]_(Trial!vars)
  BY NetAssumption, Careful, TrialStep
<1> QED BY <1>1, <1>2, <1>3, PTL DEF Spec, Trial!Spec

-----------------------------------------------------------------------------
(***************************************************************************)
(* What a confirmation speaks for.                                           *)
(***************************************************************************)
\* A window names the network it was opened for as long as nothing but the daemon
\* changes the network, and no rollback is forgotten before it is recorded.
WindowsKept == Careful /\ RollbacksRecorded /\ "restore" \notin Ops

\* An open window is about the running network, or about one answered over before.
Speaks(s) == Open(s) => s.pending.fp \in proven \cup {live}

\* What is committed is what is asked for, and a rolled-back change stays on record
\* until a save works and no longer.
Confirmable ==
  /\ Speaks(mem) /\ (pc # "reverted" /\ ~owed => Speaks(disk))
  /\ pc = "committed" => netfile = target

ConfirmInv == ~amiss => Confirmable

\* What the steps of a record do to the change its window names.
LEMMA WindowSteps ==
  ASSUME NetAssumption, NEW s \in Records
  PROVE  /\ Older(s).pending.fp = s.pending.fp /\ Rebooted(s).pending.fp = s.pending.fp
         /\ FreshWindow(s).pending.fp = s.pending.fp
         /\ Confirmed(s).pending.fp = None /\ RolledBack(s).pending.fp = None
         /\ NoRecord.pending.fp = None
         /\ \A f \in Changes :
              Opened(s, f).pending.fp = f /\ Asked(s, f).pending.fp = s.pending.fp
         /\ \A op \in {"touch", "retry"} : Written(op, s).pending.fp = s.pending.fp
<1>1. Older(s).pending.fp = s.pending.fp /\ Rebooted(s).pending.fp = s.pending.fp
  BY DEF Older, Rebooted, Records, Windows
<1>2. FreshWindow(s).pending.fp = s.pending.fp
  BY DEF FreshWindow, Records, Windows
<1>3. Confirmed(s).pending.fp = None /\ RolledBack(s).pending.fp = None /\ NoRecord.pending.fp = None
  BY DEF Confirmed, RolledBack, NoRecord, NoWindow, Records
<1>4. ASSUME NEW f \in Changes
      PROVE  Opened(s, f).pending.fp = f /\ Asked(s, f).pending.fp = s.pending.fp
  <2>1. Asked(s, f) \in [pending : Windows, applied : Plans \cup {None},
                          failed : Changes \cup {None}, static : {None, f}]
        /\ Asked(s, f).pending = s.pending
    BY DEF Asked, Records
  <2>2. Opened(s, f).pending = [fp |-> f, age |-> 0]
    BY <2>1 DEF Opened
  <2> QED BY <2>1, <2>2
<1>5. ASSUME NEW op \in {"touch", "retry"}
      PROVE  Written(op, s).pending.fp = s.pending.fp
  BY DEF Written, Records
<1> QED BY <1>1, <1>2, <1>3, <1>4, <1>5

LEMMA ConfirmStep ==
  ASSUME NetAssumption, WindowsKept, TypeInv, CoverInv, ConfirmInv, [Next]_vars
  PROVE  ConfirmInv'
<1>s. Settled
  BY DEF CoverInv, Settled
<1> SUFFICES ASSUME ~amiss' PROVE Confirmable'
  BY DEF ConfirmInv
<1>c. ~amiss /\ Confirmable /\ Covered
  BY AmissStays DEF ConfirmInv, CoverInv
<1> USE <1>c DEF Confirmable, Speaks, Open
<1>t. disk \in Records /\ mem \in Records
  BY DEF TypeInv, TypeOK
<1>w. \A s \in {disk, mem} :
        /\ Older(s).pending.fp = s.pending.fp /\ Rebooted(s).pending.fp = s.pending.fp
        /\ FreshWindow(s).pending.fp = s.pending.fp
        /\ Confirmed(s).pending.fp = None /\ RolledBack(s).pending.fp = None
        /\ NoRecord.pending.fp = None
        /\ \A f \in Changes :
             Opened(s, f).pending.fp = f /\ Asked(s, f).pending.fp = s.pending.fp
        /\ \A op \in {"touch", "retry"} : Written(op, s).pending.fp = s.pending.fp
  BY <1>t, WindowSteps
<1>1. CASE UNCHANGED vars
  BY <1>1 DEF vars, files, records, loop, history
<1>2. CASE Heartbeat
  BY <1>2, <1>w DEF Heartbeat, StartTick, Answer, SaveConfirmed, NoAnswer, Save, SaveRaises,
                    files, records, loop, history
<1>3. CASE Rollback
  <2>1. CASE WriteBack \/ WriteBackFails \/ NothingToRestore \/ DropCopy
    BY <2>1, <1>w DEF WriteBack, WriteBackFails, NothingToRestore, DropCopy, Save, SaveRaises,
                      files, records, loop, history
  <2>2. CASE ReloadRestored \/ SaveRolledBack
    BY <2>2, <1>w DEF ReloadRestored, SaveRolledBack, Save, SaveRaises, files, history
  <2> QED BY <1>3, <2>1, <2>2 DEF Rollback
<1>4. CASE Push
  <2>1. CASE NoNetwork \/ Commit \/ SaveApplied \/ EndResponse \/ EventAnswer
    BY <2>1 DEF NoNetwork, Commit, SaveApplied, EndResponse, EventAnswer, Save, SaveRaises,
                files, records, loop, history
  <2>2. CASE \E f \in Changes : Refuse(f) \/ KeepCopy(f)
    BY <2>2, <1>w DEF Refuse, KeepCopy, records, history
  <2>3. CASE \E f \in Changes : AlreadyThere(f)
    <3>1. PICK f \in Changes : AlreadyThere(f)
      BY <2>3
    <3>2. Asked(mem, f) \in Records
      <4>1. uptime \in Int
        BY DEF TypeInv, TypeOK
      <4> QED BY <1>t, <4>1, RecordSteps
    <3>3. mem'.pending.fp = mem.pending.fp
      BY <3>1, <3>2, <1>w DEF AlreadyThere, Records
    <3> QED BY <3>1, <3>3 DEF AlreadyThere, files, loop, history
  <2>4. CASE CommitFails
    BY <2>4, <1>w DEF CommitFails, TypeInv, history
  <2>5. CASE Reload
    <3>1. live \in proven /\ target \in Changes /\ netfile = target
      BY <2>5 DEF Reload, Covered, TypeInv
    <3> QED BY <2>5, <3>1, <1>w DEF Reload, history
  <2> QED BY <1>4, <2>1, <2>2, <2>3, <2>4, <2>5 DEF Push
<1>5. CASE Start \/ NothingToReapply \/ ReapplyStatic
  BY <1>5, <1>w, <1>s DEF Settled, Start, NothingToReapply, ReapplyStatic, files, records, loop, history
<1>5d. CASE DieUnsaved
  BY <1>5d DEF DieUnsaved, Forget
<1>6. CASE Crash
  BY <1>6, <1>w DEF Crash, GoDown, Forget, WindowsKept, RollbacksRecorded, files, history
<1>7. CASE Reboot
  BY <1>7, <1>w DEF Reboot, GoDown, Forget, WindowsKept, RollbacksRecorded, Careful, InHand, Covered, history
<1>8. CASE Command
  <2>1. CASE \E op \in Commands : Run(op)
    <3>1. PICK op \in Commands : Run(op)
      BY <2>1
    <3>2. op \in {"touch", "retry"}
      BY <3>1 DEF Run, Runs, WindowsKept, Careful, Commands
    <3> QED BY <3>1, <3>2, <1>w DEF Run, Restores, Writes, loop
  <2>2. CASE (\E op \in Commands : Load(op)) \/ Store
    BY <2>2, <1>s, NothingBetween DEF WindowsKept, Careful
  <2> QED BY <1>8, <2>1, <2>2 DEF Command
<1>9. CASE Clock
  BY <1>9, <1>w DEF Clock, files, loop, history
<1> QED BY <1>1, <1>2, <1>3, <1>4, <1>5, <1>5d, <1>6, <1>7, <1>8, <1>9 DEF Next, Daemon

\* A window is closed as confirmed only after an answer over the network it names,
\* whatever windows, event informs and raising saves came before: the stale window a
\* raising save leaves on disk is not read before the daemon forgets.
THEOREM ConfirmationIsEarned ==
  ASSUME WindowsKept
  PROVE  Spec => ConfirmsWhatAnswered
<1>1. Init => TypeInv /\ CoverInv /\ ConfirmInv
  <2>1. Init => ConfirmInv
    BY DEF Init, ConfirmInv, Confirmable, Speaks, Open, NoRecord, NoWindow
  <2> QED BY <2>1, InitTypes DEF Init, CoverInv, Covered, IdleProcess
<1>2. TypeInv /\ CoverInv /\ ConfirmInv /\ [Next]_vars => TypeInv' /\ CoverInv' /\ ConfirmInv'
  BY NetAssumption, WindowsKept, TypeStep, CoverStep, ConfirmStep DEF WindowsKept
<1>3. ConfirmInv => [Answer /\ Open(mem) /\ ~amiss => mem.pending.fp \in proven']_vars
  BY DEF ConfirmInv, Confirmable, Speaks, Answer
<1> QED BY <1>1, <1>2, <1>3, PTL DEF Spec, ConfirmsWhatAnswered
=============================================================================
