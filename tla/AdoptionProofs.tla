--------------------------- MODULE AdoptionProofs ---------------------------
(* What holds of adoption for every set of keys and URLs and all bounds: the    *)
(* account, the URL of a forgotten device, what a heartbeat starts from, and     *)
(* what a reset leaves.  A theorem names in its assumption the steps at which no *)
(* command or crash may fall: those lose the property (README, section 6).      *)
EXTENDS Adoption, Integers, TLAPS

Phases == { "unknown", "pending", "adopting", "adopted", "forgetting" }
Programs == { "install", "daemon", "hook" }

TypeOK ==
  /\ disk \in Texts /\ mem \in Fields /\ wish \in Fields
  /\ written = None \/ (written \in Texts /\ written.by = "daemon")
  /\ pc \in Steps \cup {"off"}
  /\ keep \in URLs \cup {None} /\ (pc = "resetting" => keep \in URLs)
  /\ home \in URLs \cup {None}
  /\ ctl \in [phase : Phases, key : Keys \cup {DefaultKey}]
  /\ wlans \in BOOLEAN /\ locked \in BOOLEAN

\* state.load gives an unadopted device the default key.
Clean(s) == s.adopted \/ s.key = DefaultKey

-----------------------------------------------------------------------------
(***************************************************************************)
(* The operators on records.                                                *)
(***************************************************************************)
LEMMA DefaultsType == Defaults \in Fields /\ Defaults.adopted = FALSE /\ Clean(Defaults)
BY AdoptionAssumption DEF AdoptionAssumption, Defaults, Fields, Clean

LEMMA TextType ==
  ASSUME NEW s \in Fields, NEW p \in Programs
  PROVE  Text(s, p) \in Texts /\ Text(s, p).fields = s /\ Text(s, p).by = p
BY DEF Text, Texts, Programs

\* Loading changes a text's key at most, and that only while it is not adopted.
LEMMA LoadedType ==
  ASSUME NEW t \in Texts
  PROVE  /\ Loaded(t) \in Fields /\ Clean(Loaded(t))
         /\ Loaded(t).adopted = t.fields.adopted /\ Loaded(t).url = t.fields.url
         /\ Clean(t.fields) => Loaded(t) = t.fields
<1>1. t.fields \in Fields
  BY DEF Texts
<1>2. CASE t.fields.adopted
  BY <1>1, <1>2 DEF Loaded, Clean
<1>3. CASE ~t.fields.adopted
  BY <1>1, <1>3 DEF Loaded, Clean, Fields
<1> QED BY <1>2, <1>3

LEMMA AdoptedType ==
  ASSUME NEW s \in Fields, NEW k \in Keys \cup {DefaultKey}, NEW u \in URLs
  PROVE  LET a == Told(Adopted(s, k), u)
         IN  a \in Fields /\ a.adopted /\ a.url = u
BY DEF Fields, Adopted, Told

LEMMA UrlType ==
  ASSUME NEW s \in Fields, NEW u \in URLs
  PROVE  LET t == [s EXCEPT !.url = u]
         IN  t \in Fields /\ t.url = u /\ t.adopted = s.adopted /\ (Clean(s) => Clean(t))
BY DEF Fields, Clean

LEMMA ConfigType ==
  ASSUME NEW s \in Fields, NEW c \in 0..MaxPushes, NEW u \in URLs
  PROVE  LET t == Told([s EXCEPT !.cfg = c], u)
         IN  t \in Fields /\ t.url = u /\ t.adopted = s.adopted /\ (Clean(s) => Clean(t))
BY DEF Fields, Told, Clean

LEMMA WrittenType ==
  ASSUME NEW op \in Commands, NEW s \in Fields, NEW k \in Keys \cup {DefaultKey}, NEW u \in URLs
  PROVE  /\ Written(op, s, k, u) \in Fields
         /\ Clean(s) => Clean(Written(op, s, k, u))
         /\ op # "reset-inform" /\ s.adopted => Written(op, s, k, u).adopted
         /\ op = "other" => Written(op, s, k, u) = s
<1>1. CASE op = "set-adopt"
  BY <1>1 DEF Written, Adopted, Fields, Clean
<1>2. CASE op = "set-inform"
  BY <1>2 DEF Written, Fields, Clean
<1>3. CASE op = "reset-inform"
  <2>1. Written(op, s, k, u) = [Defaults EXCEPT !.url = BuiltinURL]
    BY <1>3 DEF Written
  <2>2. BuiltinURL \in URLs
    BY AdoptionAssumption DEF AdoptionAssumption
  <2> QED BY <1>3, <2>1, <2>2, DefaultsType, UrlType
<1>4. CASE op = "other"
  BY <1>4 DEF Written
<1> QED BY <1>1, <1>2, <1>3, <1>4 DEF Commands

\* What a command does, whichever it is: it runs at a step that allows it, and
\* leaves the daemon alone.
LEMMA CommandStep ==
  ASSUME TypeOK, External
  PROVE  /\ pc \in CommandAt
         /\ UNCHANGED <<daemon, device, controller, restarts>>
         /\ \E op \in Ops, k \in Keys \cup {DefaultKey}, u \in URLs :
              /\ op = "set-adopt" => ctl.phase = "adopting"
              /\ disk' = Text(Written(op, Loaded(disk), k, u), "hook")
              /\ wish' = Written(op, wish, k, u)
              /\ home' = IF op = "other" THEN home ELSE None
<1>0. mem.key \in Keys \cup {DefaultKey} /\ mem.url \in URLs /\ ctl.key \in Keys \cup {DefaultKey}
      /\ Here \subseteq URLs
  BY AdoptionAssumption DEF AdoptionAssumption, TypeOK, Fields
<1>1. CASE SetAdopt
  BY <1>0, <1>1 DEF SetAdopt, Command
<1>2. CASE SetInform
  BY <1>0, <1>2 DEF SetInform, Command
<1>3. CASE ResetInform
  BY <1>0, <1>3 DEF ResetInform, Command
<1>4. CASE OtherCommand
  BY <1>0, <1>4 DEF OtherCommand, Command
<1> QED BY <1>1, <1>2, <1>3, <1>4 DEF External

-----------------------------------------------------------------------------
(***************************************************************************)
(* The types, and which table the daemon works on.                           *)
(***************************************************************************)
LEMMA TypeStep == TypeOK /\ [Next]_vars => TypeOK'
<1> SUFFICES ASSUME TypeOK, [Next]_vars PROVE TypeOK'
  OBVIOUS
<1> USE DEF TypeOK, Steps
<1>0. Here \subseteq URLs
  BY AdoptionAssumption DEF AdoptionAssumption
<1>a. ASSUME NEW s \in Fields, Save(s)
      PROVE  disk' \in Texts /\ written' \in Texts /\ written'.by = "daemon"
  BY <1>a, TextType DEF Save, Programs
<1>1. CASE UNCHANGED vars \/ NothingNew \/ EventInform \/ NoAnswer \/ SaveRaises \/ ForgetController
  BY <1>1 DEF vars, daemon, device, controller, bounds, history,
              NothingNew, EventInform, NoAnswer, SaveRaises, ForgetController
<1>2. CASE ReloadIfChanged \/ Start \/ Started
  BY <1>2, LoadedType DEF ReloadIfChanged, Start, Started, device, controller, history, Fields
<1>3. CASE Pending \/ Adopt \/ Rotate \/ Forget
  BY <1>3 DEF Pending, Adopt, Rotate, Forget, Issue, Phases, daemon, device, history
<1>4. CASE OwnSave \/ SaveHandled
  BY <1>4, <1>a DEF OwnSave, SaveHandled, device, controller, history
<1>5. CASE TakeKey
  <2>1. PICK u \in Here : /\ mem' = Told(Adopted(mem, ctl.key), u)
                          /\ wish' = Told(Adopted(wish, ctl.key), u)
                          /\ home' = IF u = mem.url THEN home ELSE None
    BY <1>5 DEF TakeKey
  <2>2. mem' \in Fields /\ wish' \in Fields /\ home' \in URLs \cup {None}
    BY <1>0, <2>1, AdoptedType
  <2> QED BY <1>5, <2>2 DEF TakeKey, device, controller
<1>6. CASE TakeConfig
  <2>1. PICK u \in Here : /\ mem' = Told([mem EXCEPT !.cfg = @ + 1], u)
                          /\ wish' = Told([wish EXCEPT !.cfg = mem'.cfg], u)
                          /\ home' = IF u = mem.url THEN home ELSE None
    BY <1>6 DEF TakeConfig
  <2>2. mem.cfg + 1 \in 0..MaxPushes
    BY <1>6, AdoptionAssumption DEF TakeConfig, Fields, AdoptionAssumption
  <2>3. mem' \in Fields
    BY <1>0, <2>1, <2>2, ConfigType
  <2>4. wish' \in Fields
    BY <1>0, <2>1, <2>3, ConfigType DEF Fields
  <2>5. ctl' \in [phase : Phases, key : Keys \cup {DefaultKey}]
    BY <1>6 DEF TakeConfig, Phases
  <2> QED BY <1>6, <1>0, <2>1, <2>3, <2>4, <2>5 DEF TakeConfig
<1>7. CASE ResetState
  <2>1. mem.url \in URLs
    BY DEF Fields
  <2>2. mem' \in Fields /\ wish' \in Fields
    BY <1>7, <2>1, DefaultsType, UrlType DEF ResetState
  <2>3. ctl' \in [phase : Phases, key : Keys \cup {DefaultKey}]
    BY <1>7 DEF ResetState, Phases
  <2> QED BY <1>7, <1>a, <2>1, <2>2, <2>3, DefaultsType DEF ResetState
<1>8. CASE KeepURL
  <2>1. mem' \in Fields
    BY <1>8, UrlType DEF KeepURL
  <2> QED BY <1>8, <1>a, <2>1 DEF KeepURL, device, controller, history
<1>9. CASE Crash
  BY <1>9, DefaultsType, LoadedType DEF Crash, device, controller
<1>10. CASE External
  <2>1. PICK op \in Ops, k \in Keys \cup {DefaultKey}, u \in URLs :
          /\ disk' = Text(Written(op, Loaded(disk), k, u), "hook")
          /\ wish' = Written(op, wish, k, u)
          /\ home' = IF op = "other" THEN home ELSE None
    BY <1>10, CommandStep
  <2>2. op \in Commands /\ "hook" \in Programs
    BY AdoptionAssumption DEF AdoptionAssumption, Programs
  <2>3. disk' \in Texts /\ wish' \in Fields
    BY <2>1, <2>2, WrittenType, TextType, LoadedType
  <2> QED BY <1>10, <2>1, <2>3, CommandStep DEF daemon, device, controller
<1> QED BY <1>1, <1>2, <1>3, <1>4, <1>5, <1>6, <1>7, <1>8, <1>9, <1>10 DEF Next, Loop

\* A device has the fields, the key and the URL of the kinds it may have.
THEOREM TypeCorrect == Spec => []TypeOK
<1>1. Init => TypeOK
  <2> SUFFICES ASSUME Init PROVE TypeOK
    OBVIOUS
  <2>1. disk \in Texts
    BY DefaultsType, TextType DEF Init, Programs
  <2>2. ctl \in [phase : Phases, key : Keys \cup {DefaultKey}]
    BY DEF Init, Phases
  <2> QED BY <2>1, <2>2, DefaultsType DEF Init, TypeOK, Steps
<1> QED BY <1>1, TypeStep, PTL DEF Spec

-----------------------------------------------------------------------------
(***************************************************************************)
(* The account.                                                             *)
(***************************************************************************)
\* The account is never locked on a device that is not adopted: the controller
\* can always come in over SSH to adopt it.
AccountOpen == pc \notin {"off", "starting"} /\ locked => mem.adopted

THEOREM OpenForAdoption == Spec => []AccountOpen
<1>1. Init => AccountOpen
  BY DEF Init, AccountOpen
<1>2. TypeOK /\ AccountOpen /\ [Next]_vars => AccountOpen'
  <2> SUFFICES ASSUME TypeOK, AccountOpen, [Next]_vars PROVE AccountOpen'
    OBVIOUS
  <2> USE DEF AccountOpen
  <2>0. Here \subseteq URLs
    BY AdoptionAssumption DEF AdoptionAssumption
  <2>1. CASE \/ UNCHANGED vars \/ NothingNew \/ EventInform \/ NoAnswer \/ SaveRaises
             \/ ForgetController \/ OwnSave \/ SaveHandled
    BY <2>1 DEF vars, daemon, device, NothingNew, EventInform, NoAnswer, SaveRaises,
                ForgetController, OwnSave, SaveHandled
  <2>2. CASE ReloadIfChanged \/ Start \/ Started \/ Crash
    BY <2>2 DEF ReloadIfChanged, Start, Started, Crash
  <2>3. CASE Pending \/ Adopt \/ Rotate \/ Forget
    BY <2>3 DEF Pending, Adopt, Rotate, Forget, Issue, daemon, device
  <2>4. CASE TakeKey
    BY <2>0, <2>4, AdoptedType DEF TakeKey, TypeOK, device
  <2>5. CASE TakeConfig \/ ResetState
    <3>1. ASSUME TakeConfig PROVE mem'.adopted
      <4>1. PICK u \in Here : mem' = Told([mem EXCEPT !.cfg = @ + 1], u)
        BY <3>1 DEF TakeConfig
      <4>2. mem.cfg + 1 \in 0..MaxPushes /\ mem.adopted
        BY <3>1, AdoptionAssumption DEF TakeConfig, TypeOK, Fields, AdoptionAssumption
      <4> QED BY <2>0, <4>1, <4>2, ConfigType DEF TypeOK
    <3> QED BY <2>5, <3>1 DEF TakeConfig, ResetState
  <2>6. CASE KeepURL
    BY <2>6, UrlType DEF KeepURL, TypeOK, device
  <2>7. CASE External
    BY <2>7, CommandStep DEF daemon, device
  <2> QED BY <2>1, <2>2, <2>3, <2>4, <2>5, <2>6, <2>7 DEF Next, Loop
<1> QED BY <1>1, <1>2, TypeCorrect, PTL DEF Spec

\* The controller adopts over SSH and is the only one to take the adoption back:
\* the settings under which the doc's promise for the account is meant.
AdoptsOverSSH == ~L3 /\ "reset-inform" \notin Ops

\* What the daemon believes to be adopted is adopted in the file, and what the
\* controller believes is believed by both.
LockInv ==
  /\ mem.adopted => disk.fields.adopted
  /\ ctl.phase \in {"adopted", "forgetting"} => disk.fields.adopted /\ (pc # "off" => mem.adopted)
  /\ pc \notin {"off", "starting"} => locked = mem.adopted

LEMMA LockStep ==
  ASSUME AdoptsOverSSH, TypeOK, LockInv, [Next]_vars
  PROVE  LockInv'
<1> USE DEF LockInv
<1>0. Here \subseteq URLs /\ Loaded(disk).adopted = disk.fields.adopted /\ disk' \in Texts
  BY AdoptionAssumption, LoadedType, TypeStep DEF AdoptionAssumption, TypeOK
<1>a. ASSUME NEW s \in Fields, Save(s)
      PROVE  disk'.fields = s
  BY <1>a, TextType DEF Save, Programs
<1>1. CASE UNCHANGED vars \/ NothingNew \/ EventInform \/ NoAnswer \/ SaveRaises \/ ForgetController
  BY <1>1 DEF vars, daemon, device, controller, NothingNew, EventInform, NoAnswer, SaveRaises,
              ForgetController
<1>2. CASE ReloadIfChanged \/ Start \/ Started
  BY <1>0, <1>2 DEF ReloadIfChanged, Start, Started, device, controller
<1>3. CASE Pending \/ Adopt \/ Rotate \/ Forget
  BY <1>3 DEF Pending, Adopt, Rotate, Forget, Issue, daemon, device, TypeOK
<1>4. CASE OwnSave \/ SaveHandled
  BY <1>4, <1>a DEF OwnSave, SaveHandled, device, controller, TypeOK
<1>5. CASE TakeKey
  <2>1. mem'.adopted
    BY <1>0, <1>5, AdoptedType DEF TakeKey, TypeOK
  <2>2. mem.adopted
    BY <1>5 DEF TakeKey, AdoptsOverSSH
  <2> QED BY <1>5, <2>1, <2>2 DEF TakeKey, device, controller
<1>6. CASE TakeConfig
  <2>1. PICK u \in Here : mem' = Told([mem EXCEPT !.cfg = @ + 1], u)
    BY <1>6 DEF TakeConfig
  <2>2. mem.cfg + 1 \in 0..MaxPushes /\ mem.adopted
    BY <1>6, AdoptionAssumption DEF TakeConfig, TypeOK, Fields, AdoptionAssumption
  <2>3. mem'.adopted
    BY <1>0, <2>1, <2>2, ConfigType DEF TypeOK
  <2> QED BY <1>6, <2>2, <2>3 DEF TakeConfig
<1>7. CASE ResetState
  <2>1. mem'.adopted = FALSE
    BY <1>7, DefaultsType DEF ResetState
  <2>2. ctl'.phase = "unknown" /\ locked' = FALSE
    BY <1>7 DEF ResetState
  <2> QED BY <2>1, <2>2
<1>8. CASE KeepURL
  <2>1. mem' \in Fields /\ mem'.adopted = mem.adopted
    BY <1>8, UrlType DEF KeepURL, TypeOK
  <2> QED BY <1>8, <1>a, <2>1 DEF KeepURL, device, controller
<1>9. CASE Crash
  BY <1>9, DefaultsType DEF Crash, device, controller
<1>10. CASE External
  <2>1. PICK op \in Ops, k \in Keys \cup {DefaultKey}, u \in URLs :
          disk' = Text(Written(op, Loaded(disk), k, u), "hook")
    BY <1>10, CommandStep
  <2>2. op \in Commands /\ op # "reset-inform" /\ "hook" \in Programs
    BY AdoptionAssumption DEF AdoptionAssumption, AdoptsOverSSH, Programs
  <2>a. Loaded(disk) \in Fields
    BY LoadedType DEF TypeOK
  <2>b. disk'.fields = Written(op, Loaded(disk), k, u)
    BY <2>1, <2>2, <2>a, WrittenType, TextType
  <2>3. disk.fields.adopted => disk'.fields.adopted
    BY <1>0, <2>2, <2>a, <2>b, WrittenType
  <2> QED BY <1>10, <2>3, CommandStep DEF daemon, device, controller
<1> QED BY <1>1, <1>2, <1>3, <1>4, <1>5, <1>6, <1>7, <1>8, <1>9, <1>10 DEF Next, Loop

\* The account is locked exactly while the device is adopted, wherever the daemon
\* dies and whenever a command runs.
THEOREM AccountFollows == AdoptsOverSSH => (Spec => []LockedWhileAdopted)
<1> SUFFICES ASSUME AdoptsOverSSH PROVE Spec => []LockedWhileAdopted
  OBVIOUS
<1>1. Init => LockInv
  <2> SUFFICES ASSUME Init PROVE LockInv
    OBVIOUS
  <2>1. mem.adopted = FALSE /\ locked = FALSE /\ ctl.phase = "unknown"
    BY DefaultsType DEF Init
  <2> QED BY <2>1 DEF LockInv
<1>2. TypeOK /\ LockInv /\ [Next]_vars => LockInv'
  BY LockStep
<1>3. LockInv => LockedWhileAdopted
  BY DEF LockInv, LockedWhileAdopted
<1> QED BY <1>1, <1>2, <1>3, TypeCorrect, PTL DEF Spec

-----------------------------------------------------------------------------
(***************************************************************************)
(* The URL of a forgotten device.                                           *)
(***************************************************************************)
\* The URL is in memory between the two saves of a reset, in the file and in
\* memory otherwise, and in the file alone while the daemon is down.
HomeInv ==
  home # None =>
    /\ pc = "resetting" => keep = home
    /\ pc # "resetting" => disk.fields.url = home
    /\ pc \notin {"off", "resetting"} => mem.url = home

LEMMA HomeStep ==
  ASSUME "resetting" \notin CrashAt, TypeOK, HomeInv, [Next]_vars
  PROVE  HomeInv'
<1> USE DEF HomeInv
<1>0. Here \subseteq URLs /\ Loaded(disk).url = disk.fields.url
  BY AdoptionAssumption, LoadedType DEF AdoptionAssumption, TypeOK
<1>a. ASSUME NEW s \in Fields, Save(s)
      PROVE  disk'.fields = s
  BY <1>a, TextType DEF Save, Programs
<1>1. CASE UNCHANGED vars \/ NothingNew \/ EventInform \/ NoAnswer \/ SaveRaises \/ ForgetController
  BY <1>1 DEF vars, daemon, history, NothingNew, EventInform, NoAnswer, SaveRaises, ForgetController
<1>2. CASE ReloadIfChanged \/ Start \/ Started
  BY <1>0, <1>2 DEF ReloadIfChanged, Start, Started, history
<1>3. CASE Pending \/ Adopt \/ Rotate \/ Forget
  BY <1>3 DEF Pending, Adopt, Rotate, Forget, Issue, daemon, history
<1>4. CASE OwnSave \/ SaveHandled
  BY <1>4, <1>a DEF OwnSave, SaveHandled, history, TypeOK
<1>5. CASE TakeKey
  <2>1. PICK u \in Here : /\ mem' = Told(Adopted(mem, ctl.key), u)
                          /\ home' = IF u = mem.url THEN home ELSE None
    BY <1>5 DEF TakeKey
  <2>2. mem'.url = u
    BY <1>0, <2>1, AdoptedType DEF TypeOK
  <2> QED BY <1>5, <2>1, <2>2 DEF TakeKey
<1>6. CASE TakeConfig
  <2>1. PICK u \in Here : /\ mem' = Told([mem EXCEPT !.cfg = @ + 1], u)
                          /\ home' = IF u = mem.url THEN home ELSE None
    BY <1>6 DEF TakeConfig
  <2>2. mem.cfg + 1 \in 0..MaxPushes
    BY <1>6, AdoptionAssumption DEF TakeConfig, TypeOK, Fields, AdoptionAssumption
  <2>3. mem'.url = u
    BY <1>0, <2>1, <2>2, ConfigType DEF TypeOK
  <2> QED BY <1>6, <2>1, <2>3 DEF TakeConfig
<1>7. CASE ResetState
  BY <1>7 DEF ResetState
<1>8. CASE KeepURL
  <2>1. mem' \in Fields /\ mem'.url = keep
    BY <1>8, UrlType DEF KeepURL, TypeOK
  <2> QED BY <1>8, <1>a, <2>1 DEF KeepURL, history
<1>9. CASE Crash
  BY <1>9 DEF Crash
<1>10. CASE External
  <2>1. PICK op \in Ops, k \in Keys \cup {DefaultKey}, u \in URLs :
          /\ disk' = Text(Written(op, Loaded(disk), k, u), "hook")
          /\ home' = IF op = "other" THEN home ELSE None
    BY <1>10, CommandStep
  <2>a. Loaded(disk) \in Fields /\ op \in Commands /\ "hook" \in Programs
    BY LoadedType, AdoptionAssumption DEF TypeOK, AdoptionAssumption, Programs
  <2>b. disk'.fields = Written(op, Loaded(disk), k, u)
    BY <2>1, <2>a, WrittenType, TextType
  <2>2. op = "other" => disk'.fields.url = disk.fields.url
    BY <1>0, <2>a, <2>b, WrittenType
  <2> QED BY <1>10, <2>1, <2>2, CommandStep DEF daemon
<1> QED BY <1>1, <1>2, <1>3, <1>4, <1>5, <1>6, <1>7, <1>8, <1>9, <1>10 DEF Next, Loop

\* A forgotten device informs the controller that forgot it until somebody points
\* it elsewhere, if the daemon does not die between the two saves of the reset.
THEOREM ForgottenInforms == "resetting" \notin CrashAt => (Spec => []ForgottenStays)
<1> SUFFICES ASSUME "resetting" \notin CrashAt PROVE Spec => []ForgottenStays
  OBVIOUS
<1>1. Init => HomeInv
  BY DEF Init, HomeInv
<1>2. TypeOK /\ HomeInv /\ [Next]_vars => HomeInv'
  BY HomeStep
<1>3. HomeInv => ForgottenStays
  BY DEF HomeInv, ForgottenStays
<1> QED BY <1>1, <1>2, <1>3, TypeCorrect, PTL DEF Spec

-----------------------------------------------------------------------------
(***************************************************************************)
(* What a heartbeat starts from.                                            *)
(***************************************************************************)
\* Commands run between heartbeats or while the daemon is down, a reset is not cut
\* in two, and every save of a push succeeds.
CommandsKeepApart ==
  /\ CommandAt \subseteq {"idle", "off"} /\ "resetting" \notin CrashAt
  /\ ~Overlay /\ ~StaEvents

\* A command does not bring back the text that the daemon looked at last once its
\* table has moved on from it: such a text is taken for the one it knows.
NoTextComesBack == [][External /\ disk' = seen => mem = Loaded(seen)]_vars

\* The file is what was asked for unless an answer is being handled, and so is the
\* table unless a command waits to be noticed; the reset is between two wishes.
WishInv ==
  /\ Clean(mem) /\ Clean(wish)
  /\ pc \in {"off", "starting", "idle", "informing", "forgetting"} => Loaded(disk) = wish
  /\ pc \in {"starting", "informing", "handling", "forgetting"} => mem = wish
  /\ pc = "idle" /\ disk \in {seen, written} => mem = wish
  /\ pc = "resetting" => mem = Defaults /\ wish = [Defaults EXCEPT !.url = keep]

LEMMA WishStep ==
  ASSUME CommandsKeepApart, TypeOK, WishInv, [Next]_vars,
         External /\ disk' = seen => mem = Loaded(seen)
  PROVE  WishInv'
<1> USE DEF WishInv
<1>0. Here \subseteq URLs /\ Loaded(disk) \in Fields /\ Clean(Loaded(disk))
  BY AdoptionAssumption, LoadedType DEF AdoptionAssumption, TypeOK
<1>a. ASSUME NEW s \in Fields, Clean(s), Save(s)
      PROVE  Loaded(disk') = s
  <2>1. disk' \in Texts /\ disk'.fields = s
    BY <1>a, TextType DEF Save, Programs
  <2> QED BY <1>a, <2>1, LoadedType
<1>1. CASE UNCHANGED vars
  BY <1>1 DEF vars, daemon, history
<1>2. CASE NothingNew
  BY <1>2 DEF NothingNew, Unnoticed, history
<1>3. CASE NoAnswer \/ ForgetController \/ Pending
  BY <1>3 DEF NoAnswer, ForgetController, Pending, history
<1>4. CASE EventInform \/ SaveRaises
  BY <1>4 DEF EventInform, SaveRaises, CommandsKeepApart
<1>5. CASE ReloadIfChanged \/ Start \/ Started
  BY <1>0, <1>5 DEF ReloadIfChanged, Start, Started, history
<1>6. CASE Adopt \/ Rotate \/ Forget
  BY <1>6 DEF Adopt, Rotate, Forget, Issue, daemon, history
<1>7. CASE OwnSave \/ SaveHandled
  <2>1. Loaded(disk') = mem
    BY <1>7, <1>a DEF OwnSave, SaveHandled, TypeOK
  <2> QED BY <1>7, <2>1 DEF OwnSave, SaveHandled, history
<1>8. CASE TakeKey
  <2>1. PICK u \in Here : /\ mem' = Told(Adopted(mem, ctl.key), u)
                          /\ wish' = Told(Adopted(wish, ctl.key), u)
    BY <1>8 DEF TakeKey
  <2>2. mem' = wish' /\ mem'.adopted
    BY <1>0, <1>8, <2>1, AdoptedType DEF TakeKey, TypeOK
  <2> QED BY <1>8, <2>2 DEF TakeKey, Clean
<1>9. CASE TakeConfig
  <2>1. PICK u \in Here : /\ mem' = Told([mem EXCEPT !.cfg = @ + 1], u)
                          /\ wish' = Told([wish EXCEPT !.cfg = mem'.cfg], u)
    BY <1>9 DEF TakeConfig
  <2>2. mem.cfg + 1 \in 0..MaxPushes /\ mem = wish
    BY <1>9, AdoptionAssumption DEF TakeConfig, TypeOK, Fields, AdoptionAssumption
  <2>3. mem'.cfg = mem.cfg + 1
    BY <1>0, <2>1, <2>2 DEF Told, TypeOK, Fields
  <2>4. mem' = wish'
    BY <2>1, <2>2, <2>3
  <2>5. Clean(mem')
    BY <1>0, <2>1, <2>2, ConfigType DEF TypeOK
  <2> QED BY <1>9, <2>4, <2>5 DEF TakeConfig
<1>10. CASE ResetState
  <2>1. mem.url \in URLs
    BY DEF TypeOK, Fields
  <2>2. Clean(mem') /\ Clean(wish')
    BY <1>10, <2>1, DefaultsType, UrlType DEF ResetState
  <2> QED BY <1>10, <2>2 DEF ResetState
<1>11. CASE KeepURL
  <2>1. mem' = wish /\ Clean(mem') /\ mem' \in Fields
    BY <1>11, UrlType DEF KeepURL, TypeOK
  <2>2. Loaded(disk') = mem'
    BY <1>11, <1>a, <2>1 DEF KeepURL
  <2> QED BY <1>11, <2>1, <2>2 DEF KeepURL, history
<1>12. CASE Crash
  <2>1. pc # "resetting" /\ pc' = "off" /\ disk' = disk /\ mem' = Defaults
    BY <1>12 DEF Crash, CommandsKeepApart
  <2>2. wish' = Loaded(disk)
    BY <1>12, <2>1, AdoptionAssumption DEF Crash, AdoptionAssumption, TypeOK, Steps
  <2> QED BY <1>0, <2>1, <2>2, DefaultsType
<1>13. CASE External
  <2>1. PICK op \in Ops, k \in Keys \cup {DefaultKey}, u \in URLs :
          /\ disk' = Text(Written(op, Loaded(disk), k, u), "hook")
          /\ wish' = Written(op, wish, k, u)
    BY <1>13, CommandStep
  <2>2. op \in Commands /\ "hook" \in Programs /\ pc \in {"idle", "off"} /\ UNCHANGED daemon
    BY <1>13, CommandStep, AdoptionAssumption DEF AdoptionAssumption, Programs, CommandsKeepApart
  <2>3. wish' \in Fields /\ Clean(wish') /\ disk' = Text(wish', "hook")
    BY <1>0, <2>1, <2>2, WrittenType
  <2>4. Loaded(disk') = wish' /\ disk'.by = "hook" /\ disk' \in Texts
    BY <2>2, <2>3, TextType, LoadedType
  <2>5. disk' # written
    BY <2>4, NoTextAssumption DEF TypeOK, NoTextAssumption
  <2>6. pc = "idle" /\ disk' = seen => mem = wish'
    BY <1>13, <2>4
  <2> QED BY <2>2, <2>3, <2>4, <2>5, <2>6 DEF daemon
<1> QED BY <1>1, <1>2, <1>3, <1>4, <1>5, <1>6, <1>7, <1>8, <1>9, <1>10, <1>11, <1>12, <1>13
        DEF Next, Loop

\* What the invariant is of use for: a heartbeat takes the wish from the table when
\* it knows the text, and from the file when it does not.
LEMMA HeartbeatTakesWish ==
  WishInv /\ (NothingNew \/ ReloadIfChanged) => mem' = wish
BY DEF WishInv, NothingNew, ReloadIfChanged, Unnoticed

LEMMA WishHolds == CommandsKeepApart => (Spec /\ NoTextComesBack => [](TypeOK /\ WishInv))
<1> SUFFICES ASSUME CommandsKeepApart PROVE Spec /\ NoTextComesBack => [](TypeOK /\ WishInv)
  OBVIOUS
<1>1. Init => WishInv
  <2> SUFFICES ASSUME Init PROVE WishInv
    OBVIOUS
  <2>1. disk \in Texts /\ disk.fields = Defaults
    BY DefaultsType, TextType DEF Init, Programs
  <2>2. Loaded(disk) = Defaults
    BY <2>1, DefaultsType, LoadedType
  <2> QED BY <2>2, DefaultsType DEF Init, WishInv
<1>2. TypeOK /\ WishInv /\ [Next]_vars /\ [External /\ disk' = seen => mem = Loaded(seen)]_vars => WishInv'
  <2>1. CASE UNCHANGED vars
    BY <2>1 DEF vars, daemon, history, WishInv
  <2>2. CASE ~UNCHANGED vars
    BY <2>2, WishStep
  <2> QED BY <2>1, <2>2
<1> QED BY <1>1, <1>2, TypeCorrect, PTL DEF Spec, NoTextComesBack

\* Every heartbeat starts from the key and the URL that the last command or answer
\* set, whoever restarted in between.
THEOREM LastWriterWins ==
  CommandsKeepApart => (Spec /\ NoTextComesBack => InformsAsCommanded)
<1> SUFFICES ASSUME CommandsKeepApart PROVE Spec /\ NoTextComesBack => InformsAsCommanded
  OBVIOUS
<1>1. WishInv => [NothingNew \/ ReloadIfChanged => mem' = wish]_vars
  BY HeartbeatTakesWish
<1> QED BY <1>1, WishHolds, PTL DEF InformsAsCommanded

-----------------------------------------------------------------------------
(***************************************************************************)
(* What a reset leaves.                                                     *)
(***************************************************************************)
\* Moreover a command is noticed by the daemon that ran when it came, and the reset
\* goes through to its end: what is set up is dropped by comparing what the daemon
\* believed before with what it believes after.
ResetsAreSeen == CommandAt \subseteq {"idle"} /\ CrashAt \subseteq {"starting", "informing", "handling"}

\* What a controller set up is there only while the device is adopted: in the file,
\* but for a reset that waits to be noticed, and in the table of a running daemon.
BareInv ==
  /\ wlans /\ pc \in {"off", "starting", "informing", "handling"} => disk.fields.adopted
  /\ wlans /\ pc \in {"starting", "idle", "informing", "handling"} => mem.adopted

LEMMA BareStep ==
  ASSUME CommandsKeepApart, ResetsAreSeen, TypeOK, WishInv, BareInv, [Next]_vars
  PROVE  BareInv'
<1> USE DEF BareInv
<1>0. Here \subseteq URLs /\ Loaded(disk).adopted = disk.fields.adopted
  BY AdoptionAssumption, LoadedType DEF AdoptionAssumption, TypeOK
<1>a. ASSUME NEW s \in Fields, Save(s)
      PROVE  disk'.fields = s
  BY <1>a, TextType DEF Save, Programs
<1>1. CASE UNCHANGED vars
  BY <1>1 DEF vars, daemon, device
<1>2. CASE NothingNew
  <2>1. mem.adopted = disk.fields.adopted
    BY <1>0, <1>2 DEF NothingNew, Unnoticed, WishInv
  <2> QED BY <1>2, <2>1 DEF NothingNew, device
<1>3. CASE NoAnswer \/ ForgetController \/ Pending
  BY <1>3 DEF NoAnswer, ForgetController, Pending, device
<1>4. CASE EventInform \/ SaveRaises
  BY <1>4 DEF EventInform, SaveRaises, CommandsKeepApart
<1>5. CASE ReloadIfChanged
  <2>1. pc' = "informing" /\ disk' = disk /\ mem'.adopted = disk.fields.adopted
    BY <1>0, <1>5 DEF ReloadIfChanged
  <2>2. wlans' => wlans /\ (mem.adopted => mem'.adopted)
    BY <1>5 DEF ReloadIfChanged
  <2>3. wlans => mem.adopted
    BY <1>5 DEF ReloadIfChanged
  <2> QED BY <2>1, <2>2, <2>3
<1>13. CASE Start \/ Started
  BY <1>0, <1>13 DEF Start, Started, device
<1>6. CASE Adopt \/ Rotate \/ Forget
  BY <1>6 DEF Adopt, Rotate, Forget, Issue, daemon, device
<1>7. CASE OwnSave \/ SaveHandled
  BY <1>7, <1>a DEF OwnSave, SaveHandled, device, TypeOK
<1>8. CASE TakeKey
  <2>1. mem'.adopted
    BY <1>0, <1>8, AdoptedType DEF TakeKey, TypeOK
  <2> QED BY <1>8, <2>1 DEF TakeKey, device
<1>9. CASE TakeConfig
  <2>1. PICK u \in Here : mem' = Told([mem EXCEPT !.cfg = @ + 1], u)
    BY <1>9 DEF TakeConfig
  <2>2. mem.cfg + 1 \in 0..MaxPushes /\ mem.adopted
    BY <1>9, AdoptionAssumption DEF TakeConfig, TypeOK, Fields, AdoptionAssumption
  <2>3. mem'.adopted
    BY <1>0, <2>1, <2>2, ConfigType DEF TypeOK
  <2>4. disk.fields.adopted
    BY <1>0, <1>9, <2>2 DEF TakeConfig, WishInv
  <2> QED BY <1>9, <2>3, <2>4 DEF TakeConfig
<1>10. CASE ResetState \/ KeepURL
  BY <1>10 DEF ResetState, KeepURL
<1>11. CASE Crash
  BY <1>11 DEF Crash, ResetsAreSeen, device
<1>12. CASE External
  BY <1>12, CommandStep DEF ResetsAreSeen, daemon, device
<1> QED BY <1>1, <1>2, <1>3, <1>4, <1>5, <1>6, <1>7, <1>8, <1>9, <1>10, <1>11, <1>12, <1>13
        DEF Next, Loop

\* A device that is not adopted has nothing of a controller in place.
THEOREM NothingIsLeft ==
  CommandsKeepApart /\ ResetsAreSeen => (Spec /\ NoTextComesBack => []ForgottenIsBare)
<1> SUFFICES ASSUME CommandsKeepApart, ResetsAreSeen
             PROVE  Spec /\ NoTextComesBack => []ForgottenIsBare
  OBVIOUS
<1>1. Init => BareInv
  BY DEF Init, BareInv
<1>2. TypeOK /\ WishInv /\ BareInv /\ [Next]_vars => BareInv'
  BY BareStep
<1>3. BareInv => ForgottenIsBare
  BY DEF BareInv, ForgottenIsBare
<1> QED BY <1>1, <1>2, <1>3, WishHolds, PTL DEF Spec
=============================================================================
