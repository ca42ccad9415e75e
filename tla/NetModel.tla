------------------------------ MODULE NetModel ------------------------------
(***************************************************************************)
(* The network safety net of the inform daemon: openwrt/netmodel.lua, the   *)
(* part of provision.lua that drives it and the part of inform.lua that     *)
(* judges it.                                                               *)
(*                                                                          *)
(* The controller may hand the access point a new layout of the bridge that *)
(* carries its own management address.  The daemon keeps a copy of          *)
(* /etc/config/network, commits the new one, has netifd reload it, and      *)
(* opens a rollback window; an inform answered inside the window confirms   *)
(* the change, a window that runs out puts the copy back.                   *)
(*                                                                          *)
(* A network configuration is named by the change that wrote it: a plan's   *)
(* fingerprint, an address setting's, or Board for the file the board came  *)
(* with.  A window's `since` is kept as the age uptime - since, so that the *)
(* clock may run on; the age is what check() reads.                         *)
(***************************************************************************)
EXTENDS Integers, FiniteSets

CONSTANTS
  Plans,        \* fingerprints of network plans (netmodel.converge)
  Addresses,    \* fingerprints of static IP Settings (netmodel.apply_addressing)
  Lease,        \* fingerprint of IP Settings on DHCP
  Board,        \* the network the board had before openUF
  Torn,         \* a network file that was cut short when it was written
  None,         \* absence: no file, no window, no fingerprint
  Reaches,      \* the networks over which the controller can be reached
  Timeout,      \* bridge_rollback_timeout, in ticks of the clock
  MaxUptime,    \* the uptime from which the model stops telling uptimes apart
  MaxRestarts,  \* bound on the times the daemon or the board goes down
  CrashAt,      \* the steps of the daemon at which it may go down
  EventsPerTick, \* bound on event informs between two heartbeats
  Failing,      \* what may fail on a full overlay: "save" (state.save raises),
                \* "copy" (a file comes out short, unnoticed)
  Ops,          \* what other processes may run: syswrapper.sh commands
  Race          \* TRUE: another process's load and save may be interleaved

Changes == Plans \cup Addresses \cup {Lease}
Nets == Changes \cup {Board, Torn}

\* The daemon's steps that leave something behind for a crash to find.
Steps == { "starting", "idle", "sending", "confirming", "answered", "copied", "committed",
           "reloaded", "settling", "restored", "dropped", "reverted" }
Commands == { "retry", "restore", "reset", "touch" }

ASSUME NetAssumption ==
  /\ Plans \cap Addresses = {} /\ Lease \notin Plans \cup Addresses
  /\ Board \notin Changes /\ Torn \notin Changes \cup {Board}
  /\ None \notin Nets
  /\ Board \in Reaches /\ Reaches \subseteq Nets
  /\ Timeout \in Nat \ {0}
  /\ MaxUptime \in Nat
  /\ MaxRestarts \in Nat
  /\ EventsPerTick \in Nat
  /\ CrashAt \subseteq Steps
  /\ Failing \subseteq {"save", "copy"}
  /\ Ops \subseteq Commands
  /\ Race \in BOOLEAN

VARIABLES
  netfile,   \* /etc/config/network
  live,      \* the network netifd runs
  rollback,  \* /etc/openuf/network.rollback, or None
  pristine,  \* /etc/openuf/network.pre-openuf, or None
  disk,      \* the netmodel fields of state.json
  mem,       \* the same fields in the daemon's table
  changed,   \* state.json holds something the daemon neither wrote nor read
  owed,      \* history: the save of a window opened or closed raised, and none
             \* has worked since
  pc,        \* the daemon's step, or "off"
  target,    \* the change being applied, or None
  sent,      \* event informs since the last heartbeat began, or AtStart
  sw,        \* another process between its load and its save of state.json
  uptime,    \* ticks since the board booted, up to MaxUptime
  restarts,  \* times the daemon or the board went down
  proven,    \* history: networks over which an inform was answered
  lost,      \* history: the change rolled back last, until someone forgives it
  amiss      \* history: the daemon forgot a record it could not save, or a network
             \* file was not written as it should have been

files == <<netfile, live, rollback, pristine>>
records == <<disk, mem, changed, owed>>
others == <<sw, uptime, restarts>>
history == <<proven, lost, amiss>>
loop == <<target, sent>>
vars == <<files, records, pc, loop, others, history>>

(***************************************************************************)
(* The record netmodel keeps in state.json.                                 *)
(***************************************************************************)
NoWindow == [fp |-> None, age |-> 0]
Windows == [fp : Changes \cup {None}, age : Int]
NoRecord == [pending |-> NoWindow, applied |-> None, failed |-> None, static |-> None]
Records == [pending : Windows, applied : Plans \cup {None},
            failed : Changes \cup {None}, static : Addresses \cup {None}]
IdleProcess == [op |-> "none", copy |-> NoRecord]

Open(s) == s.pending.fp # None
Expired(s) == s.pending.age >= Timeout

\* One tick of the clock on a record.
Older(s) == IF Open(s) /\ s.pending.age < Timeout
            THEN [s EXCEPT !.pending.age = @ + 1] ELSE s

\* The clock of a new boot starts from zero, `since` does not.
Rebooted(s) == IF Open(s) THEN [s EXCEPT !.pending.age = @ - uptime] ELSE s

\* on_start: a window found at start is measured from now.
FreshWindowDropped(s) == [s EXCEPT !.pending = NoWindow]   \* mutant
FreshWindow(s) == IF Open(s) THEN [s EXCEPT !.pending.age = 0] ELSE s

\* state.save: the file is what the daemon wrote, whatever it was before ...
Save(s) == mem' = s /\ disk' = s /\ changed' = FALSE /\ owed' = FALSE

\* ... or it raises, and the file is what it was.
SaveRaises == "save" \in Failing /\ owed' = TRUE /\ UNCHANGED <<disk, mem, changed>>

\* _write_file looks neither at the write nor at the close: what it puts in place
\* of the file may be short of the text.
Put(net) == {net} \cup {n \in {Torn} : "copy" \in Failing}

\* sent before the first heartbeat of a daemon.
AtStart == -1

\* What the static_* fields say once a network was handled: a static address
\* is recorded whatever became of it, a plan or a lease forgets it.
Asked(s, f) == [s EXCEPT !.static = IF f \in Addresses THEN f ELSE None]
OpenedAsPlan(s, f) ==   \* mutant: an address recorded as the applied plan
  [Asked(s, f) EXCEPT !.pending = [fp |-> f, age |-> 0], !.applied = f]
Opened(s, f) ==
  [Asked(s, f) EXCEPT !.pending = [fp |-> f, age |-> 0],
                      !.applied = IF f \in Plans THEN f ELSE @]
Confirmed(s) == [s EXCEPT !.pending = NoWindow]
\* Mutants: one field of a rolled-back record forgotten.
RolledBackApplied(s) == [s EXCEPT !.pending = NoWindow, !.failed = s.pending.fp]
RolledBackOpen(s) == [s EXCEPT !.applied = None, !.failed = s.pending.fp]
RolledBack(s) ==
  [s EXCEPT !.pending = NoWindow, !.applied = None, !.failed = s.pending.fp]

Init ==
  /\ netfile = Board /\ live = Board
  /\ rollback = None /\ pristine = None
  /\ disk = NoRecord /\ mem = NoRecord /\ changed = FALSE /\ owed = FALSE
  /\ pc = "idle" /\ target = None /\ sent = AtStart
  /\ sw = IdleProcess /\ uptime = 0 /\ restarts = 0
  /\ proven = {Board} /\ lost = None /\ amiss = FALSE

(***************************************************************************)
(* The heartbeat: _tick up to its POST, and the two outcomes of the POST.   *)
(***************************************************************************)
StartTick ==
  /\ pc = "idle" /\ pc' = "sending" /\ sent' = 0
  /\ mem' = IF changed THEN disk ELSE mem
  /\ changed' = FALSE
  /\ owed' = (owed /\ ~changed) /\ amiss' = (amiss \/ (owed /\ changed))
  /\ UNCHANGED <<files, disk, target, others, proven, lost>>

\* An answer this device can decrypt.  check(TRUE) closes an open window and
\* removes the copy; the record is saved in the next step.
Answer ==
  /\ pc = "sending" /\ live \in Reaches
  /\ proven' = proven \cup {live}
  /\ \/ /\ Open(mem)
        /\ mem' = Confirmed(mem) /\ rollback' = None /\ pc' = "confirming"
     \/ /\ ~Open(mem)
        /\ pc' = "answered" /\ UNCHANGED <<mem, rollback>>
  /\ UNCHANGED <<netfile, live, pristine, disk, changed, owed, loop, others, lost, amiss>>

\* A save that raises ends the tick (_loop_once): the answer is not handled.
SaveConfirmed ==
  /\ pc = "confirming"
  /\ \/ Save(mem) /\ pc' = "answered"
     \/ SaveRaises /\ pc' = "idle"
  /\ UNCHANGED <<files, loop, others, history>>

\* No answer (or one that cannot be decrypted, or no payload to send), and
\* no window that has run out.
NoAnswer ==
  /\ pc = "sending" /\ pc' = "idle"
  /\ ~(Open(mem) /\ Expired(mem))
  /\ UNCHANGED <<files, records, loop, others, history>>

\* check(FALSE) on an expired window: the copy goes back.
WriteBack ==
  /\ pc = "sending" /\ pc' = "restored"
  /\ Open(mem) /\ Expired(mem) /\ rollback # None
  /\ netfile' \in Put(rollback) /\ amiss' = (amiss \/ netfile' = Torn)
  /\ lost' = mem.pending.fp
  /\ UNCHANGED <<live, rollback, pristine, records, loop, others, proven>>

\* "rollback_failed": the copy is kept and tried again at the next tick, or at
\* once, when the save raises.
WriteBackFails ==
  /\ pc = "sending" /\ pc' = "idle"
  /\ Open(mem) /\ Expired(mem) /\ rollback # None
  /\ \/ Save(mem)
     \/ "save" \in Failing /\ UNCHANGED records
  /\ UNCHANGED <<files, loop, others, history>>

\* There is no copy: the plan is given up in memory, and nothing is saved.
NothingToRestoreKept ==   \* mutant: the window stays
  /\ pc = "sending" /\ pc' = "idle"
  /\ Open(mem) /\ Expired(mem) /\ rollback = None
  /\ lost' = None
  /\ UNCHANGED <<files, records, loop, others, proven, amiss>>

NothingToRestore ==
  /\ pc = "sending" /\ pc' = "idle"
  /\ Open(mem) /\ Expired(mem) /\ rollback = None
  /\ mem' = RolledBack(mem)
  /\ lost' = None
  /\ UNCHANGED <<files, disk, changed, owed, loop, others, proven, amiss>>

DropCopy ==
  /\ pc = "restored" /\ pc' = "dropped"
  /\ rollback' = None
  /\ UNCHANGED <<netfile, live, pristine, records, loop, others, history>>

ReloadRestoredNever ==   \* mutant: netifd keeps the lost network
  /\ pc = "dropped" /\ pc' = "reverted"
  /\ mem' = RolledBack(mem)
  /\ UNCHANGED <<files, disk, changed, owed, loop, others, history>>

ReloadRestored ==
  /\ pc = "dropped" /\ pc' = "reverted"
  /\ mem' = RolledBack(mem)
  /\ live' = netfile
  /\ UNCHANGED <<netfile, rollback, pristine, disk, changed, owed, loop, others, history>>

SaveRolledBack ==
  /\ pc = "reverted" /\ pc' = "idle"
  /\ Save(mem) \/ SaveRaises
  /\ UNCHANGED <<files, loop, others, history>>

(***************************************************************************)
(* handle_response: the network part of a pushed configuration.             *)
(***************************************************************************)

\* An answer without a network in it, or DHCP where no address was ever set.
NoNetwork ==
  /\ pc = "answered" /\ pc' = "settling"
  /\ UNCHANGED <<files, records, loop, others, history>>

\* DHCP is only acted on where it ends a static address.
Wanted(f) == f = Lease => mem.static # None

\* A change that lost the controller, that cannot be planned or whose copy
\* cannot be kept.  The pristine copy is written before the rollback copy, and
\* may be all that is left of a try.
Refuse(f) ==
  /\ pc = "answered" /\ pc' = "settling" /\ Wanted(f)
  /\ mem' = IF f \in Plans THEN mem ELSE Asked(mem, f)
  /\ \/ UNCHANGED pristine
     \/ /\ f \in Plans /\ mem.failed # f /\ f # netfile /\ pristine = None
        /\ pristine' \in Put(netfile)
  /\ amiss' = (amiss \/ pristine' = Torn)
  /\ UNCHANGED <<netfile, live, rollback, disk, changed, owed, loop, others, proven, lost>>

\* The file already says what the change would write.
AlreadyThere(f) ==
  /\ pc = "answered" /\ pc' = "settling" /\ Wanted(f)
  /\ mem.failed # f /\ netfile = f
  /\ mem' = [Asked(mem, f) EXCEPT !.applied = IF f \in Plans THEN f ELSE @]
  /\ UNCHANGED <<files, disk, changed, owed, loop, others, history>>

\* converge / apply_addressing up to the copies; only converge keeps the
\* pristine one, and losing that one is not fatal.  A copy cut short counts as
\* kept.
KeepCopyAnyway(f) ==   \* mutant: the failed change is not asked for
  /\ pc = "answered" /\ pc' = "copied" /\ Wanted(f)
  /\ netfile # f
  /\ target' = f
  /\ rollback' = netfile
  /\ UNCHANGED <<netfile, live, pristine, records, sent, others, history>>

KeepCopy(f) ==
  /\ pc = "answered" /\ pc' = "copied" /\ Wanted(f)
  /\ mem.failed # f /\ netfile # f
  /\ target' = f
  /\ rollback' \in Put(netfile)
  /\ \/ UNCHANGED pristine
     \/ f \in Plans /\ pristine = None /\ pristine' \in Put(netfile)
  /\ amiss' = (amiss \/ Torn \in {rollback', pristine'})
  /\ UNCHANGED <<netfile, live, records, sent, others, proven, lost>>

Commit ==
  /\ pc = "copied" /\ pc' = "committed"
  /\ netfile' = target
  /\ UNCHANGED <<live, rollback, pristine, records, loop, others, history>>

CommitFails ==
  /\ pc = "copied" /\ pc' = "settling"
  /\ rollback' = None /\ target' = None
  /\ mem' = IF target \in Plans THEN mem ELSE Asked(mem, target)
  /\ UNCHANGED <<netfile, live, pristine, disk, changed, owed, sent, others, history>>

\* The window is recorded in memory, netifd reloads.
Reload ==
  /\ pc = "committed" /\ pc' = "reloaded"
  /\ mem' = Opened(mem, target)
  /\ live' = netfile
  /\ target' = None
  /\ UNCHANGED <<netfile, rollback, pristine, disk, changed, owed, sent, others, history>>

\* provision.lua saves right after a change that was applied, and once more at
\* the end of every push.
SaveAppliedLater ==   \* mutant: left to the save at the end of the push
  /\ pc = "reloaded" /\ pc' = "settling"
  /\ UNCHANGED <<files, records, loop, others, history>>

\* A save that raises ends the answer: the window is known to the daemon alone.
SaveApplied ==
  /\ pc = "reloaded"
  /\ \/ Save(mem) /\ pc' = "settling"
     \/ SaveRaises /\ sent # AtStart /\ pc' = "idle"
  /\ UNCHANGED <<files, loop, others, history>>

\* The end of a push saves; an answer without a configuration, or a handler
\* that raises, does not.
EndResponse ==
  /\ pc = "settling" /\ pc' = "idle"
  /\ \/ Save(mem)
     \/ UNCHANGED records
  /\ UNCHANGED <<files, loop, others, history>>

\* _send_sta_events: an event inform goes out, after a heartbeat's answer or
\* between heartbeats (_roam_poll), and its answer is handled like any other, but
\* never shown to check().  The first heartbeat comes before the first event;
\* one sent while a heartbeat builds its payload is one sent just before it.  A
\* push that came before it in the same response has been saved, if it was one.
EventAnswer ==
  /\ pc \in {"idle", "settling"} /\ pc' = "answered" /\ live \in Reaches
  /\ sent \in 0..(EventsPerTick - 1) /\ sent' = sent + 1
  /\ proven' = proven \cup {live}
  /\ \/ pc = "settling" /\ Save(mem)
     \/ UNCHANGED records
  /\ UNCHANGED <<files, target, others, lost, amiss>>

(***************************************************************************)
(* Crashes and restarts.                                                    *)
(***************************************************************************)

\* The daemon's memory is gone, and with it a record it could not save.
Forget(unsaved) ==
  /\ pc' = "off" /\ mem' = NoRecord /\ changed' = FALSE /\ owed' = FALSE
  /\ target' = None /\ sent' = AtStart
  /\ amiss' = (amiss \/ unsaved)

GoDown ==
  /\ pc \in CrashAt /\ restarts < MaxRestarts
  /\ restarts' = restarts + 1
  /\ Forget(owed)

\* The daemon alone: procd starts it again, the network stays as it is.
Crash ==
  /\ GoDown
  /\ UNCHANGED <<files, disk, sw, uptime, proven, lost>>

\* The whole board: netifd comes up with the file, the clock starts over.
Reboot ==
  /\ GoDown
  /\ live' = netfile
  /\ disk' = Rebooted(disk) /\ uptime' = 0
  /\ sw' = IdleProcess
  /\ UNCHANGED <<netfile, rollback, pristine, proven, lost>>

\* The save after a static address was re-applied is run()'s own: the daemon dies
\* of a raise.
DieUnsaved ==
  /\ pc = "reloaded" /\ sent = AtStart /\ "save" \in Failing
  /\ Forget(TRUE)
  /\ UNCHANGED <<files, disk, others, proven, lost>>

\* run(): load, then on_start, in memory only.
Start ==
  /\ pc = "off" /\ pc' = "starting"
  /\ mem' = FreshWindow(disk)
  /\ UNCHANGED <<files, disk, changed, owed, loop, others, history>>

\* _reapply_static_ip: a recorded address the file does not have is applied
\* again, like a push of it.
Reapplied(a) == a # None /\ mem.failed # a /\ netfile # a

NothingToReapply ==
  /\ pc = "starting" /\ pc' = "idle"
  /\ ~Reapplied(mem.static)
  /\ UNCHANGED <<files, records, loop, others, history>>

ReapplyStatic ==
  /\ pc = "starting" /\ pc' = "copied"
  /\ Reapplied(mem.static)
  /\ target' = mem.static
  /\ rollback' \in Put(netfile) /\ amiss' = (amiss \/ rollback' = Torn)
  /\ UNCHANGED <<netfile, live, pristine, records, sent, others, proven, lost>>

(***************************************************************************)
(* Other processes: syswrapper.sh netmodel-retry, netmodel-restore,         *)
(* reset-inform, and any command that only carries the netmodel fields along *)
(* ("touch": set-inform, reprovision).                                      *)
(***************************************************************************)
Runs(op) == sw.op = "none" /\ op \in Ops

\* restore_pristine writes the file, whether it can or not, and reloads before the
\* command's save.
Restores(op) ==
  \/ /\ op = "restore" /\ pristine # None
     /\ netfile' \in Put(pristine) \cup {n \in {netfile} : "copy" \in Failing}
     /\ live' = netfile'
     /\ amiss' = (amiss \/ netfile' # pristine \/ pristine = Torn)
  \/ op # "restore" /\ UNCHANGED <<netfile, live, amiss>>

Written(op, s) ==
  CASE op = "touch"   -> s
    [] op = "retry"   -> [s EXCEPT !.failed = None]
    [] op = "restore" -> [NoRecord EXCEPT !.static = s.static]
    [] OTHER          -> NoRecord

Writes(op, s) ==
  \/ /\ disk' = Written(op, s)
     /\ changed' = (pc # "off")
     /\ lost' = IF op = "touch" THEN lost ELSE None
  \/ "save" \in Failing /\ UNCHANGED <<disk, changed, lost>>

\* A command nothing comes between ...
Run(op) ==
  /\ Runs(op) /\ Restores(op) /\ Writes(op, disk)
  /\ UNCHANGED <<rollback, pristine, mem, owed, pc, loop, others, proven>>

\* ... and one that another step can separate from its save.
Load(op) ==
  /\ Race /\ Runs(op) /\ Restores(op)
  /\ sw' = [op |-> op, copy |-> disk]
  /\ UNCHANGED <<rollback, pristine, records, pc, loop, uptime, restarts, proven, lost>>

Store ==
  /\ sw.op # "none" /\ Writes(sw.op, sw.copy)
  /\ sw' = IdleProcess
  /\ UNCHANGED <<files, mem, owed, pc, loop, uptime, restarts, proven, amiss>>

Clock ==
  /\ uptime' = IF uptime < MaxUptime THEN uptime + 1 ELSE uptime
  /\ disk' = Older(disk) /\ mem' = Older(mem)
  /\ sw' = [sw EXCEPT !.copy = Older(@)]
  /\ UNCHANGED <<files, changed, owed, pc, loop, restarts, history>>

-----------------------------------------------------------------------------
Heartbeat == StartTick \/ Answer \/ SaveConfirmed \/ NoAnswer
Rollback == WriteBack \/ WriteBackFails \/ NothingToRestore \/ DropCopy
              \/ ReloadRestored \/ SaveRolledBack
Push == \/ NoNetwork
        \/ \E f \in Changes : Refuse(f) \/ AlreadyThere(f) \/ KeepCopy(f)
        \/ Commit \/ CommitFails \/ Reload \/ SaveApplied
        \/ EndResponse \/ EventAnswer
Daemon == Heartbeat \/ Rollback \/ Push
            \/ DieUnsaved \/ Start \/ NothingToReapply \/ ReapplyStatic

Command == (\E op \in Commands : Run(op) \/ Load(op)) \/ Store

Next == Daemon \/ Crash \/ Reboot \/ Clock \/ Command

\* The daemon is one loop, procd starts it again, time passes, and another
\* process ends.  A copy that can be written back again and again is one day.
Fairness ==
  WF_vars(Daemon) /\ SF_vars(WriteBack) /\ WF_vars(Clock) /\ WF_vars(Store)

Spec == Init /\ [][Next]_vars
FairSpec == Spec /\ Fairness

(***************************************************************************)
(* Properties.                                                              *)
(***************************************************************************)
\* The files name networks, the two copies of the record have their shape, and
\* the daemon is at one of its steps, whichever process wrote last.
TypeOK ==
  /\ netfile \in Nets /\ live \in Nets
  /\ rollback \in Nets \cup {None} /\ pristine \in Nets \cup {None}
  /\ disk \in Records /\ mem \in Records /\ changed \in BOOLEAN /\ owed \in BOOLEAN
  /\ pc \in Steps \cup {"off"}
  /\ target \in Changes \cup {None} /\ sent \in AtStart..EventsPerTick
  /\ sw \in [op : Commands \cup {"none"}, copy : Records]
  /\ uptime \in 0..MaxUptime /\ restarts \in 0..MaxRestarts
  /\ proven \subseteq Nets /\ lost \in Changes \cup {None} /\ amiss \in BOOLEAN

\* Between its commit and the save of its window, and between the write-back
\* of a copy and the reload, the daemon alone knows what it is doing.
InHand == {"committed", "reloaded", "restored", "dropped"}

\* A network nobody has yet answered over, running or in the file for the next
\* boot, has an open window -- in state.json, or in the daemon while its save is
\* owed, and in the daemon whenever it runs -- and a copy of a network that was
\* answered over (netmodel.lua, SAFETY).
UnprovenIsCovered ==
  ~amiss /\ pc \notin InHand /\ ~({netfile, live} \subseteq proven)
    => (Open(disk) \/ owed) /\ (pc # "off" => Open(mem)) /\ rollback \in proven

\* What keeps the safety net whole: no command interleaves with a save or drops
\* the window (reset-inform does), and nothing goes down InHand.
Careful == ~Race /\ "reset" \notin Ops /\ CrashAt \cap InHand = {}

\* Why UnprovenIsCovered holds, step by step of the daemon.
Covered ==
  /\ Board \in proven /\ {rollback, pristine} \subseteq proven \cup {None}
  /\ pc \notin {"committed", "restored", "dropped"} => netfile = live
  /\ pc \in {"confirming", "answered", "copied", "committed"} => live \in proven
  /\ pc \in {"restored", "dropped", "reverted"} => netfile \in proven
  /\ pc = "committed" => netfile = target \/ netfile \in proven
  /\ pc \in {"copied", "committed"} => target # None /\ rollback # None
  /\ pc = "reloaded" => Open(mem) /\ rollback # None
  /\ pc \notin {"committed", "reloaded", "dropped"} /\ live \notin proven
       => (Open(disk) \/ owed) /\ (pc # "off" => Open(mem)) /\ rollback # None
  /\ pc \notin {"committed", "reloaded"} /\ netfile \notin proven
       => disk.static \in {None, netfile} \/ owed
  /\ pc \notin {"committed", "off"} /\ netfile \notin proven
       => mem.static \in {None, netfile}

CoverInv == sw = IdleProcess /\ (pc = "off" => ~owed) /\ (~amiss => Covered)

\* The safety net implements its promise: seen from outside, every step of the
\* files, the records and the processes is a trial, an answer or a way back.
Trial == INSTANCE TrialNetwork
  WITH Networks <- Nets, Initial <- Board, net <- live, known <- proven,
       trial <- IF pc = "off" THEN Open(disk) ELSE Open(mem),
       void <- amiss

\* Changes are trials that end on a network that works, and a trial nobody
\* answers does end (netmodel.lua, SAFETY; check, on_start).
KeepsThePromise == Trial!FairSpec

\* "must survive a restart" (state.lua): with the daemon down, a network nobody
\* has answered over is never in place without its window on record.
WindowSurvivesRestart ==
  pc = "off" /\ live \notin proven => Open(disk)

\* The plan netmodel reports as applied is never the one it refuses to apply.
AppliedNeverFailed ==
  \A s \in {disk, mem} : s.applied # None => s.applied # s.failed

\* Closing a window as confirmed speaks for the change the window names: that
\* change's own network carried the answer.
ConfirmsWhatAnswered ==
  [][Answer /\ Open(mem) /\ ~amiss => mem.pending.fp \in proven']_vars

\* The change rolled back last is not committed again, across restarts and
\* later pushes, until somebody forgives it (netmodel-retry, netmodel-restore,
\* reset-inform) -- or the daemon forgot it, having failed to save it.
NoSecondTry == [][Commit /\ ~amiss => target # lost]_vars

\* What it takes: no command interleaves with a save, and nothing goes down
\* before a rollback is saved.
RollbacksRecorded == ~Race /\ CrashAt \cap {"restored", "dropped", "reverted"} = {}

\* Why NoSecondTry then holds: the change rolled back last is the one on record
\* as failed, or the window being closed.
Remembered ==
  lost # None =>
    /\ pc \in {"restored", "dropped"} => mem.pending.fp = lost
    /\ pc = "reverted" => mem.failed = lost
    /\ pc \notin {"restored", "dropped", "reverted"} =>
         (disk.failed = lost \/ owed) /\ (pc # "off" => mem.failed = lost)

RefusalInv ==
  /\ sw = IdleProcess
  /\ pc = "off" => ~owed
  /\ pc \in {"copied", "committed"} => target # mem.failed
  /\ ~amiss => Remembered

\* An access point that a change cut off from its controller comes back, unless the
\* daemon forgets the change's window unsaved or a network file was cut short.
StrandedRecovers == live \notin Reaches ~> live \in Reaches \/ amiss

\* Every window the daemon has open closes: none is judged forever.
WindowCloses == Open(mem) ~> ~Open(mem)
=============================================================================
