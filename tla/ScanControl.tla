----------------------------- MODULE ScanControl -----------------------------
(***************************************************************************)
(* Who scans when: the controller (scanner/controller.go), the watcher     *)
(* (scanner/watcher.go) and the scan at start-up (cmd/root.go) of one      *)
(* server process.                                                         *)
(*                                                                         *)
(* Everybody who wants a scan calls ScanFolders in a goroutine; the first  *)
(* takes the flag "running", the others are refused and not called back.   *)
(* The watcher collects the folders in which something happened, waits     *)
(* until nothing happened for a while, asks whether a scan is running and  *)
(* calls ScanFolders itself if not.                                        *)
(*                                                                         *)
(* Of a scan the model keeps which folders it has still to read and the    *)
(* flags of the library row it sets and clears.  A shutdown is a Crash:    *)
(* what goes on until the process ends runs under a cancelled context.  A  *)
(* scan started from the command line is another process, with a flag of   *)
(* its own, and is left out.                                               *)
(***************************************************************************)
EXTENDS Naturals, Sequences, FiniteSets

CONSTANTS
  Folders,        \* folders a change can be noticed in
  Goroutines,     \* callers of ScanFolders at the same time
  Modes,          \* conf.Server.DevSelectiveWatcher: the values to consider
  Upgrades,       \* what the start finds: <<migration, PID changed>>
  ScanOnStartup,  \* conf.Server.Scanner.ScanOnStartup
  Requests,       \* scans asked for by users and the schedule: <<full, targets>>
  Buffered,       \* file system events that fit into the channels
  MaxChanges,     \* bounds on: changes on disk,
  MaxRequests,    \*   scans asked for,
  MaxFaults,      \*   failed scans and queries,
  MaxCrashes,     \*   restarts
  None            \* no folder

ASSUME ControlAssumption ==
  /\ Modes \subseteq BOOLEAN /\ Modes # {}
  /\ Upgrades \subseteq BOOLEAN \X BOOLEAN
  /\ ScanOnStartup \in BOOLEAN
  /\ Requests \subseteq BOOLEAN \X SUBSET Folders
  /\ {Buffered, MaxChanges, MaxRequests, MaxFaults, MaxCrashes} \subseteq Nat
  /\ None \notin Folders

VARIABLES
  selective,   \* conf.Server.DevSelectiveWatcher
  migration,   \* property FullScanAfterMigration is set
  pidChanged,  \* the stored PID configuration is not the configured one
  library,     \* library row: scan started and not ended, full scan in progress
  running,     \* the flag behind lockScan
  routine,     \* goroutines that call ScanFolders
  initial,     \* runInitialScan: its place and what it read
  events,      \* file system events on their way to the watcher
  notify,      \* watcherNotify, a channel of one
  targets,     \* the watcher's folders to scan
  timer,       \* the watcher's trigger is armed
  noticed,     \* history: a change was noticed and not yet read
  lost,        \* history: noticed, and nobody is left to see to it
  old,         \* history: not read by a full scan since one became necessary
  changes, requests, faults, crashes

disk == <<events, changes>>
store == <<migration, pidChanged, library>>
watch == <<notify, targets, timer>>
history == <<noticed, lost, old>>
vars == <<selective, disk, store, running, routine, initial, watch, history,
          requests, faults, crashes>>

\* A goroutine between its call of ScanFolders and the return.  "wants" are
\* the folders it was called for, "todo" those the scan has still to read.
Routine ==
  [pc: {"idle", "request", "begin", "read", "release"},
   full: BOOLEAN, targets: SUBSET Folders, wants: SUBSET Folders,
   todo: SUBSET Folders]

Idle == [pc |-> "idle", full |-> FALSE, targets |-> {}, wants |-> {},
         todo |-> {}]

Call(full, tgs, wants) ==
  [pc |-> "request", full |-> full, targets |-> tgs, wants |-> wants,
   todo |-> {}]

\* The folders of a scan: all of them without targets.
Scope(r) == IF r.targets = {} THEN Folders ELSE r.targets

AtStart == [pc |-> "check", full |-> FALSE]

Init ==
  /\ selective \in Modes
  /\ \E u \in Upgrades : migration = u[1] /\ pidChanged = u[2]
  /\ library = [started |-> FALSE, full |-> FALSE]
  /\ running = FALSE
  /\ routine = [g \in Goroutines |-> Idle]
  /\ initial = AtStart
  /\ events = <<>>
  /\ notify = None
  /\ targets = {}
  /\ timer = FALSE
  /\ noticed = {} /\ lost = {}
  /\ old = IF migration \/ pidChanged THEN Folders ELSE {}
  /\ changes = 0 /\ requests = 0 /\ faults = 0 /\ crashes = 0

-------------------------------------------------------------------------------
(* Calls of ScanFolders                                                    *)

\* The start of a goroutine, if the model has one left.
Spawn(call) ==
  \E g \in Goroutines :
    /\ routine[g].pc = "idle"
    /\ routine' = [routine EXCEPT ![g] = call]

\* A request of the API, the schedule or a signal.
Ask ==
  /\ requests < MaxRequests
  /\ requests' = requests + 1
  /\ \E r \in Requests : Spawn(Call(r[1], r[2], {}))
  /\ UNCHANGED <<selective, disk, store, running, initial, watch, history,
                 faults, crashes>>

\* A download into f is over and asks for a scan of everything.
Download(f) ==
  /\ requests < MaxRequests
  /\ requests' = requests + 1
  /\ Spawn(Call(FALSE, {}, {f}))
  /\ noticed' = noticed \cup {f}
  /\ lost' = lost \ {f}
  /\ UNCHANGED <<selective, disk, store, running, initial, watch, old, faults,
                 crashes>>

\* A bug: the flag is set and not compared.
LockScanBug(g) ==
  /\ routine[g].pc = "request"
  /\ running' = TRUE
  /\ routine' = [routine EXCEPT ![g].pc = "begin"]
  /\ UNCHANGED <<selective, disk, store, initial, watch, history, requests,
                 faults, crashes>>

LockScan(g) ==
  /\ routine[g].pc = "request"
  /\ ~running
  /\ running' = TRUE
  /\ routine' = [routine EXCEPT ![g].pc = "begin"]
  /\ UNCHANGED <<selective, disk, store, initial, watch, history, requests,
                 faults, crashes>>

\* What the running scan has still to read.
Ahead ==
  UNION {IF routine[h].pc = "begin" THEN Scope(routine[h]) ELSE routine[h].todo :
           h \in {k \in Goroutines : routine[k].pc \in {"begin", "read"}}}

\* ErrAlreadyScanning is logged, and that is all.
Refused(g) ==
  /\ routine[g].pc = "request"
  /\ running
  /\ routine' = [routine EXCEPT ![g] = Idle]
  /\ lost' = lost \cup ((routine[g].wants \cap noticed) \ Ahead)
  /\ UNCHANGED <<selective, disk, store, running, initial, watch, noticed, old,
                 requests, faults, crashes>>

\* scanFolders up to its phases: a full scan in progress is taken up, and a
\* library row whose scan has started stays as it is.
Begin(g) ==
  /\ routine[g].pc = "begin"
  /\ LET full == routine[g].full \/ library.full IN
       /\ routine' = [routine EXCEPT ![g].pc = "read", ![g].full = full,
                                     ![g].todo = Scope(routine[g])]
       /\ library' = IF library.started THEN library
                     ELSE [started |-> TRUE, full |-> full]
  /\ UNCHANGED <<selective, disk, migration, pidChanged, running, initial,
                 watch, history, requests, faults, crashes>>

ReadFolder(g, f) ==
  /\ routine[g].pc = "read"
  /\ f \in routine[g].todo
  /\ routine' = [routine EXCEPT ![g].todo = @ \ {f}]
  /\ noticed' = noticed \ {f}
  /\ lost' = lost \ {f}
  /\ old' = IF routine[g].full THEN old \ {f} ELSE old
  /\ UNCHANGED <<selective, disk, store, running, initial, watch, requests,
                 faults, crashes>>

\* runUpdateLibraries: ScanEnd, and the PID configuration is stored.
Finish(g) ==
  /\ routine[g].pc = "read"
  /\ routine[g].todo = {}
  /\ routine' = [routine EXCEPT ![g].pc = "release"]
  /\ library' = [started |-> FALSE, full |-> FALSE]
  /\ pidChanged' = FALSE
  /\ UNCHANGED <<selective, disk, migration, running, initial, watch, history,
                 requests, faults, crashes>>

\* A bug: an error returns before the flag is given back.
FailBug(g) ==
  /\ routine[g].pc \in {"begin", "read"}
  /\ faults < MaxFaults
  /\ faults' = faults + 1
  /\ routine' = [routine EXCEPT ![g] = Idle]
  /\ lost' = lost \cup (noticed \cap Ahead)
  /\ UNCHANGED <<selective, disk, store, running, initial, watch, noticed, old,
                 requests, crashes>>

\* The subprocess cannot be started or dies, or a phase returns an error; the
\* caller logs it.
Fail(g) ==
  /\ routine[g].pc \in {"begin", "read"}
  /\ faults < MaxFaults
  /\ faults' = faults + 1
  /\ routine' = [routine EXCEPT ![g].pc = "release", ![g].todo = {}]
  /\ lost' = lost \cup (noticed \cap Ahead)
  /\ UNCHANGED <<selective, disk, store, running, initial, watch, noticed, old,
                 requests, crashes>>

\* The deferred release, after the last progress event was forwarded.
Release(g) ==
  /\ routine[g].pc = "release"
  /\ running' = FALSE
  /\ routine' = [routine EXCEPT ![g] = Idle]
  /\ UNCHANGED <<selective, disk, store, initial, watch, history, requests,
                 faults, crashes>>

-------------------------------------------------------------------------------
(* runInitialScan                                                          *)

\* The folders the watcher's next scan is for.
Batch == IF selective THEN targets ELSE Folders

\* A folder that will be read for a notification, for a target with the
\* trigger armed, for a call or by the running scan.  Without
\* DevSelectiveWatcher any notification will do.
Awaited(f) ==
  \/ notify = f
  \/ ~selective /\ notify # None
  \/ timer /\ f \in Batch
  \/ \E g \in Goroutines : routine[g].pc = "request" /\ f \in routine[g].wants
  \/ f \in Ahead

\* When no scan is needed, what an earlier process had noticed is forgotten.
InitialCheck ==
  /\ initial.pc = "check"
  /\ IF ScanOnStartup \/ library.started \/ migration \/ pidChanged
     THEN /\ initial' = [pc |-> IF migration THEN "flag" ELSE "call",
                         full |-> migration \/ pidChanged]
          /\ UNCHANGED lost
     ELSE /\ initial' = [initial EXCEPT !.pc = "done"]
          /\ lost' = lost \cup {f \in noticed : ~Awaited(f)}
  /\ UNCHANGED <<selective, disk, store, running, routine, watch, noticed, old,
                 requests, faults, crashes>>

\* The flag is deleted before the scan is asked for.
InitialFlag ==
  /\ initial.pc = "flag"
  /\ migration' = FALSE
  /\ initial' = [initial EXCEPT !.pc = "call"]
  /\ UNCHANGED <<selective, disk, pidChanged, library, running, routine, watch,
                 history, requests, faults, crashes>>

InitialCall ==
  /\ initial.pc = "call"
  /\ Spawn(Call(initial.full, {}, Folders))
  /\ initial' = [initial EXCEPT !.pc = "done"]
  /\ UNCHANGED <<selective, disk, store, running, watch, history, requests,
                 faults, crashes>>

-------------------------------------------------------------------------------
(* The watcher                                                             *)

\* A change on disk.  The channels from the operating system to the watcher
\* are full at times, or its directory is not watched yet.
Change(f) ==
  /\ changes < MaxChanges
  /\ changes' = changes + 1
  /\ \/ Len(events) < Buffered /\ events' = Append(events, f)
     \/ UNCHANGED events
  /\ UNCHANGED <<selective, store, running, routine, initial, watch, history,
                 requests, faults, crashes>>

\* processLibraryEvents: the notification is dropped when one is pending.
Notice ==
  /\ events # <<>>
  /\ events' = Tail(events)
  /\ LET f == Head(events) IN
       /\ noticed' = noticed \cup {f}
       /\ IF notify = None
          THEN notify' = f /\ lost' = lost \ {f}
          ELSE /\ UNCHANGED notify
               /\ lost' = IF selective /\ notify # f THEN lost \cup {f}
                          ELSE lost \ {f}
  /\ UNCHANGED <<selective, changes, store, running, routine, initial, targets,
                 timer, old, requests, faults, crashes>>

\* A bug: the channel is polled, and its zero value taken for a folder.
CollectBug ==
  /\ targets' = targets \cup {notify}
  /\ timer' = TRUE
  /\ notify' = None
  /\ UNCHANGED <<selective, disk, store, running, routine, initial, history,
                 requests, faults, crashes>>

\* The watcher's loop takes a notification and starts to wait anew.
Collect ==
  /\ notify # None
  /\ targets' = targets \cup {notify}
  /\ timer' = TRUE
  /\ notify' = None
  /\ UNCHANGED <<selective, disk, store, running, routine, initial, history,
                 requests, faults, crashes>>

\* The trigger fires while no scan is running.
Trigger ==
  /\ timer
  /\ ~running
  /\ Spawn(Call(FALSE, IF selective THEN targets ELSE {}, Batch))
  /\ targets' = {}
  /\ timer' = FALSE
  /\ UNCHANGED <<selective, disk, store, running, initial, notify, history,
                 requests, faults, crashes>>

\* A bug: the targets are cleared whether a scan is running or not.
TriggerAgainBug ==
  /\ timer
  /\ running
  /\ targets' = {}
  /\ timer' = FALSE
  /\ UNCHANGED <<selective, disk, store, running, routine, initial, notify,
                 history, requests, faults, crashes>>

\* It fires while one is running: the trigger is armed again.
TriggerAgain ==
  /\ timer
  /\ running
  /\ timer' = TRUE
  /\ UNCHANGED <<selective, disk, store, running, routine, initial, notify,
                 targets, history, requests, faults, crashes>>

\* Status returns an error: the targets are kept and nothing is armed.
TriggerFails ==
  /\ timer
  /\ faults < MaxFaults
  /\ faults' = faults + 1
  /\ timer' = FALSE
  /\ lost' = lost \cup (Batch \cap noticed)
  /\ UNCHANGED <<selective, disk, store, running, routine, initial, notify,
                 targets, noticed, old, requests, crashes>>

-------------------------------------------------------------------------------
\* The process ends and is started again; the database is what is left.
Crash ==
  /\ crashes < MaxCrashes
  /\ crashes' = crashes + 1
  /\ running' = FALSE
  /\ routine' = [g \in Goroutines |-> Idle]
  /\ initial' = AtStart
  /\ events' = <<>>
  /\ notify' = None /\ targets' = {} /\ timer' = FALSE
  /\ UNCHANGED <<selective, changes, store, history, requests, faults>>

CallStep(g) ==
  \/ LockScan(g) \/ Refused(g) \/ Begin(g)
  \/ \E f \in Folders : ReadFolder(g, f)
  \/ Finish(g) \/ Fail(g) \/ Release(g)

InitialStep == InitialCheck \/ InitialFlag \/ InitialCall

WatcherStep == Collect \/ Trigger \/ TriggerAgain \/ TriggerFails

Next ==
  \/ Ask \/ \E f \in Folders : Download(f)
  \/ \E g \in Goroutines : CallStep(g)
  \/ InitialStep
  \/ \E f \in Folders : Change(f)
  \/ Notice \/ WatcherStep
  \/ Crash

Spec == Init /\ [][Next]_vars

\* Goroutines run on, notifications are taken, and an armed trigger fires.
\* Nothing is asked of users and the disk.
FairSpec ==
  /\ Spec
  /\ \A g \in Goroutines : WF_vars(CallStep(g))
  /\ WF_vars(InitialStep) /\ WF_vars(Collect) /\ WF_vars(Trigger)

-------------------------------------------------------------------------------
(* Properties                                                              *)

\* The values each variable takes.
TypeOK ==
  /\ selective \in BOOLEAN
  /\ migration \in BOOLEAN /\ pidChanged \in BOOLEAN
  /\ library \in [started: BOOLEAN, full: BOOLEAN]
  /\ running \in BOOLEAN
  /\ routine \in [Goroutines -> Routine]
  /\ initial \in [pc: {"check", "flag", "call", "done"}, full: BOOLEAN]
  /\ events \in Seq(Folders)
  /\ notify \in Folders \cup {None}
  /\ targets \subseteq Folders
  /\ timer \in BOOLEAN
  /\ noticed \subseteq Folders /\ lost \subseteq noticed
  /\ old \subseteq Folders
  /\ changes \in Nat /\ requests \in Nat /\ faults \in Nat /\ crashes \in Nat

Holds(g) == routine[g].pc \in {"begin", "read", "release"}

\* "There can be only one" (controller.go:258): no two scans at a time, and
\* Status and the watcher are told so while one runs.
OneScan ==
  /\ \A g, h \in Goroutines : Holds(g) /\ Holds(h) => g = h
  /\ \A g \in Goroutines : Holds(g) => running

\* Somebody is going to read f, if only the scan at start-up.
Attended(f) == Awaited(f) \/ initial.pc # "done"

\* A change that was noticed is seen to, unless its notification was dropped
\* for that of another folder, the call made for it was refused because of a
\* scan that will not read it, its scan or the watcher's query failed, or the
\* process was restarted and scans nothing at start-up.
NoticedIsAttended == \A f \in noticed \ lost : Attended(f)

\* And in the end it is read.
NoticedIsRead ==
  \A f \in Folders : (f \in noticed \ lost) ~> (f \notin noticed \/ f \in lost)

\* db/migrations/migration.go:22 - a migration that "requires a full rescan"
\* gets one: as long as a folder waits for it, the database remembers or the
\* scan is about to read it.
FullRescanRemembered ==
  old # {} =>
    \/ migration \/ pidChanged \/ library.full
    \/ initial.full /\ initial.pc # "done"
    \/ \E g \in Goroutines :
         routine[g].full /\ routine[g].pc \in {"request", "begin", "read"}
===============================================================================
