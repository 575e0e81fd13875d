-------------------------- MODULE ScanControlProofs --------------------------
(* Theorems about the control of scans, for any number of folders, callers *)
(* of ScanFolders, requests, changes on disk, failures and restarts.       *)
EXTENDS ScanControl, SequenceTheorems, TLAPS

-------------------------------------------------------------------------------
(* Type correctness                                                        *)

LEMMA RoutineTypes ==
  /\ Idle \in Routine /\ Idle.pc = "idle"
  /\ \A full \in BOOLEAN, tgs, wants \in SUBSET Folders :
       /\ Call(full, tgs, wants) \in Routine
       /\ Call(full, tgs, wants).pc = "request"
       /\ Call(full, tgs, wants).targets = tgs
       /\ Call(full, tgs, wants).wants = wants
BY DEF Idle, Call, Routine

\* What the watcher and a download ask for is no full scan.
LEMMA QuickCall ==
  ASSUME NEW tgs \in SUBSET Folders, NEW wants \in SUBSET Folders
  PROVE  /\ Call(FALSE, tgs, wants) \in Routine
         /\ Call(FALSE, tgs, wants).pc = "request"
         /\ Call(FALSE, tgs, wants).wants = wants
BY DEF Call, Routine

\* A goroutine that was not there runs, and the others are as they were.
LEMMA Spawned ==
  ASSUME NEW call \in Routine, Spawn(call), routine \in [Goroutines -> Routine]
  PROVE  /\ routine' \in [Goroutines -> Routine]
         /\ \E g \in Goroutines :
              /\ routine[g].pc = "idle"
              /\ routine'[g] = call
              /\ \A h \in Goroutines \ {g} : routine'[h] = routine[h]
BY DEF Spawn

\* What the steps of a call leave of its goroutine.
LEMMA RoutineSteps ==
  ASSUME NEW g \in Goroutines, routine \in [Goroutines -> Routine],
         NEW pc \in {"idle", "request", "begin", "read", "release"},
         NEW full \in BOOLEAN, NEW todo \in SUBSET Folders
  PROVE  /\ [routine EXCEPT ![g] = Idle] \in [Goroutines -> Routine]
         /\ [routine EXCEPT ![g].pc = pc] \in [Goroutines -> Routine]
         /\ [routine EXCEPT ![g].todo = todo] \in [Goroutines -> Routine]
         /\ [routine EXCEPT ![g].pc = pc, ![g].todo = todo]
              \in [Goroutines -> Routine]
         /\ [routine EXCEPT ![g].pc = pc, ![g].full = full, ![g].todo = todo]
              \in [Goroutines -> Routine]
<1>1. Idle \in Routine
  BY RoutineTypes
<1>2. routine[g] \in Routine
  OBVIOUS
<1> QED
  BY <1>1, <1>2 DEF Routine

LEMMA TypeInit == Init => TypeOK
<1> SUFFICES ASSUME Init PROVE TypeOK
  OBVIOUS
<1>1. Idle \in Routine
  BY RoutineTypes
<1>2. PICK u \in Upgrades : migration = u[1] /\ pidChanged = u[2]
  BY DEF Init
<1>3. migration \in BOOLEAN /\ pidChanged \in BOOLEAN
  BY <1>2, ControlAssumption
<1>4. routine \in [Goroutines -> Routine]
  BY <1>1 DEF Init
<1>5. library \in [started: BOOLEAN, full: BOOLEAN]
  BY DEF Init
<1>6. initial \in [pc: {"check", "flag", "call", "done"}, full: BOOLEAN]
  BY DEF Init, AtStart
<1>7. events \in Seq(Folders)
  BY EmptySeq DEF Init
<1>8. selective \in BOOLEAN
  BY ControlAssumption DEF Init
<1>9. running \in BOOLEAN /\ timer \in BOOLEAN
  BY DEF Init
<1>10. /\ notify \in Folders \cup {None} /\ targets \subseteq Folders
       /\ noticed \subseteq Folders /\ lost \subseteq noticed
       /\ changes \in Nat /\ requests \in Nat /\ faults \in Nat
       /\ crashes \in Nat
  BY DEF Init
<1>11. old \subseteq Folders
  BY DEF Init
<1> QED
  BY <1>3, <1>4, <1>5, <1>6, <1>7, <1>8, <1>9, <1>10, <1>11
  DEF TypeOK
LEMMA TypeStep == TypeOK /\ [Next]_vars => TypeOK'
<1> SUFFICES ASSUME TypeOK, [Next]_vars PROVE TypeOK'
  OBVIOUS
<1> USE DEF disk, store, watch, history
<1>0. /\ routine \in [Goroutines -> Routine]
      /\ \A g \in Goroutines : routine[g] \in Routine
      /\ \A g \in Goroutines : routine[g].todo \subseteq Folders
      /\ \A g \in Goroutines : routine[g].targets \subseteq Folders
      /\ \A g \in Goroutines : routine[g].full \in BOOLEAN
  BY DEF TypeOK, Routine
<1>1. CASE Ask
  <2>1. PICK r \in Requests : Spawn(Call(r[1], r[2], {}))
    BY <1>1 DEF Ask
  <2>2. Call(r[1], r[2], {}) \in Routine
    BY RoutineTypes, ControlAssumption
  <2>3. routine' \in [Goroutines -> Routine]
    BY <2>1, <2>2, <1>0, Spawned
  <2> QED
    BY <2>3, <1>1 DEF Ask, TypeOK
<1>2. ASSUME NEW f \in Folders, Download(f) PROVE TypeOK'
  <2>1. Spawn(Call(FALSE, {}, {f}))
    BY <1>2 DEF Download
  <2>2. Call(FALSE, {}, {f}) \in Routine
    BY {f} \in SUBSET Folders, {} \in SUBSET Folders, QuickCall
  <2>3. routine' \in [Goroutines -> Routine]
    BY <2>1, <2>2, <1>0, Spawned
  <2> QED
    BY <2>3, <1>2 DEF Download, TypeOK
<1>3. ASSUME NEW g \in Goroutines, CallStep(g) PROVE TypeOK'
  <2>1. CASE LockScan(g)
    BY <2>1, <1>0, RoutineSteps DEF LockScan, TypeOK
  <2>2. CASE Refused(g)
    BY <2>2, <1>0, RoutineSteps DEF Refused, TypeOK
  <2>3. CASE Begin(g)
    <3> DEFINE full == routine[g].full \/ library.full
    <3>1. full \in BOOLEAN /\ Scope(routine[g]) \subseteq Folders
      BY <1>0 DEF Scope, TypeOK
    <3>2. routine' = [routine EXCEPT ![g].pc = "read", ![g].full = full,
                                     ![g].todo = Scope(routine[g])]
      BY <2>3 DEF Begin
    <3>3. routine' \in [Goroutines -> Routine]
      BY <3>1, <3>2, <1>0, RoutineSteps
    <3>4. library' \in [started: BOOLEAN, full: BOOLEAN]
      BY <2>3, <3>1 DEF Begin, TypeOK
    <3> QED
      BY <3>3, <3>4, <2>3 DEF Begin, TypeOK
  <2>4. ASSUME NEW f \in Folders, ReadFolder(g, f) PROVE TypeOK'
    BY <2>4, <1>0, RoutineSteps DEF ReadFolder, TypeOK
  <2>5. CASE Finish(g)
    BY <2>5, <1>0, RoutineSteps DEF Finish, TypeOK
  <2>6. CASE Fail(g)
    <3>1. routine' \in [Goroutines -> Routine]
      BY <2>6, <1>0, RoutineSteps DEF Fail
    <3>2. noticed' \subseteq Folders /\ lost' \subseteq noticed'
      BY <2>6 DEF Fail, TypeOK
    <3>3. faults' \in Nat
      BY <2>6 DEF Fail, TypeOK
    <3> QED
      BY <3>1, <3>2, <3>3, <2>6 DEF Fail, TypeOK
  <2>7. CASE Release(g)
    BY <2>7, <1>0, RoutineSteps DEF Release, TypeOK
  <2> QED
    BY <1>3, <2>1, <2>2, <2>3, <2>4, <2>5, <2>6, <2>7 DEF CallStep
<1>4. CASE InitialCheck
  BY <1>4 DEF InitialCheck, TypeOK
<1>5. CASE InitialFlag
  BY <1>5 DEF InitialFlag, TypeOK
<1>6. CASE InitialCall
  <2>1. Call(initial.full, {}, Folders) \in Routine
    BY RoutineTypes DEF TypeOK
  <2>2. routine' \in [Goroutines -> Routine]
    BY <2>1, <1>6, <1>0, Spawned DEF InitialCall
  <2> QED
    BY <2>2, <1>6 DEF InitialCall, TypeOK
<1>7. ASSUME NEW f \in Folders, Change(f) PROVE TypeOK'
  BY <1>7, AppendProperties DEF Change, TypeOK
<1>8. CASE Notice
  <2>1. Head(events) \in Folders /\ Tail(events) \in Seq(Folders)
    BY <1>8, HeadTailProperties DEF Notice, TypeOK
  <2> QED
    BY <2>1, <1>8 DEF Notice, TypeOK
<1>9. CASE Collect
  BY <1>9 DEF Collect, TypeOK
<1>10. CASE Trigger
  <2> DEFINE call == Call(FALSE, IF selective THEN targets ELSE {}, Batch)
  <2>1. call \in Routine
    BY RoutineTypes DEF Batch, TypeOK
  <2>2. routine' \in [Goroutines -> Routine]
    BY <2>1, <1>10, <1>0, Spawned DEF Trigger
  <2> QED
    BY <2>2, <1>10 DEF Trigger, TypeOK
<1>11. CASE TriggerAgain
  BY <1>11 DEF TriggerAgain, TypeOK
<1>12. CASE TriggerFails
  <2>1. noticed' \subseteq Folders /\ lost' \subseteq noticed'
    BY <1>12 DEF TriggerFails, TypeOK
  <2>2. faults' \in Nat
    BY <1>12 DEF TriggerFails, TypeOK
  <2>3. timer' \in BOOLEAN
    BY <1>12 DEF TriggerFails
  <2> QED
    BY <2>1, <2>2, <2>3, <1>12 DEF TriggerFails, TypeOK
<1>13. CASE Crash
  <2>1. routine' \in [Goroutines -> Routine]
    BY <1>13, RoutineTypes DEF Crash
  <2>2. initial' \in [pc: {"check", "flag", "call", "done"}, full: BOOLEAN]
    BY <1>13 DEF Crash, AtStart
  <2>3. events' \in Seq(Folders)
    BY <1>13, EmptySeq DEF Crash
  <2>4. running' \in BOOLEAN /\ timer' \in BOOLEAN
    BY <1>13 DEF Crash
  <2>5. notify' \in Folders \cup {None} /\ targets' \subseteq Folders
        /\ crashes' \in Nat
    BY <1>13 DEF Crash, TypeOK
  <2> QED
    BY <2>1, <2>2, <2>3, <2>4, <2>5, <1>13 DEF Crash, TypeOK
<1>14. CASE UNCHANGED vars
  BY <1>14 DEF vars, TypeOK
<1> QED
  BY <1>1, <1>2, <1>3, <1>4, <1>5, <1>6, <1>7, <1>8, <1>9, <1>10, <1>11,
     <1>12, <1>13, <1>14 DEF Next, InitialStep, WatcherStep

\* Every variable keeps its type, and only what was noticed is lost.
THEOREM TypeCorrect == Spec => []TypeOK
<1> QED
  BY TypeInit, TypeStep, PTL DEF Spec

-------------------------------------------------------------------------------
(* One scan at a time                                                      *)

\* A call that was just made does not scan.
LEMMA SpawnedHolds ==
  ASSUME NEW call \in Routine, call.pc = "request", Spawn(call), TypeOK
  PROVE  \A g \in Goroutines : Holds(g)' => Holds(g)
BY Spawned DEF Holds, TypeOK

LEMMA FewerHold ==
  ASSUME OneScan, running' = running,
         \A g \in Goroutines : Holds(g)' => Holds(g)
  PROVE  OneScan'
BY DEF OneScan

\* The calls of ScanFolders the program makes.
LEMMA SpawnedCall ==
  ASSUME TypeOK,
         \/ Ask \/ InitialCall \/ Trigger
         \/ \E f \in Folders : Download(f)
  PROVE  \E call \in Routine : /\ call.pc = "request" /\ Spawn(call)
                              /\ call.wants \subseteq Scope(call)
<1> SUFFICES \E full \in BOOLEAN, tgs, wants \in SUBSET Folders :
               /\ Spawn(Call(full, tgs, wants))
               /\ wants \subseteq (IF tgs = {} THEN Folders ELSE tgs)
  BY RoutineTypes DEF Scope
<1>1. CASE Ask
  <2>1. PICK r \in Requests : Spawn(Call(r[1], r[2], {}))
    BY <1>1 DEF Ask
  <2>2. r[1] \in BOOLEAN /\ r[2] \in SUBSET Folders
    BY ControlAssumption
  <2> QED
    BY <2>1, <2>2
<1>2. ASSUME NEW f \in Folders, Download(f)
      PROVE  /\ Spawn(Call(FALSE, {}, {f}))
             /\ {f} \in SUBSET Folders
  BY <1>2 DEF Download
<1>3. CASE InitialCall
  <2>1. initial.full \in BOOLEAN /\ Spawn(Call(initial.full, {}, Folders))
    BY <1>3 DEF InitialCall, TypeOK
  <2> QED
    BY <2>1
<1>4. CASE Trigger
  <2> DEFINE tgs == IF selective THEN targets ELSE {}
  <2>1. Spawn(Call(FALSE, tgs, Batch))
    BY <1>4 DEF Trigger
  <2>2. /\ tgs \in SUBSET Folders /\ Batch \in SUBSET Folders
        /\ Batch \subseteq (IF tgs = {} THEN Folders ELSE tgs)
    BY DEF Batch, TypeOK
  <2> HIDE DEF tgs
  <2> QED
    BY <2>1, <2>2
<1> QED
  BY <1>1, <1>2, <1>3, <1>4

LEMMA OneScanStep == TypeOK /\ OneScan /\ [Next]_vars => OneScan'
<1> SUFFICES ASSUME TypeOK, OneScan, [Next]_vars PROVE OneScan'
  OBVIOUS
<1>0. routine \in [Goroutines -> Routine]
      /\ \A g \in Goroutines : routine[g] \in Routine
  BY DEF TypeOK
<1>1. CASE Ask \/ InitialCall \/ Trigger \/ \E f \in Folders : Download(f)
  <2>1. \A g \in Goroutines : Holds(g)' => Holds(g)
    BY <1>1, SpawnedCall, SpawnedHolds
  <2>2. running' = running
    BY <1>1 DEF Ask, InitialCall, Trigger, Download
  <2> QED
    BY <2>1, <2>2, FewerHold
<1>2. ASSUME NEW g \in Goroutines, CallStep(g) PROVE OneScan'
  <2>1. CASE LockScan(g)
    <3>1. ~running /\ running' /\ \A h \in Goroutines : ~Holds(h)
      BY <2>1 DEF LockScan, OneScan
    <3>2. \A h \in Goroutines \ {g} : routine'[h] = routine[h]
      BY <2>1, <1>0 DEF LockScan
    <3>3. \A h \in Goroutines : Holds(h)' => h = g
      BY <3>1, <3>2 DEF Holds
    <3> QED
      BY <3>1, <3>3 DEF OneScan
  <2>2. CASE Release(g)
    <3>1. \A h \in Goroutines : Holds(h) => h = g
      BY <2>2 DEF Release, OneScan, Holds
    <3>2. \A h \in Goroutines \ {g} : routine'[h] = routine[h]
      BY <2>2, <1>0 DEF Release
    <3>3. routine'[g] = Idle
      BY <2>2, <1>0 DEF Release
    <3>4. \A h \in Goroutines : ~Holds(h)'
      BY <3>1, <3>2, <3>3 DEF Holds, Idle
    <3> QED
      BY <3>4 DEF OneScan
  <2>3. CASE Refused(g)
    <3>1. \A h \in Goroutines \ {g} : routine'[h] = routine[h]
      BY <2>3, <1>0 DEF Refused
    <3>2. routine'[g] = Idle /\ running' = running
      BY <2>3, <1>0 DEF Refused
    <3> QED
      BY <3>1, <3>2, FewerHold DEF Holds, Idle
  <2>4. CASE \/ Begin(g) \/ Finish(g) \/ Fail(g)
             \/ \E f \in Folders : ReadFolder(g, f)
    <3>1. Holds(g) /\ running' = running
      BY <2>4 DEF Begin, Finish, Fail, ReadFolder, Holds
    <3>2. \A h \in Goroutines \ {g} : routine'[h] = routine[h]
      BY <2>4, <1>0 DEF Begin, Finish, Fail, ReadFolder
    <3>3. \A h \in Goroutines : Holds(h)' => Holds(h)
      BY <3>1, <3>2 DEF Holds
    <3> QED
      BY <3>1, <3>3, FewerHold
  <2> QED
    BY <1>2, <2>1, <2>2, <2>3, <2>4 DEF CallStep
<1>3. CASE Crash
  <2>1. \A g \in Goroutines : routine'[g].pc = "idle"
    BY <1>3, RoutineTypes DEF Crash
  <2> QED
    BY <2>1 DEF OneScan, Holds
<1>4. CASE \/ InitialCheck \/ InitialFlag \/ \E f \in Folders : Change(f)
           \/ Notice \/ Collect \/ TriggerAgain \/ TriggerFails
           \/ UNCHANGED vars
  <2>1. routine' = routine /\ running' = running
    BY <1>4 DEF InitialCheck, InitialFlag, Change, Notice, Collect,
                TriggerAgain, TriggerFails, vars
  <2> QED
    BY <2>1, FewerHold DEF Holds
<1> QED
  BY <1>1, <1>2, <1>3, <1>4 DEF Next, InitialStep, WatcherStep

\* "There can be only one" (controller.go:258): two goroutines never scan at
\* the same time, and the flag is up as long as one of them does.
THEOREM MutualExclusion == Spec => []OneScan
<1>1. Init => OneScan
  BY DEF Init, OneScan, Holds, Idle
<1> QED
  BY <1>1, TypeCorrect, OneScanStep, PTL DEF Spec

-------------------------------------------------------------------------------
(* What was noticed is seen to                                             *)

\* A call was made for f, or the scan that runs will read it.
Requested(f) ==
  \E g \in Goroutines : routine[g].pc = "request" /\ f \in routine[g].wants

Reads(f, g) ==
  \/ routine[g].pc = "begin" /\ f \in Scope(routine[g])
  \/ routine[g].pc = "read" /\ f \in routine[g].todo

Reading(f) == \E g \in Goroutines : Reads(f, g)

\* The watcher knows of f.
Watched(f) ==
  \/ notify = f
  \/ ~selective /\ notify # None
  \/ timer /\ f \in Batch

\* A scan reads the folders it was asked for.
CallsCover ==
  \A g \in Goroutines :
    routine[g].pc = "request" => routine[g].wants \subseteq Scope(routine[g])

LEMMA AheadIsReading ==
  /\ \A f : f \in Ahead <=> Reading(f)
  /\ \A f : f \in Ahead' <=> Reading(f)'
BY DEF Ahead, Reading, Reads

LEMMA AttendedParts ==
  /\ \A f : Attended(f) <=>
        Watched(f) \/ Requested(f) \/ Reading(f) \/ initial.pc # "done"
  /\ \A f : Attended(f)' <=>
        Watched(f)' \/ Requested(f)' \/ Reading(f)' \/ initial'.pc # "done"
BY AheadIsReading DEF Attended, Awaited, Watched, Requested

\* A call that is made takes nothing from the others.
LEMMA SpawnedKeeps ==
  ASSUME NEW call \in Routine, call.pc = "request", Spawn(call), TypeOK
  PROVE  /\ \A f : Requested(f) => Requested(f)'
         /\ \A f : Reading(f) => Reading(f)'
         /\ \A f \in call.wants : Requested(f)'
<1>1. PICK g \in Goroutines :
        /\ routine[g].pc = "idle"
        /\ routine'[g] = call
        /\ \A h \in Goroutines \ {g} : routine'[h] = routine[h]
  BY Spawned DEF TypeOK
<1> QED
  BY <1>1 DEF Requested, Reading, Reads, Scope

LEMMA CallsCoverStep ==
  TypeOK /\ CallsCover /\ [Next]_vars => CallsCover'
<1> SUFFICES ASSUME TypeOK, CallsCover, [Next]_vars PROVE CallsCover'
  OBVIOUS
<1>0. routine \in [Goroutines -> Routine]
  BY DEF TypeOK
<1>1. CASE Ask \/ InitialCall \/ Trigger \/ \E f \in Folders : Download(f)
  <2>1. PICK call \in Routine : /\ call.pc = "request" /\ Spawn(call)
                               /\ call.wants \subseteq Scope(call)
    BY <1>1, SpawnedCall
  <2>2. PICK g \in Goroutines :
          /\ routine'[g] = call
          /\ \A h \in Goroutines \ {g} : routine'[h] = routine[h]
    BY <2>1, <1>0, Spawned
  <2> QED
    BY <2>1, <2>2 DEF CallsCover, Scope
<1>2. ASSUME NEW g \in Goroutines, CallStep(g) PROVE CallsCover'
  <2>1. /\ routine'[g].pc # "request"
        /\ \A h \in Goroutines \ {g} : routine'[h] = routine[h]
    <3>1. CASE LockScan(g) \/ Finish(g) \/ Fail(g)
      BY <3>1, <1>0 DEF LockScan, Finish, Fail, Routine
    <3>2. CASE Refused(g) \/ Release(g)
      BY <3>2, <1>0 DEF Refused, Release, Idle
    <3>3. CASE Begin(g)
      BY <3>3, <1>0 DEF Begin, Routine
    <3>4. ASSUME NEW f \in Folders, ReadFolder(g, f)
          PROVE  /\ routine'[g].pc # "request"
                 /\ \A h \in Goroutines \ {g} : routine'[h] = routine[h]
      BY <3>4, <1>0 DEF ReadFolder, Routine
    <3> QED
      BY <1>2, <3>1, <3>2, <3>3, <3>4 DEF CallStep
  <2> QED
    BY <2>1 DEF CallsCover, Scope
<1>3. CASE Crash
  BY <1>3, RoutineTypes DEF Crash, CallsCover
<1>4. CASE \/ InitialCheck \/ InitialFlag \/ \E f \in Folders : Change(f)
           \/ Notice \/ Collect \/ TriggerAgain \/ TriggerFails
           \/ UNCHANGED vars
  <2>1. routine' = routine
    BY <1>4 DEF InitialCheck, InitialFlag, Change, Notice, Collect,
                TriggerAgain, TriggerFails, vars
  <2> QED
    BY <2>1 DEF CallsCover, Scope
<1> QED
  BY <1>1, <1>2, <1>3, <1>4 DEF Next, InitialStep, WatcherStep

\* A step of a call: what is asked for or read by others stays so, and of its
\* own folders f is read, lost or still to come.
LEMMA CallKeeps ==
  ASSUME TypeOK, CallsCover, NEW g \in Goroutines, CallStep(g),
         NEW f \in noticed' \ lost', f \in noticed \ lost,
         Requested(f) \/ Reading(f)
  PROVE  Requested(f)' \/ Reading(f)'
<1>0. routine \in [Goroutines -> Routine] /\ routine[g] \in Routine
  BY DEF TypeOK
<1>1. PICK h \in Goroutines :
        (routine[h].pc = "request" /\ f \in routine[h].wants) \/ Reads(f, h)
  BY DEF Requested, Reading
<1>2. CASE h # g
  <2>1. routine'[h] = routine[h]
    BY <1>0, <1>2 DEF CallStep, LockScan, Refused, Begin, ReadFolder, Finish,
                      Fail, Release
  <2> QED
    BY <1>1, <2>1 DEF Requested, Reading, Reads, Scope
<1>3. CASE h = g
  <2>1. CASE LockScan(g)
    <3>1. routine'[g] = [routine[g] EXCEPT !.pc = "begin"]
          /\ routine[g].pc = "request"
      BY <2>1, <1>0 DEF LockScan
    <3>2. f \in Scope(routine[g])
      BY <1>1, <1>3, <3>1 DEF Reads, CallsCover
    <3>3. routine'[g].pc = "begin" /\ routine'[g].targets = routine[g].targets
      BY <3>1, <1>0 DEF Routine
    <3> QED
      BY <3>2, <3>3 DEF Reading, Reads, Scope
  <2>2. CASE Refused(g)
    <3>1. f \in routine[g].wants /\ routine[g].pc = "request"
      BY <1>1, <1>3, <2>2 DEF Reads, Refused
    <3>2. f \in Ahead
      BY <3>1, <2>2 DEF Refused
    <3>3. PICK k \in Goroutines : Reads(f, k)
      BY <3>2, AheadIsReading DEF Reading
    <3>4. routine'[k] = routine[k]
      BY <3>1, <3>3, <2>2, <1>0 DEF Reads, Refused
    <3> QED
      BY <3>3, <3>4 DEF Reading, Reads, Scope
  <2>3. CASE Begin(g)
    <3>1. f \in Scope(routine[g])
      BY <1>1, <1>3, <2>3 DEF Reads, Begin
    <3>2. routine'[g].pc = "read" /\ routine'[g].todo = Scope(routine[g])
      BY <2>3, <1>0 DEF Begin, Routine
    <3> QED
      BY <3>1, <3>2 DEF Reading, Reads
  <2>4. ASSUME NEW e \in Folders, ReadFolder(g, e)
        PROVE  Requested(f)' \/ Reading(f)'
    <3>1. f \in routine[g].todo /\ f # e
      BY <1>1, <1>3, <2>4 DEF Reads, ReadFolder
    <3>2. routine'[g].pc = "read" /\ routine'[g].todo = routine[g].todo \ {e}
      BY <2>4, <1>0 DEF ReadFolder, Routine
    <3> QED
      BY <3>1, <3>2 DEF Reading, Reads
  <2>5. ~Finish(g)
    BY <1>1, <1>3 DEF Finish, Reads
  <2>6. ~Fail(g)
    <3>1. Fail(g) => f \notin Ahead /\ Reads(f, g)
      BY <1>1, <1>3 DEF Fail, Reads
    <3> QED
      BY <3>1, AheadIsReading DEF Reading
  <2>7. ~Release(g)
    BY <1>1, <1>3 DEF Release, Reads
  <2> QED
    BY <2>1, <2>2, <2>3, <2>4, <2>5, <2>6, <2>7 DEF CallStep
<1> QED
  BY <1>2, <1>3

LEMMA AttendedStep ==
  TypeOK /\ CallsCover /\ NoticedIsAttended /\ [Next]_vars
    => NoticedIsAttended'
<1> SUFFICES ASSUME TypeOK, CallsCover, NoticedIsAttended, [Next]_vars,
                    NEW f \in noticed' \ lost'
             PROVE  Attended(f)'
  BY DEF NoticedIsAttended
<1> USE DEF disk, store, watch, history
<1>0. f \in noticed \ lost => Attended(f)
  BY DEF NoticedIsAttended
<1>1. CASE Ask
  <2>1. \E call \in Routine : call.pc = "request" /\ Spawn(call)
    BY <1>1, SpawnedCall
  <2>2. (Requested(f) => Requested(f)') /\ (Reading(f) => Reading(f)')
    BY <2>1, SpawnedKeeps
  <2>3. /\ Watched(f)' = Watched(f) /\ initial' = initial
        /\ f \in noticed \ lost
    BY <1>1 DEF Ask, Watched, Batch
  <2> QED
    BY <1>0, <2>2, <2>3, AttendedParts
<1>2. ASSUME NEW e \in Folders, Download(e) PROVE Attended(f)'
  <2>1. /\ Call(FALSE, {}, {e}) \in Routine
        /\ Call(FALSE, {}, {e}).pc = "request"
        /\ Call(FALSE, {}, {e}).wants = {e}
    BY {e} \in SUBSET Folders, {} \in SUBSET Folders, QuickCall
  <2>2. /\ Requested(f) => Requested(f)'
        /\ Reading(f) => Reading(f)'
        /\ f = e => Requested(f)'
    BY <1>2, <2>1, SpawnedKeeps DEF Download
  <2>3. /\ Watched(f)' = Watched(f) /\ initial' = initial
        /\ f # e => f \in noticed \ lost
    BY <1>2 DEF Download, Watched, Batch
  <2> QED
    BY <1>0, <2>2, <2>3, AttendedParts
<1>3. ASSUME NEW g \in Goroutines, CallStep(g) PROVE Attended(f)'
  <2>1. /\ notify' = notify /\ selective' = selective /\ timer' = timer
        /\ targets' = targets /\ initial' = initial
    BY <1>3 DEF CallStep, LockScan, Refused, Begin, ReadFolder, Finish, Fail,
                Release
  <2>2. Watched(f)' = Watched(f)
    BY <2>1 DEF Watched, Batch
  <2>3. f \in noticed \ lost
    BY <1>3 DEF CallStep, LockScan, Refused, Begin, ReadFolder, Finish, Fail,
                Release
  <2>4. Requested(f) \/ Reading(f) => Requested(f)' \/ Reading(f)'
    BY <1>3, <2>3, CallKeeps
  <2> QED
    BY <1>0, <2>1, <2>2, <2>3, <2>4, AttendedParts
<1>4. CASE InitialCheck
  <2>1. /\ Watched(f)' = Watched(f) /\ Requested(f)' = Requested(f)
        /\ Reading(f)' = Reading(f)
    BY <1>4 DEF InitialCheck, Watched, Batch, Requested, Reading, Reads, Scope
  <2>2. initial'.pc # "done" \/ Awaited(f)
    BY <1>4 DEF InitialCheck, TypeOK
  <2>3. Awaited(f) => Watched(f) \/ Requested(f) \/ Reading(f)
    BY AheadIsReading DEF Awaited, Watched, Requested
  <2> QED
    BY <2>1, <2>2, <2>3, AttendedParts
<1>5. CASE InitialFlag
  <2>1. initial'.pc # "done"
    BY <1>5 DEF InitialFlag, TypeOK
  <2> QED
    BY <2>1, AttendedParts
<1>6. CASE InitialCall
  <2>1. Call(initial.full, {}, Folders) \in Routine
        /\ Call(initial.full, {}, Folders).pc = "request"
        /\ Call(initial.full, {}, Folders).wants = Folders
    BY RoutineTypes DEF TypeOK
  <2>2. f \in Folders
    BY <1>6 DEF InitialCall, TypeOK
  <2>3. Requested(f)'
    BY <1>6, <2>1, <2>2, SpawnedKeeps DEF InitialCall
  <2> QED
    BY <2>3, AttendedParts
<1>7. CASE Trigger
  <2> DEFINE call == Call(FALSE, IF selective THEN targets ELSE {}, Batch)
  <2>1. call \in Routine /\ call.pc = "request" /\ call.wants = Batch
    <3>1. (IF selective THEN targets ELSE {}) \in SUBSET Folders
          /\ Batch \in SUBSET Folders
      BY DEF Batch, TypeOK
    <3> QED
      BY <3>1, QuickCall
  <2> HIDE DEF call
  <2>2. Spawn(call)
    BY <1>7 DEF Trigger, call
  <2>3. /\ Requested(f) => Requested(f)'
        /\ Reading(f) => Reading(f)'
        /\ f \in Batch => Requested(f)'
    BY <2>1, <2>2, SpawnedKeeps
  <2>4. /\ notify' = notify /\ selective' = selective /\ initial' = initial
        /\ f \in noticed \ lost
    BY <1>7 DEF Trigger
  <2>5. Watched(f) => Watched(f)' \/ f \in Batch
    BY <2>4 DEF Watched
  <2> QED
    BY <1>0, <2>3, <2>4, <2>5, AttendedParts
<1>8. CASE Crash
  <2>1. initial'.pc # "done"
    BY <1>8 DEF Crash, AtStart
  <2> QED
    BY <2>1, AttendedParts
<1>9. CASE \/ \E e \in Folders : Change(e)
           \/ Notice \/ Collect \/ TriggerAgain \/ TriggerFails
           \/ UNCHANGED vars
  <2>1. /\ Requested(f)' = Requested(f) /\ Reading(f)' = Reading(f)
        /\ initial' = initial /\ selective' = selective
    <3>1. routine' = routine /\ initial' = initial /\ selective' = selective
      BY <1>9 DEF Change, Notice, Collect, TriggerAgain, TriggerFails, vars
    <3> QED
      BY <3>1 DEF Requested, Reading, Reads, Scope
  <2>2. f \in noticed \ lost /\ Watched(f) => Watched(f)'
    <3>1. CASE \/ \E e \in Folders : Change(e)
               \/ TriggerAgain \/ UNCHANGED vars
      BY <3>1, <2>1 DEF Change, TriggerAgain, vars, Watched, Batch
    <3>2. CASE Notice
      <4>1. f \in noticed => f # None
        BY ControlAssumption DEF TypeOK
      <4> QED
        BY <3>2, <2>1, <4>1 DEF Notice, Watched, Batch
    <3>3. CASE Collect
      BY <3>3, <2>1, ControlAssumption DEF Collect, Watched, Batch, TypeOK
    <3>4. CASE TriggerFails
      BY <3>4, <2>1 DEF TriggerFails, Watched, Batch
    <3> QED
      BY <1>9, <3>1, <3>2, <3>3, <3>4
  <2>3. f \in noticed \ lost \/ Watched(f)'
    <3>1. CASE Notice
      <4>1. events # <<>> /\ Head(events) \in Folders
        BY <3>1, HeadTailProperties DEF Notice, TypeOK
      <4> QED
        BY <3>1, <2>1, <4>1, ControlAssumption DEF Notice, Watched
    <3> QED
      BY <1>9, <3>1 DEF Change, Collect, TriggerAgain, TriggerFails, vars
  <2> QED
    BY <1>0, <2>1, <2>2, <2>3, AttendedParts
<1> QED
  BY <1>1, <1>2, <1>3, <1>4, <1>5, <1>6, <1>7, <1>8, <1>9
     DEF Next, InitialStep, WatcherStep

\* A change the watcher noticed or a download made is on somebody's way to
\* reading it, unless the watcher dropped it, the call made for it was refused
\* too late, or a failure or restart left it (watcher.go:82-110, 268-273,
\* controller.go:261-264).
THEOREM Attendance == Spec => []NoticedIsAttended
<1>1. Init => CallsCover /\ NoticedIsAttended
  BY DEF Init, CallsCover, NoticedIsAttended, Idle
<1> QED
  BY <1>1, TypeCorrect, CallsCoverStep, AttendedStep, PTL DEF Spec
===============================================================================
