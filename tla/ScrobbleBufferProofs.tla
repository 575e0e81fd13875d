------------------------- MODULE ScrobbleBufferProofs -------------------------
(* Theorems about the scrobble buffer, for any number of users, requests,  *)
(* workers, rows, failures, plugin changes and restarts.                   *)
EXTENDS ScrobbleBuffer, SequenceTheorems, TLAPS

USE DEF NoScrobbler

-------------------------------------------------------------------------------
(* Type correctness                                                        *)

LEMMA ConstantTypes ==
  /\ MaxWorkers \in Nat \ {0}
  /\ Builtin \in BOOLEAN
  /\ \A s \in Scrobble : s.user \in Users /\ s.track \in Tracks /\ s.time \in Nat
  /\ None \notin Users
BY ScrobbleAssumption DEF Scrobble

\* Inserting a row names it with the next number and leaves the others alone.
LEMMA InsertedRow ==
  ASSUME NEW s \in Scrobble, accepted \in Seq(Scrobble),
         accepted' = Append(accepted, s)
  PROVE  /\ accepted' \in Seq(Scrobble)
         /\ Len(accepted) \in Nat
         /\ Rows' = Rows \cup {Len(accepted) + 1}
         /\ Len(accepted) + 1 \notin Rows
         /\ \A i \in Rows : i \in Nat /\ i <= Len(accepted)
                            /\ accepted'[i] = accepted[i]
         /\ accepted'[Len(accepted) + 1] = s
<1>1. /\ accepted' \in Seq(Scrobble) /\ Len(accepted) \in Nat
      /\ Len(accepted') = Len(accepted) + 1
      /\ \A i \in 1 .. Len(accepted) : accepted'[i] = accepted[i]
      /\ accepted'[Len(accepted) + 1] = s
  BY AppendProperties, LenProperties
<1>2. Rows = 1 .. Len(accepted) /\ Rows' = 1 .. Len(accepted')
  BY <1>1, LenProperties DEF Rows
<1> QED
  BY <1>1, <1>2

LEMMA RowTypes ==
  ASSUME accepted \in Seq(Scrobble)
  PROVE  /\ \A i \in Rows : i \in Nat /\ i # 0
         /\ \A i \in Rows : accepted[i] \in Scrobble
         /\ \A i \in Rows : accepted[i].user \in Users /\ accepted[i].time \in Nat
<1>1. Rows = 1 .. Len(accepted) /\ Len(accepted) \in Nat
  BY LenProperties DEF Rows
<1>2. \A i \in Rows : accepted[i] \in Scrobble
  BY <1>1, ElementOfSeq
<1> QED
  BY <1>1, <1>2, ConstantTypes

\* The states a worker is created in and left in by a restart.
LEMMA NewWorkers ==
  /\ Off \in WorkerState /\ Started \in WorkerState
  /\ Off.pc = "off" /\ Started.pc = "users"
  /\ Started.cancelled = FALSE
  /\ WorkersAtStart \in [Workers -> WorkerState]
  /\ \A w \in Workers : WorkersAtStart[w].pc \in {"off", "users"}
<1>1. Off \in WorkerState /\ Off.pc = "off"
  BY DEF Off, WorkerState
<1>2. Started \in WorkerState /\ Started.pc = "users"
  BY DEF Started, Off, WorkerState
<1>3. Started.cancelled = FALSE
  BY DEF Started, Off
<1> QED
  BY <1>1, <1>2, <1>3 DEF WorkersAtStart

\* How a user's turn ends.
LEMMA EndOfTurn ==
  ASSUME NEW w \in Workers, NEW u \in Users,
         worker \in [Workers -> WorkerState],
         UserDone(w, u) \/ UserFails(w, u)
  PROVE  /\ worker' \in [Workers -> WorkerState]
         /\ worker'[w].pc = "next"
         /\ worker'[w].todo = worker[w].todo \ {u}
         /\ worker'[w].wake = worker[w].wake
         /\ worker'[w].timers = worker[w].timers
         /\ worker'[w].cancelled = worker[w].cancelled
         /\ \A v \in Workers \ {w} : worker'[v] = worker[v]
<1>1. /\ worker[w] \in WorkerState
      /\ worker[w].todo \ {u} \in SUBSET Users
  BY DEF WorkerState
<1>2. \A v \in Workers \ {w} : worker'[v] = worker[v]
  BY DEF UserDone, UserFails
<1>3. worker'[w] \in WorkerState
  BY <1>1 DEF UserDone, UserFails, WorkerState
<1>4. worker' \in [Workers -> WorkerState]
  BY <1>3 DEF UserDone, UserFails
<1>5. /\ worker'[w].pc = "next"
      /\ worker'[w].todo = worker[w].todo \ {u}
      /\ worker'[w].wake = worker[w].wake
      /\ worker'[w].timers = worker[w].timers
      /\ worker'[w].cancelled = worker[w].cancelled
  BY <1>1 DEF UserDone, UserFails, WorkerState
<1> QED
  BY <1>2, <1>4, <1>5

LEMMA FailedTurn ==
  ASSUME NEW w \in Workers, NEW u \in Users,
         worker \in [Workers -> WorkerState],
         UserFails(w, u)
  PROVE  worker'[w].result = FALSE
BY DEF UserFails, WorkerState

\* The parts of TypeOK that speak of a worker and of a request.
WorkersTyped ==
  /\ worker \in [Workers -> WorkerState]
  /\ \A w \in Workers :
       worker[w].pc \in {"load", "send", "dequeue"} =>
         worker[w].entry \in Rows /\ worker[w].user \in worker[w].todo

ClientsTyped ==
  /\ client \in [Clients -> ClientState]
  /\ \A c \in Clients :
       /\ client[c].pc # "idle" => client[c].play \in Scrobble
       /\ client[c].pc \in {"enqueue", "wake"} => client[c].scr \in Workers

LEMMA InitTypeOK == Init => TypeOK
<1> SUFFICES ASSUME Init PROVE TypeOK
  OBVIOUS
<1>1. accepted \in Seq(Scrobble) /\ Rows = {}
  BY EmptySeq DEF Init, Rows
<1>2. WorkersTyped
  BY NewWorkers DEF Init, WorkersTyped
<1>3. ClientsTyped
  BY DEF Init, ClientsTyped, ClientState, IdleClient
<1>4. current \in Workers \cup {0} /\ started \in Workers \cup {0}
  BY ConstantTypes DEF Init, Workers
<1>5. loaded \in BOOLEAN
  BY DEF Init
<1> QED
  BY <1>1, <1>2, <1>3, <1>4, <1>5 DEF Init, TypeOK, WorkersTyped, ClientsTyped

\* The play tracker's map and the workers it starts and stops.
LEMMA RefreshTypeOK ==
  ASSUME TypeOK, RefreshPluginScrobblers, UNCHANGED accepted
  PROVE  WorkersTyped' /\ current' \in Workers \cup {0}
                       /\ started' \in Workers \cup {0}
<1>1. CASE UNCHANGED <<worker, current, started>>
  BY <1>1 DEF TypeOK, WorkersTyped, Rows
<1>2. ASSUME started < MaxWorkers, started' = started + 1,
             current' = started + 1,
             worker' = [worker EXCEPT ![started + 1] = Started]
      PROVE  WorkersTyped' /\ current' \in Workers \cup {0}
                           /\ started' \in Workers \cup {0}
  <2>1. started + 1 \in Workers
    BY <1>2, ConstantTypes DEF TypeOK, Workers
  <2>2. worker' \in [Workers -> WorkerState]
    BY <1>2, <2>1, NewWorkers DEF TypeOK
  <2>3. \A w \in Workers : worker'[w].pc \in {"load", "send", "dequeue"} =>
          worker'[w].entry \in Rows /\ worker'[w].user \in worker'[w].todo
    BY <1>2, <2>1, NewWorkers DEF TypeOK
  <2> QED
    BY <1>2, <2>1, <2>2, <2>3 DEF WorkersTyped, Rows
<1>3. ASSUME current # 0,
             worker' = [worker EXCEPT ![current].cancelled = TRUE],
             current' = 0, UNCHANGED started
      PROVE  WorkersTyped' /\ current' \in Workers \cup {0}
                           /\ started' \in Workers \cup {0}
  <2>1. current \in Workers
    BY <1>3 DEF TypeOK
  <2>2. worker' \in [Workers -> WorkerState]
    BY <1>3, <2>1 DEF TypeOK, WorkerState
  <2>3. \A w \in Workers : /\ worker'[w].pc = worker[w].pc
                           /\ worker'[w].entry = worker[w].entry
                           /\ worker'[w].user = worker[w].user
                           /\ worker'[w].todo = worker[w].todo
    BY <1>3, <2>1 DEF TypeOK, WorkerState
  <2> QED
    BY <1>3, <2>2, <2>3 DEF TypeOK, WorkersTyped, Rows
<1> QED
  BY <1>1, <1>2, <1>3 DEF RefreshPluginScrobblers

LEMMA ClientTypeOK ==
  ASSUME TypeOK, NEW c \in Clients, ClientStep(c)
  PROVE  TypeOK'
<1> USE DEF tableVars, trackerVars, pluginVars, history
<1>0. client \in [Clients -> ClientState]
  BY DEF TypeOK
<1>1. CASE Submit(c)
  <2>1. ClientsTyped'
    <3>1. PICK s \in Scrobble :
            client' = [client EXCEPT ![c].pc = "refresh", ![c].play = s]
      BY <1>1 DEF Submit
    <3>2. client'[c] = [client[c] EXCEPT !.pc = "refresh", !.play = s]
      BY <1>0, <3>1
    <3>3. client'[c] \in ClientState /\ client'[c].pc = "refresh"
          /\ client'[c].play = s
      BY <1>0, <3>2 DEF ClientState
    <3>4. client' \in [Clients -> ClientState]
          /\ \A d \in Clients \ {c} : client'[d] = client[d]
      BY <1>0, <3>1, <3>3
    <3> QED
      BY <3>3, <3>4 DEF TypeOK, ClientsTyped
  <2> QED
    BY <1>1, <2>1 DEF Submit, TypeOK, ClientsTyped, Rows
<1>2. CASE Refresh(c)
  <2>1. ClientsTyped'
    BY <1>0, <1>2 DEF Refresh, TypeOK, ClientsTyped, ClientState
  <2>2. WorkersTyped' /\ current' \in Workers \cup {0} /\ started' \in Workers \cup {0}
    BY <1>2, RefreshTypeOK DEF Refresh
  <2> QED
    BY <1>2, <2>1, <2>2 DEF Refresh, TypeOK, ClientsTyped, WorkersTyped, Rows
<1>3. CASE Pick(c)
  <2>1. ClientsTyped'
    BY <1>0, <1>3 DEF Pick, TypeOK, ClientsTyped, ClientState, IdleClient
  <2> QED
    BY <1>3, <2>1 DEF Pick, TypeOK, ClientsTyped, Rows
<1>4. CASE Enqueue(c)
  <2>1. ClientsTyped'
    BY <1>0, <1>4 DEF Enqueue, TypeOK, ClientsTyped, ClientState
  <2>2. client[c].play \in Scrobble
    BY <1>4 DEF Enqueue, TypeOK
  <2>3. /\ accepted' \in Seq(Scrobble)
        /\ Rows' = Rows \cup {Len(accepted) + 1}
    BY <1>4, <2>2, InsertedRow DEF Enqueue, TypeOK
  <2>4. WorkersTyped'
    BY <1>4, <2>3 DEF Enqueue, TypeOK, WorkersTyped
  <2>5. buffer' \subseteq Rows' /\ stranded' \subseteq Rows'
    BY <1>4, <2>3 DEF Enqueue, TypeOK
  <2> QED
    BY <1>4, <2>1, <2>3, <2>4, <2>5 DEF Enqueue, TypeOK, ClientsTyped, WorkersTyped
<1>5. CASE EnqueueFails(c)
  <2>1. ClientsTyped'
    BY <1>0, <1>5 DEF EnqueueFails, TypeOK, ClientsTyped, ClientState, IdleClient
  <2>2. faults' \in Nat
    BY <1>5 DEF EnqueueFails, TypeOK
  <2> QED
    BY <1>5, <2>1, <2>2 DEF EnqueueFails, TypeOK, ClientsTyped, Rows
<1>6. CASE SendWakeSignal(c)
  <2>1. ClientsTyped'
    BY <1>0, <1>6 DEF SendWakeSignal, TypeOK, ClientsTyped, ClientState, IdleClient
  <2>2. client[c].scr \in Workers
    BY <1>6 DEF SendWakeSignal, TypeOK
  <2>3. worker' \in [Workers -> WorkerState]
    BY <1>6, <2>2 DEF SendWakeSignal, TypeOK, WorkerState
  <2>4. \A w \in Workers : /\ worker'[w].pc = worker[w].pc
                           /\ worker'[w].entry = worker[w].entry
                           /\ worker'[w].user = worker[w].user
                           /\ worker'[w].todo = worker[w].todo
    BY <1>6, <2>2 DEF SendWakeSignal, TypeOK, WorkerState
  <2>5. WorkersTyped'
    BY <1>6, <2>3, <2>4 DEF SendWakeSignal, TypeOK, WorkersTyped, Rows
  <2> QED
    BY <1>6, <2>1, <2>5 DEF SendWakeSignal, TypeOK, ClientsTyped, WorkersTyped, Rows
<1> QED
  BY <1>1, <1>2, <1>3, <1>4, <1>5, <1>6 DEF ClientStep

\* A worker whose record changes, the others' do not.
LEMMA OneWorkerMoves ==
  ASSUME TypeOK, NEW w \in Workers,
         worker' \in [Workers -> WorkerState],
         \A v \in Workers \ {w} : worker'[v] = worker[v],
         worker'[w].pc \in {"load", "send", "dequeue"} =>
           worker'[w].entry \in Rows /\ worker'[w].user \in worker'[w].todo,
         UNCHANGED accepted
  PROVE  WorkersTyped'
BY DEF TypeOK, WorkersTyped, Rows

LEMMA WorkerTypeOK ==
  ASSUME TypeOK, NEW w \in Workers, WorkerStep(w) \/ TimerFires(w)
  PROVE  TypeOK'
<1> USE DEF tableVars, trackerVars, pluginVars, history
<1>0. /\ worker \in [Workers -> WorkerState] /\ worker[w] \in WorkerState
      /\ worker[w].todo \in SUBSET Users
      /\ worker[w].pc \in {"load", "send", "dequeue"} =>
           /\ worker[w].entry \in Rows /\ worker[w].user \in worker[w].todo
           /\ worker[w].user \in Users
  BY DEF TypeOK, WorkerState
<1>1. QueryFails(w) => faults' \in Nat
  BY DEF QueryFails, TypeOK
<1>2. CASE ReadUsers(w)
  <2>1. {accepted[i].user : i \in buffer} \in SUBSET Users
    BY RowTypes DEF TypeOK
  <2>2. worker'[w] \in WorkerState /\ worker'[w].pc = "next"
    BY <1>0, <1>2, <2>1 DEF ReadUsers, WorkerState
  <2>3. worker' \in [Workers -> WorkerState]
        /\ \A v \in Workers \ {w} : worker'[v] = worker[v]
    BY <1>0, <1>2, <2>2 DEF ReadUsers
  <2>4. WorkersTyped'
    BY <1>2, <2>2, <2>3, OneWorkerMoves DEF ReadUsers
  <2> QED
    BY <1>2, <2>4 DEF ReadUsers, TypeOK, WorkersTyped, Rows
<1>3. CASE ReadUsersFails(w)
  <2>2. worker'[w] \in WorkerState /\ worker'[w].pc = "next"
    BY <1>0, <1>3 DEF ReadUsersFails, WorkerState
  <2>3. worker' \in [Workers -> WorkerState]
        /\ \A v \in Workers \ {w} : worker'[v] = worker[v]
    BY <1>0, <1>3, <2>2 DEF ReadUsersFails
  <2>4. WorkersTyped'
    BY <1>3, <2>2, <2>3, OneWorkerMoves DEF ReadUsersFails
  <2> QED
    BY <1>1, <1>3, <2>4 DEF ReadUsersFails, TypeOK, WorkersTyped, Rows
<1>4. CASE TakeNext(w)
  <2>1. PICK u \in InTurn(w) :
          \/ /\ \E i \in buffer :
                  worker' = [worker EXCEPT ![w].pc = "load", ![w].user = u,
                                           ![w].entry = i]
             /\ UNCHANGED faults
          \/ UserDone(w, u) /\ UNCHANGED faults
          \/ UserFails(w, u) /\ QueryFails(w)
    BY <1>4 DEF TakeNext
  <2>2. u \in worker[w].todo /\ u \in Users
    BY <1>0, <2>1 DEF InTurn
  <2>3. WorkersTyped'
    <3>1. ASSUME NEW i \in buffer,
                 worker' = [worker EXCEPT ![w].pc = "load", ![w].user = u,
                                          ![w].entry = i]
          PROVE  WorkersTyped'
      <4>1. i \in Rows /\ i \in Nat
        BY RowTypes DEF TypeOK
      <4>2. worker'[w] = [worker[w] EXCEPT !.pc = "load", !.user = u, !.entry = i]
        BY <1>0, <3>1
      <4>3. /\ worker'[w] \in WorkerState /\ worker'[w].entry = i
            /\ worker'[w].user = u /\ worker'[w].todo = worker[w].todo
        BY <1>0, <2>2, <4>1, <4>2 DEF WorkerState
      <4>4. worker' \in [Workers -> WorkerState]
            /\ \A v \in Workers \ {w} : worker'[v] = worker[v]
        BY <1>0, <3>1, <4>3
      <4> QED
        BY <1>4, <2>2, <4>1, <4>3, <4>4, OneWorkerMoves DEF TakeNext
    <3>2. ASSUME UserDone(w, u) \/ UserFails(w, u) PROVE WorkersTyped'
      BY <1>0, <1>4, <2>2, <3>2, EndOfTurn, OneWorkerMoves DEF TakeNext
    <3> QED
      BY <2>1, <3>1, <3>2
  <2>4. faults' \in Nat
    BY <1>1, <2>1 DEF TypeOK
  <2> QED
    BY <1>4, <2>3, <2>4 DEF TakeNext, TypeOK, WorkersTyped, Rows
<1>5. CASE Load(w)
  <2>1. WorkersTyped'
    <3>1. ASSUME worker' = [worker EXCEPT ![w].pc = "send", ![w].inst = turns]
          PROVE  WorkersTyped'
      <4>1. worker'[w] \in WorkerState /\ worker'[w].entry = worker[w].entry
            /\ worker'[w].user = worker[w].user
            /\ worker'[w].todo = worker[w].todo
        BY <1>0, <3>1 DEF WorkerState, TypeOK
      <4>2. worker' \in [Workers -> WorkerState]
            /\ \A v \in Workers \ {w} : worker'[v] = worker[v]
        BY <1>0, <3>1, <4>1
      <4> QED
        BY <1>0, <1>5, <4>1, <4>2, OneWorkerMoves DEF Load
    <3>2. ASSUME UserFails(w, worker[w].user) PROVE WorkersTyped'
      BY <1>0, <1>5, <3>2, EndOfTurn, OneWorkerMoves DEF Load
    <3> QED
      BY <1>5, <3>1, <3>2 DEF Load
  <2> QED
    BY <1>5, <2>1 DEF Load, TypeOK, WorkersTyped, Rows
\* Answers: the row in hand was once in the table, the user name is one or none.
<1>6. worker[w].pc = "send" =>
        <<worker[w].entry, Attributed(worker[w].entry)>> \in Rows \X (Users \cup {None})
  BY <1>0, RowTypes DEF Attributed, TypeOK
<1>7. ASSUME worker[w].pc = "send", worker' = [worker EXCEPT ![w].pc = "dequeue"],
             UNCHANGED accepted
      PROVE  WorkersTyped'
  <2>1. worker'[w] \in WorkerState /\ worker'[w].entry = worker[w].entry
        /\ worker'[w].user = worker[w].user /\ worker'[w].todo = worker[w].todo
    BY <1>0, <1>7 DEF WorkerState
  <2>2. worker' \in [Workers -> WorkerState]
        /\ \A v \in Workers \ {w} : worker'[v] = worker[v]
    BY <1>0, <1>7, <2>1
  <2> QED
    BY <1>0, <1>7, <2>1, <2>2, OneWorkerMoves
<1>8. CASE ServiceAnswers(w)
  <2>1. WorkersTyped'
    BY <1>7, <1>8 DEF ServiceAnswers
  <2>2. received' \subseteq Rows \X (Users \cup {None}) /\ answered' \subseteq Rows
    BY <1>0, <1>6, <1>8 DEF ServiceAnswers, TypeOK
  <2> QED
    BY <1>8, <2>1, <2>2 DEF ServiceAnswers, TypeOK, WorkersTyped, Rows
<1>9. CASE RetryLater(w)
  <2>1. WorkersTyped'
    BY <1>0, <1>9, EndOfTurn, OneWorkerMoves DEF RetryLater
  <2>2. received' \subseteq Rows \X (Users \cup {None}) /\ faults' \in Nat
    BY <1>0, <1>6, <1>9 DEF RetryLater, TypeOK
  <2> QED
    BY <1>9, <2>1, <2>2 DEF RetryLater, TypeOK, WorkersTyped, Rows
<1>10. CASE CallCutOff(w)
  <2>1. WorkersTyped'
    BY <1>7, <1>10 DEF CallCutOff
  <2>2. answered' \subseteq Rows
    BY <1>0, <1>10 DEF CallCutOff, TypeOK
  <2> QED
    BY <1>10, <2>1, <2>2 DEF CallCutOff, TypeOK, WorkersTyped, Rows
<1>11. CASE Dequeue(w)
  <2>1. WorkersTyped'
    <3>1. ASSUME worker' = [worker EXCEPT ![w].pc = "next", ![w].entry = 0]
          PROVE  WorkersTyped'
      <4>1. worker'[w] \in WorkerState /\ worker'[w].pc = "next"
        BY <1>0, <3>1 DEF WorkerState
      <4>2. worker' \in [Workers -> WorkerState]
            /\ \A v \in Workers \ {w} : worker'[v] = worker[v]
        BY <1>0, <3>1, <4>1
      <4> QED
        BY <1>11, <4>1, <4>2, OneWorkerMoves DEF Dequeue
    <3>2. ASSUME UserFails(w, worker[w].user) PROVE WorkersTyped'
      BY <1>0, <1>11, <3>2, EndOfTurn, OneWorkerMoves DEF Dequeue
    <3> QED
      BY <1>11, <3>1, <3>2 DEF Dequeue
  <2>2. faults' \in Nat /\ buffer' \subseteq Rows
    BY <1>1, <1>11 DEF Dequeue, TypeOK
  <2> QED
    BY <1>11, <2>1, <2>2 DEF Dequeue, TypeOK, WorkersTyped, Rows
<1>12. CASE EndOfPass(w) \/ WakeUp(w) \/ Exit(w)
  <2>1. worker'[w] \in WorkerState /\ worker'[w].pc \in {"wait", "users", "off"}
    BY <1>0, <1>12 DEF EndOfPass, WakeUp, Exit, WorkerState
  <2>2. worker' \in [Workers -> WorkerState]
        /\ \A v \in Workers \ {w} : worker'[v] = worker[v]
    BY <1>0, <1>12, <2>1 DEF EndOfPass, WakeUp, Exit
  <2>3. WorkersTyped'
    BY <1>12, <2>1, <2>2, OneWorkerMoves DEF EndOfPass, WakeUp, Exit
  <2> QED
    BY <1>12, <2>3 DEF EndOfPass, WakeUp, Exit, TypeOK, WorkersTyped, Rows
<1>13. CASE TimerFires(w)
  <2>1. worker'[w] \in WorkerState /\ worker'[w].entry = worker[w].entry
        /\ worker'[w].pc = worker[w].pc
        /\ worker'[w].user = worker[w].user /\ worker'[w].todo = worker[w].todo
    <3>1. worker[w].timers - 1 \in Nat
      BY <1>0, <1>13 DEF TimerFires, WorkerState
    <3>2. worker'[w] = [worker[w] EXCEPT !.timers = worker[w].timers - 1, !.wake = TRUE]
      BY <1>0, <1>13 DEF TimerFires
    <3> QED
      BY <1>0, <3>1, <3>2 DEF WorkerState
  <2>2. worker' \in [Workers -> WorkerState]
        /\ \A v \in Workers \ {w} : worker'[v] = worker[v]
    BY <1>0, <1>13, <2>1 DEF TimerFires
  <2>3. WorkersTyped'
    BY <1>0, <1>13, <2>1, <2>2, OneWorkerMoves DEF TimerFires
  <2> QED
    BY <1>13, <2>3 DEF TimerFires, TypeOK, WorkersTyped, Rows
<1> QED
  BY <1>2, <1>3, <1>4, <1>5, <1>8, <1>9, <1>10, <1>11, <1>12, <1>13 DEF WorkerStep

LEMMA SurroundingsTypeOK ==
  ASSUME TypeOK,
         PluginTurns \/ (\E t \in Tracks : TrackDeleted(t)) \/ Crash
         \/ UNCHANGED vars
  PROVE  TypeOK'
<1> USE DEF tableVars, trackerVars, pluginVars, history
<1>1. CASE PluginTurns
  BY <1>1 DEF PluginTurns, TypeOK, Rows
<1>2. CASE \E t \in Tracks : TrackDeleted(t)
  BY <1>2 DEF TrackDeleted, TypeOK, Rows
<1>3. CASE Crash
  <2>1. WorkersTyped'
    BY <1>3, NewWorkers DEF Crash, WorkersTyped
  <2>2. ClientsTyped'
    BY <1>3 DEF Crash, ClientsTyped, ClientState, IdleClient
  <2>3. current' \in Workers \cup {0} /\ started' \in Workers \cup {0}
    BY <1>3, ConstantTypes DEF Crash, Workers
  <2>4. loaded' \in BOOLEAN
    BY <1>3 DEF Crash, TypeOK
  <2>5. crashes' \in Nat
    BY <1>3 DEF Crash, TypeOK
  <2> QED
    BY <1>3, <2>1, <2>2, <2>3, <2>4, <2>5 DEF Crash, TypeOK, WorkersTyped, ClientsTyped, Rows
<1>4. CASE UNCHANGED vars
  BY <1>4 DEF vars, TypeOK, Rows
<1> QED
  BY <1>1, <1>2, <1>3, <1>4

LEMMA NowPlayingTypeOK ==
  ASSUME TypeOK, NowPlayingRefresh
  PROVE  TypeOK'
<1> USE DEF tableVars, trackerVars, pluginVars, history
<1>1. WorkersTyped' /\ current' \in Workers \cup {0} /\ started' \in Workers \cup {0}
  BY RefreshTypeOK DEF NowPlayingRefresh
<1> QED
  BY <1>1 DEF NowPlayingRefresh, TypeOK, WorkersTyped, Rows

\* Type correctness: whatever the interleaving of requests, workers, plugin
\* changes and restarts, a worker only holds rows that were in the table.
THEOREM TypeCorrect == Spec => []TypeOK
<1>1. Init => TypeOK
  BY InitTypeOK
<1>2. TypeOK /\ [Next]_vars => TypeOK'
  BY ClientTypeOK, NowPlayingTypeOK, WorkerTypeOK, SurroundingsTypeOK DEF Next
<1> QED
  BY <1>1, <1>2, PTL DEF Spec

-------------------------------------------------------------------------------
(* Order of delivery                                                       *)

Hand == {"load", "send", "dequeue"}

\* The strengthening of InOrder: the row a worker has in hand is due, even if
\* rows were added since it was read, and it is deleted only when answered.
OrderInv ==
  /\ \A w \in Workers : worker[w].pc \in Hand =>
       \A i \in buffer : ~Delivery!Earlier(i, worker[w].entry)
  /\ \A w \in Workers : worker[w].pc = "dequeue" => worker[w].entry \in answered
  /\ InOrder

\* A row in hand was in hand before, or is due.
EntriesKept ==
  \A v \in Workers : worker'[v].pc \in Hand =>
    \/ /\ worker[v].pc \in Hand /\ worker'[v].entry = worker[v].entry
       /\ worker'[v].pc = "dequeue" =>
            worker[v].pc = "dequeue" \/ worker[v].entry \in answered'
    \/ /\ worker'[v].pc = "load"
       /\ \A i \in buffer : ~Delivery!Earlier(i, worker'[v].entry)

\* What keeps the order: no row is added, rows in hand are kept or are due,
\* and only rows in hand are sent.
LEMMA OrderKept ==
  ASSUME TypeOK, OrderInv, accepted' = accepted, buffer' \subseteq buffer,
         answered \subseteq answered', EntriesKept,
         \A r \in received' : \/ r \in received
                              \/ \E v \in Workers : worker[v].pc = "send"
                                                    /\ r[1] = worker[v].entry
  PROVE  OrderInv'
<1>1. ASSUME NEW v \in Workers, worker'[v].pc \in Hand, NEW i \in buffer'
      PROVE  ~Delivery!Earlier(i, worker[v].entry)'
  <2>1. PICK j : j = worker'[v].entry
    OBVIOUS
  <2>2. ~Delivery!Earlier(i, j)
    BY <1>1, <2>1 DEF OrderInv, EntriesKept
  <2> QED
    BY <2>1, <2>2 DEF Delivery!Earlier
<1>2. ASSUME NEW v \in Workers, worker'[v].pc = "dequeue"
      PROVE  worker'[v].entry \in answered'
  BY <1>2 DEF OrderInv, EntriesKept, Hand
<1>3. ASSUME NEW r \in received', NEW i \in buffer'
      PROVE  ~Delivery!Earlier(i, r[1])'
  <2>1. ~Delivery!Earlier(i, r[1])
    BY <1>3 DEF OrderInv, InOrder, Sent, Hand
  <2> QED
    BY <2>1 DEF Delivery!Earlier
<1> QED
  BY <1>1, <1>2, <1>3 DEF OrderInv, InOrder, Sent

LEMMA InitOrder == Init => OrderInv
BY NewWorkers DEF Init, OrderInv, InOrder, Hand

LEMMA RefreshOrder ==
  ASSUME TypeOK, RefreshPluginScrobblers
  PROVE  EntriesKept
<1>1. CASE UNCHANGED <<worker, current, started>>
  BY <1>1 DEF EntriesKept
<1>2. ASSUME worker' = [worker EXCEPT ![started + 1] = Started]
      PROVE  EntriesKept
  <2>1. \A v \in Workers : worker'[v] = worker[v] \/ worker'[v] = Started
    BY <1>2 DEF TypeOK
  <2> QED
    BY <2>1, NewWorkers DEF EntriesKept, Hand
<1>3. ASSUME worker' = [worker EXCEPT ![current].cancelled = TRUE]
      PROVE  EntriesKept
  <2>1. \A v \in Workers : /\ worker'[v].pc = worker[v].pc
                           /\ worker'[v].entry = worker[v].entry
    BY <1>3 DEF TypeOK, WorkerState
  <2> QED
    BY <2>1 DEF EntriesKept
<1> QED
  BY <1>1, <1>2, <1>3 DEF RefreshPluginScrobblers

LEMMA ClientOrder ==
  ASSUME TypeOK, OrderInv, NEW c \in Clients, ClientStep(c)
  PROVE  OrderInv'
<1> USE DEF tableVars, trackerVars, pluginVars, history
<1>1. CASE Submit(c) \/ Pick(c) \/ EnqueueFails(c)
  <2>1. EntriesKept /\ UNCHANGED <<accepted, buffer, answered, received>>
    BY <1>1 DEF Submit, Pick, EnqueueFails, EntriesKept
  <2> QED
    BY <2>1, OrderKept
<1>2. CASE Refresh(c)
  <2>1. EntriesKept /\ UNCHANGED <<accepted, buffer, answered, received>>
    BY <1>2, RefreshOrder DEF Refresh
  <2> QED
    BY <2>1, OrderKept
\* The new row has the highest number: it comes before none that was taken.
<1>3. CASE Enqueue(c)
  <2>1. client[c].play \in Scrobble
    BY <1>3 DEF Enqueue, TypeOK
  <2>2. /\ buffer' = buffer \cup {Len(accepted) + 1}
        /\ Len(accepted) \in Nat
        /\ \A i \in Rows : i \in Nat /\ i <= Len(accepted)
                           /\ accepted'[i] = accepted[i]
    BY <1>3, <2>1, InsertedRow DEF Enqueue, TypeOK
  <2>3. ASSUME NEW j \in Rows, \A i \in buffer : ~Delivery!Earlier(i, j)
        PROVE  \A i \in buffer' : ~Delivery!Earlier(i, j)'
    <3>1. ASSUME NEW i \in buffer PROVE ~Delivery!Earlier(i, j)'
      BY <2>2, <2>3, <3>1 DEF TypeOK, Delivery!Earlier
    <3>2. ~(Len(accepted) + 1 < j)
      BY <2>2
    <3> QED
      BY <2>2, <3>1, <3>2 DEF Delivery!Earlier
  <2>4. UNCHANGED <<worker, answered, received>>
    BY <1>3 DEF Enqueue
  <2>5. \A w \in Workers : worker[w].pc \in Hand => worker[w].entry \in Rows
    BY DEF TypeOK, Hand
  <2>6. \A j \in Sent : j \in Rows
    BY DEF TypeOK, Sent
  <2> QED
    BY <2>3, <2>4, <2>5, <2>6 DEF OrderInv, InOrder, Sent
<1>4. CASE SendWakeSignal(c)
  <2>1. \A v \in Workers : /\ worker'[v].pc = worker[v].pc
                           /\ worker'[v].entry = worker[v].entry
    BY <1>4 DEF SendWakeSignal, TypeOK, WorkerState
  <2>2. EntriesKept /\ UNCHANGED <<accepted, buffer, answered, received>>
    BY <1>4, <2>1 DEF SendWakeSignal, EntriesKept
  <2> QED
    BY <2>2, OrderKept
<1> QED
  BY <1>1, <1>2, <1>3, <1>4 DEF ClientStep

\* The row Next selects is due: none of the user's rows is older.
LEMMA NextIsDue ==
  ASSUME TypeOK, NEW u, NEW i \in buffer, IsNext(i, u)
  PROVE  \A j \in buffer : ~Delivery!Earlier(j, i)
<1> SUFFICES ASSUME NEW j \in buffer, Delivery!Earlier(j, i) PROVE FALSE
  OBVIOUS
<1>1. accepted[j].user = u /\ j < i /\ accepted[j].time <= accepted[i].time
  BY DEF IsNext, Delivery!Earlier
<1>2. \/ accepted[i].time < accepted[j].time
      \/ accepted[i].time = accepted[j].time /\ i <= j
  BY <1>1 DEF IsNext
<1>3. /\ accepted[i].time \in Nat /\ accepted[j].time \in Nat
      /\ i \in Nat /\ j \in Nat
  BY RowTypes DEF TypeOK
<1> QED
  BY <1>1, <1>2, <1>3

LEMMA WorkerOrder ==
  ASSUME TypeOK, OrderInv, NEW w \in Workers, WorkerStep(w) \/ TimerFires(w)
  PROVE  OrderInv'
<1> USE DEF tableVars, trackerVars, pluginVars, history
<1>0. /\ worker \in [Workers -> WorkerState] /\ worker[w] \in WorkerState
      /\ worker[w].pc \in Hand => worker[w].user \in Users
  BY DEF TypeOK, WorkerState, Hand
<1>1. ASSUME NEW u \in Users, UserDone(w, u) \/ UserFails(w, u)
      PROVE  EntriesKept
  BY <1>0, <1>1, EndOfTurn DEF EntriesKept, Hand
<1>2. CASE ReadUsers(w) \/ ReadUsersFails(w) \/ EndOfPass(w) \/ WakeUp(w) \/ Exit(w)
  <2>1. worker'[w].pc \notin Hand /\ \A v \in Workers \ {w} : worker'[v] = worker[v]
    <3>1. worker'[w].pc \in {"next", "wait", "users", "off"}
      <4>1. CASE ReadUsers(w)
        BY <1>0, <4>1 DEF ReadUsers, WorkerState
      <4>2. CASE ReadUsersFails(w)
        BY <1>0, <4>2 DEF ReadUsersFails, WorkerState
      <4>3. CASE EndOfPass(w)
        BY <1>0, <4>3 DEF EndOfPass, WorkerState
      <4>4. CASE WakeUp(w) \/ Exit(w)
        BY <1>0, <4>4 DEF WakeUp, Exit, WorkerState
      <4> QED
        BY <1>2, <4>1, <4>2, <4>3, <4>4
    <3>2. \A v \in Workers \ {w} : worker'[v] = worker[v]
      BY <1>0, <1>2 DEF ReadUsers, ReadUsersFails, EndOfPass, WakeUp, Exit
    <3> QED
      BY <3>1, <3>2 DEF Hand
  <2>2. EntriesKept /\ UNCHANGED <<accepted, buffer, answered, received>>
    BY <1>2, <2>1 DEF ReadUsers, ReadUsersFails, EndOfPass, WakeUp, Exit, EntriesKept
  <2> QED
    BY <2>2, OrderKept
<1>3. CASE TakeNext(w)
  <2>1. UNCHANGED <<accepted, buffer, answered, received>>
    BY <1>3 DEF TakeNext
  <2>2. PICK u \in worker[w].todo :
          \/ \E i \in buffer :
               /\ IsNext(i, u)
               /\ worker' = [worker EXCEPT ![w].pc = "load", ![w].user = u,
                                           ![w].entry = i]
          \/ UserDone(w, u) \/ UserFails(w, u)
    BY <1>3 DEF TakeNext, InTurn
  <2>3. ASSUME NEW i \in buffer, IsNext(i, u),
               worker' = [worker EXCEPT ![w].pc = "load", ![w].user = u,
                                        ![w].entry = i]
        PROVE  OrderInv'
    <3>1. worker'[w].pc = "load" /\ worker'[w].entry = i
          /\ \A v \in Workers \ {w} : worker'[v] = worker[v]
      BY <1>0, <2>3 DEF WorkerState
    <3>2. \A j \in buffer : ~Delivery!Earlier(j, i)
      BY <2>3, NextIsDue
    <3>3. EntriesKept
      BY <3>1, <3>2 DEF EntriesKept
    <3> QED
      BY <2>1, <3>3, OrderKept
  <2>4. ASSUME UserDone(w, u) \/ UserFails(w, u) PROVE OrderInv'
    <3>1. u \in Users
      BY <1>0, <2>2 DEF WorkerState
    <3> QED
      BY <1>1, <2>1, <2>4, <3>1, OrderKept
  <2> QED
    BY <2>2, <2>3, <2>4
<1>4. CASE Load(w)
  <2>1. UNCHANGED <<accepted, buffer, answered, received>>
    BY <1>4 DEF Load
  <2>2. CASE worker' = [worker EXCEPT ![w].pc = "send", ![w].inst = turns]
    <3>1. /\ worker'[w].pc = "send" /\ worker'[w].entry = worker[w].entry
          /\ worker[w].pc = "load"
          /\ \A v \in Workers \ {w} : worker'[v] = worker[v]
      BY <1>0, <1>4, <2>2 DEF Load, WorkerState
    <3>2. EntriesKept
      BY <3>1 DEF EntriesKept, Hand
    <3> QED
      BY <2>1, <3>2, OrderKept
  <2>3. CASE UserFails(w, worker[w].user)
    <3>1. worker[w].user \in Users
      BY <1>0, <1>4 DEF Load, Hand
    <3> QED
      BY <1>1, <2>1, <2>3, <3>1, OrderKept
  <2> QED
    BY <1>4, <2>2, <2>3 DEF Load
<1>5. CASE ServiceAnswers(w) \/ CallCutOff(w)
  <2>1. /\ worker[w].pc = "send" /\ worker'[w].pc = "dequeue"
        /\ worker'[w].entry = worker[w].entry
        /\ \A v \in Workers \ {w} : worker'[v] = worker[v]
    BY <1>0, <1>5 DEF ServiceAnswers, CallCutOff, WorkerState
  <2>2. answered' = answered \cup {worker[w].entry}
    BY <1>5 DEF ServiceAnswers, CallCutOff
  <2>3. EntriesKept
    BY <2>1, <2>2 DEF EntriesKept, Hand
  <2>4. UNCHANGED <<accepted, buffer>>
    BY <1>5 DEF ServiceAnswers, CallCutOff
  <2>5. \A r \in received' : r \in received \/ r[1] = worker[w].entry
    BY <1>5 DEF ServiceAnswers, CallCutOff
  <2> QED
    BY <2>1, <2>2, <2>3, <2>4, <2>5, OrderKept
<1>6. CASE RetryLater(w)
  <2>1. worker[w].pc = "send" /\ worker[w].user \in Users
    BY <1>0, <1>6 DEF RetryLater, Hand
  <2>2. EntriesKept
    BY <1>1, <1>6, <2>1 DEF RetryLater
  <2>3. UNCHANGED <<accepted, buffer, answered>>
    BY <1>6 DEF RetryLater
  <2>4. \A r \in received' : r \in received \/ r[1] = worker[w].entry
    BY <1>6 DEF RetryLater
  <2> QED
    BY <2>1, <2>2, <2>3, <2>4, OrderKept
<1>7. CASE Dequeue(w)
  <2>1. UNCHANGED <<accepted, answered, received>> /\ buffer' \subseteq buffer
    BY <1>7 DEF Dequeue
  <2>2. CASE worker' = [worker EXCEPT ![w].pc = "next", ![w].entry = 0]
    <3>1. worker'[w].pc = "next" /\ \A v \in Workers \ {w} : worker'[v] = worker[v]
      BY <1>0, <2>2 DEF WorkerState
    <3>2. EntriesKept
      BY <3>1 DEF EntriesKept, Hand
    <3> QED
      BY <2>1, <3>2, OrderKept
  <2>3. CASE UserFails(w, worker[w].user)
    <3>1. worker[w].user \in Users
      BY <1>0, <1>7 DEF Dequeue, Hand
    <3> QED
      BY <1>1, <2>1, <2>3, <3>1, OrderKept
  <2> QED
    BY <1>7, <2>2, <2>3 DEF Dequeue
<1>8. CASE TimerFires(w)
  <2>1. \A v \in Workers : worker'[v].pc = worker[v].pc
                           /\ worker'[v].entry = worker[v].entry
    BY <1>0, <1>8 DEF TimerFires, WorkerState
  <2>2. EntriesKept /\ UNCHANGED <<accepted, buffer, answered, received>>
    BY <1>8, <2>1 DEF TimerFires, EntriesKept
  <2> QED
    BY <2>2, OrderKept
<1> QED
  BY <1>2, <1>3, <1>4, <1>5, <1>6, <1>7, <1>8 DEF WorkerStep

LEMMA SurroundingsOrder ==
  ASSUME TypeOK, OrderInv,
         NowPlayingRefresh \/ PluginTurns \/ (\E t \in Tracks : TrackDeleted(t))
         \/ Crash \/ UNCHANGED vars
  PROVE  OrderInv'
<1> USE DEF tableVars, trackerVars, pluginVars, history
<1>1. EntriesKept
  <2>1. CASE NowPlayingRefresh
    BY <2>1, RefreshOrder DEF NowPlayingRefresh
  <2>2. CASE PluginTurns \/ (\E t \in Tracks : TrackDeleted(t)) \/ UNCHANGED vars
    BY <2>2 DEF PluginTurns, TrackDeleted, vars, EntriesKept
  <2>3. CASE Crash
    BY <2>3, NewWorkers DEF Crash, EntriesKept, Hand
  <2> QED
    BY <2>1, <2>2, <2>3
<1>2. UNCHANGED <<accepted, answered, received>> /\ buffer' \subseteq buffer
  BY DEF NowPlayingRefresh, PluginTurns, TrackDeleted, Crash, vars
<1> QED
  BY <1>1, <1>2, OrderKept

LEMMA OrderInvariant == Spec => []OrderInv
<1>1. Init => OrderInv
  BY InitOrder
<1>2. TypeOK /\ OrderInv /\ [Next]_vars => OrderInv'
  BY ClientOrder, WorkerOrder, SurroundingsOrder DEF Next
<1> QED
  BY <1>1, <1>2, TypeCorrect, PTL DEF Spec

\* The service sees a user's scrobbles in the order in which they were played
\* and accepted, through every retry, restart and change of workers.
THEOREM DeliveredInOrder == Spec => []InOrder
<1>1. OrderInv => InOrder
  BY DEF OrderInv
<1> QED
  BY <1>1, OrderInvariant, PTL

-------------------------------------------------------------------------------
(* The buffer implements the delivery it promises                          *)

LEMMA ClientDelivers ==
  ASSUME TypeOK, NEW c \in Clients, ClientStep(c)
  PROVE  [Delivery!Next]_<<accepted, buffer, answered>>
<1> USE DEF tableVars, trackerVars, pluginVars, history
<1>1. CASE Enqueue(c)
  <2>1. client[c].play \in Scrobble
    BY <1>1 DEF Enqueue, TypeOK
  <2>2. client[c].play \in Delivery!Scrobble
    BY <2>1 DEF Scrobble, Delivery!Scrobble
  <2>3. Delivery!Accept(client[c].play)
    BY <1>1 DEF Enqueue, Delivery!Accept
  <2> QED
    BY <2>2, <2>3 DEF Delivery!Next
<1>2. CASE Submit(c) \/ Refresh(c) \/ Pick(c) \/ EnqueueFails(c) \/ SendWakeSignal(c)
  BY <1>2 DEF Submit, Refresh, Pick, EnqueueFails, SendWakeSignal
<1> QED
  BY <1>1, <1>2 DEF ClientStep

LEMMA WorkerDelivers ==
  ASSUME TypeOK, OrderInv, NEW w \in Workers, WorkerStep(w) \/ TimerFires(w)
  PROVE  [Delivery!Next]_<<accepted, buffer, answered>>
<1> USE DEF tableVars, trackerVars, pluginVars, history
<1>1. CASE ServiceAnswers(w) \/ CallCutOff(w)
  <2>1. worker[w].pc = "send" /\ worker[w].entry \in Rows
    BY <1>1 DEF ServiceAnswers, CallCutOff, TypeOK
  <2>2. Delivery!Answer(worker[w].entry)
    BY <1>1, <2>1 DEF ServiceAnswers, CallCutOff, OrderInv, Hand, Delivery!Answer
  <2> QED
    BY <2>1, <2>2 DEF Delivery!Next, Rows
<1>2. CASE Dequeue(w)
  <2>1. UNCHANGED <<accepted, answered>>
    BY <1>2 DEF Dequeue
  <2>2. worker[w].entry \in answered /\ worker[w].entry \in Rows
    BY <1>2 DEF Dequeue, OrderInv, TypeOK
  <2>3. CASE buffer' = buffer \ {worker[w].entry} /\ worker[w].entry \in buffer
    BY <2>1, <2>2, <2>3 DEF Delivery!Forget, Delivery!Next, Rows
  <2>4. CASE buffer' = buffer \ {worker[w].entry} /\ worker[w].entry \notin buffer
    BY <2>1, <2>4
  <2> QED
    BY <1>2, <2>1, <2>3, <2>4 DEF Dequeue
<1>3. CASE \/ ReadUsers(w) \/ ReadUsersFails(w) \/ TakeNext(w) \/ Load(w)
           \/ RetryLater(w) \/ EndOfPass(w) \/ WakeUp(w) \/ Exit(w) \/ TimerFires(w)
  BY <1>3 DEF ReadUsers, ReadUsersFails, TakeNext, Load, RetryLater, EndOfPass,
              WakeUp, Exit, TimerFires
<1> QED
  BY <1>1, <1>2, <1>3 DEF WorkerStep

LEMMA SurroundingsDeliver ==
  ASSUME NowPlayingRefresh \/ PluginTurns \/ (\E t \in Tracks : TrackDeleted(t))
         \/ Crash \/ UNCHANGED vars
  PROVE  [Delivery!Next]_<<accepted, buffer, answered>>
<1> USE DEF tableVars, trackerVars, pluginVars, history
<1>1. ASSUME NEW t \in Tracks, TrackDeleted(t)
      PROVE  Delivery!Next
  BY <1>1 DEF TrackDeleted, Delivery!TrackGone, Delivery!Next
<1>2. CASE NowPlayingRefresh \/ PluginTurns \/ Crash \/ UNCHANGED vars
  BY <1>2 DEF NowPlayingRefresh, PluginTurns, Crash, vars
<1> QED
  BY <1>1, <1>2

\* At-least-once delivery: a row leaves the table only after the scrobbler
\* answered for it or with its track, and a user's rows are answered for in
\* the order of play.
THEOREM DeliversWhatItAccepts == Spec => ImplementsDelivery
<1>1. Init => Delivery!Init
  BY DEF Init, Delivery!Init
<1>2. TypeOK /\ OrderInv /\ [Next]_vars
        => [Delivery!Next]_<<accepted, buffer, answered>>
  BY ClientDelivers, WorkerDelivers, SurroundingsDeliver DEF Next
<1> QED
  BY <1>1, <1>2, TypeCorrect, OrderInvariant, PTL
     DEF Spec, ImplementsDelivery, Delivery!Spec

-------------------------------------------------------------------------------
(* No lost wake-up                                                         *)

\* The strengthening of NothingStuck: the tracker's scrobbler is running.
WakeInv ==
  /\ current # 0 =>
       worker[current].pc # "off" /\ ~worker[current].cancelled
  /\ NothingStuck

LEMMA InitWake == Init => WakeInv
<1> SUFFICES ASSUME Init PROVE WakeInv
  OBVIOUS
<1>1. current # 0 => worker[current] = Started
  BY ConstantTypes DEF Init, WorkersAtStart, Workers
<1>2. buffer = {}
  BY DEF Init
<1> QED
  BY <1>1, <1>2, NewWorkers DEF WakeInv, NothingStuck

\* The tracker's map changes: the old worker no longer counts, a new one
\* begins by reading the whole buffer.
LEMMA RefreshWake ==
  ASSUME TypeOK, WakeInv, RefreshPluginScrobblers,
         UNCHANGED <<accepted, buffer, stranded>>,
         \A c \in Clients : client[c].pc = "wake" => client'[c] = client[c]
  PROVE  WakeInv'
<1>1. CASE UNCHANGED <<worker, current, started>>
  BY <1>1 DEF WakeInv, NothingStuck, Attended
<1>2. ASSUME started < MaxWorkers, started' = started + 1,
             current' = started + 1,
             worker' = [worker EXCEPT ![started + 1] = Started]
      PROVE  WakeInv'
  <2>1. started + 1 \in Workers
    BY <1>2, ConstantTypes DEF TypeOK, Workers
  <2>2. worker'[current'] = Started
    BY <1>2, <2>1 DEF TypeOK
  <2> QED
    BY <2>2, NewWorkers DEF WakeInv, NothingStuck, Attended
<1>3. ASSUME current' = 0 PROVE WakeInv'
  BY <1>3 DEF WakeInv, NothingStuck
<1> QED
  BY <1>1, <1>2, <1>3 DEF RefreshPluginScrobblers

\* Nothing the property depends on changes but the buffer, which shrinks.
LEMMA WakeKept ==
  ASSUME WakeInv, UNCHANGED <<accepted, worker, current, stranded>>,
         buffer' \subseteq buffer,
         \A c \in Clients : client[c].pc = "wake" => client'[c] = client[c]
  PROVE  WakeInv'
BY DEF WakeInv, NothingStuck, Attended

LEMMA ClientWake ==
  ASSUME TypeOK, WakeInv, NEW c \in Clients, ClientStep(c)
  PROVE  WakeInv'
<1> USE DEF tableVars, trackerVars, pluginVars, history
<1>0. client \in [Clients -> ClientState] /\ client[c] \in ClientState
      /\ worker \in [Workers -> WorkerState]
  BY DEF TypeOK
<1>1. CASE Submit(c) \/ Pick(c) \/ EnqueueFails(c)
  <2>1. \A d \in Clients : client[d].pc = "wake" => client'[d] = client[d]
    BY <1>0, <1>1 DEF Submit, Pick, EnqueueFails
  <2>2. UNCHANGED <<accepted, worker, current, stranded, buffer>>
    BY <1>1 DEF Submit, Pick, EnqueueFails
  <2> QED
    BY <2>1, <2>2, WakeKept
<1>2. CASE Refresh(c)
  <2>1. \A d \in Clients : client[d].pc = "wake" => client'[d] = client[d]
    BY <1>0, <1>2 DEF Refresh
  <2> QED
    BY <1>2, <2>1, RefreshWake DEF Refresh
\* The request that inserted the row is about to signal the scrobbler it picked.
<1>3. CASE Enqueue(c)
  <2>1. client[c].play \in Scrobble
    BY <1>3 DEF Enqueue, TypeOK
  <2>2. \A i \in Rows : accepted'[i] = accepted[i]
    BY <1>3, <2>1, InsertedRow DEF Enqueue, TypeOK
  <2>3. UNCHANGED <<worker, current>>
    BY <1>3 DEF Enqueue
  <2>4. /\ client'[c].pc = "wake" /\ client'[c].scr = client[c].scr
        /\ \A d \in Clients \ {c} : client'[d] = client[d]
    BY <1>0, <1>3 DEF Enqueue, ClientState
  <2>5. ASSUME current # 0, NEW i \in buffer' \ stranded'
        PROVE  Attended(i)'
    <3>1. CASE i \in buffer
      <4>1. i \in Rows /\ i \notin stranded
        BY <1>3, <2>5, <3>1 DEF Enqueue, TypeOK
      <4>2. Attended(i)
        BY <2>5, <3>1, <4>1 DEF WakeInv, NothingStuck
      <4>3. client[c].pc # "wake"
        BY <1>3 DEF Enqueue
      <4> QED
        BY <2>2, <2>3, <2>4, <4>1, <4>2, <4>3 DEF Attended
    <3>2. CASE i \notin buffer
      <4>1. client[c].scr = current
        BY <1>3, <2>5, <3>2 DEF Enqueue
      <4> QED
        BY <2>3, <2>4, <4>1 DEF Attended
    <3> QED
      BY <3>1, <3>2
  <2> QED
    BY <2>3, <2>5 DEF WakeInv, NothingStuck
<1>4. CASE SendWakeSignal(c)
  <2>1. client[c].scr \in Workers /\ client[c].pc = "wake"
    BY <1>4 DEF SendWakeSignal, TypeOK
  <2>2. UNCHANGED <<accepted, buffer, current, stranded>>
    BY <1>4 DEF SendWakeSignal
  <2>3. \A d \in Clients \ {c} : client'[d] = client[d]
    BY <1>0, <1>4 DEF SendWakeSignal
  <2>4. worker'[client[c].scr].wake
    BY <1>0, <1>4, <2>1 DEF SendWakeSignal, WorkerState
  <2>5. \A v \in Workers :
          /\ worker'[v].pc = worker[v].pc /\ worker'[v].timers = worker[v].timers
          /\ worker'[v].todo = worker[v].todo
          /\ worker'[v].result = worker[v].result
          /\ worker'[v].cancelled = worker[v].cancelled
    BY <1>0, <1>4, <2>1 DEF SendWakeSignal, WorkerState
  <2>6. \A v \in Workers : worker[v].wake => worker'[v].wake
    BY <1>0, <1>4, <2>1 DEF SendWakeSignal, WorkerState
  <2>7. ASSUME current # 0, NEW i \in buffer \ stranded
        PROVE  Attended(i)'
    <3>1. Attended(i) /\ current \in Workers
      BY <2>7 DEF WakeInv, NothingStuck, TypeOK
    <3> QED
      BY <2>1, <2>2, <2>3, <2>4, <2>5, <2>6, <3>1 DEF Attended
  <2>8. current # 0 => worker'[current].pc # "off" /\ ~worker'[current].cancelled
    BY <2>5 DEF WakeInv, TypeOK
  <2> QED
    BY <2>2, <2>7, <2>8 DEF WakeInv, NothingStuck
<1> QED
  BY <1>1, <1>2, <1>3, <1>4 DEF ClientStep

\* What a step of a worker may change: its own record and the rows it deletes.
LEMMA WorkerFrame ==
  ASSUME NEW w \in Workers, WorkerStep(w) \/ TimerFires(w)
  PROVE  UNCHANGED <<accepted, current, stranded, client>> /\ buffer' \subseteq buffer
BY DEF WorkerStep, TimerFires, ReadUsers, ReadUsersFails, TakeNext, Load,
       ServiceAnswers, RetryLater, CallCutOff, Dequeue, EndOfPass, WakeUp, Exit,
       tableVars, trackerVars, pluginVars, history

\* It is enough to look at the current worker's own steps.
LEMMA WorkerWakes ==
  ASSUME TypeOK, WakeInv, NEW w \in Workers,
         UNCHANGED <<accepted, current, stranded, client>>, buffer' \subseteq buffer,
         \A v \in Workers \ {w} : worker'[v] = worker[v],
         w = current =>
           /\ worker'[w].pc # "off"
           /\ worker'[w].cancelled = worker[w].cancelled
           /\ \A i \in buffer' :
                Attended(i) =>
                  \/ Attended(i)'
                  \/ worker'[w].pc = "users"
                  \/ worker'[w].wake \/ worker'[w].timers > 0
                  \/ worker'[w].pc \in {"next", "load", "send", "dequeue"}
                     /\ (accepted[i].user \in worker'[w].todo \/ ~worker'[w].result)
  PROVE  WakeInv'
<1>1. CASE w # current
  BY <1>1 DEF WakeInv, NothingStuck, Attended, TypeOK
<1>2. CASE w = current
  BY <1>2 DEF WakeInv, NothingStuck, Attended
<1> QED
  BY <1>1, <1>2

\* A turn that ends with nothing left, or with a retry to come.
LEMMA TurnWakes ==
  ASSUME TypeOK, WakeInv, NEW w \in Workers, NEW u \in Users,
         worker[w].pc \in {"next", "load", "send", "dequeue"},
         UNCHANGED <<accepted, current, stranded, client>>, buffer' \subseteq buffer,
         \/ UserFails(w, u)
         \/ UserDone(w, u) /\ \A i \in buffer : accepted[i].user # u
  PROVE  WakeInv'
<1>0. worker \in [Workers -> WorkerState]
  BY DEF TypeOK
<1>1. /\ worker'[w].pc = "next"
      /\ worker'[w].todo = worker[w].todo \ {u}
      /\ worker'[w].wake = worker[w].wake
      /\ worker'[w].timers = worker[w].timers
      /\ worker'[w].cancelled = worker[w].cancelled
      /\ \A v \in Workers \ {w} : worker'[v] = worker[v]
  BY <1>0, EndOfTurn
<1>2. CASE UserFails(w, u)
  <2>1. ~worker'[w].result
    BY <1>0, <1>2, FailedTurn
  <2> QED
    BY <1>1, <2>1, WorkerWakes
<1>3. CASE UserDone(w, u) /\ \A i \in buffer : accepted[i].user # u
  <2>1. worker'[w].result = worker[w].result
    BY <1>0, <1>3 DEF UserDone, WorkerState
  <2>2. ASSUME w = current, NEW i \in buffer', Attended(i)
        PROVE  \/ worker'[w].pc = "users"
               \/ worker'[w].wake \/ worker'[w].timers > 0
               \/ Attended(i)'
               \/ worker'[w].pc \in {"next", "load", "send", "dequeue"}
                  /\ (accepted[i].user \in worker'[w].todo \/ ~worker'[w].result)
    BY <1>1, <1>3, <2>1, <2>2 DEF Attended
  <2> QED
    BY <1>1, <2>2, WorkerWakes
<1> QED
  BY <1>2, <1>3

LEMMA WorkerWake ==
  ASSUME TypeOK, WakeInv, NEW w \in Workers, WorkerStep(w) \/ TimerFires(w)
  PROVE  WakeInv'
<1>0. /\ worker \in [Workers -> WorkerState] /\ worker[w] \in WorkerState
      /\ worker[w].pc \in Hand => worker[w].user \in Users
      /\ UNCHANGED <<accepted, current, stranded, client>> /\ buffer' \subseteq buffer
  BY WorkerFrame DEF TypeOK, WorkerState, Hand
<1>1. CASE ReadUsers(w)
  <2>1. /\ worker'[w].pc = "next"
        /\ worker'[w].todo = {accepted[i].user : i \in buffer}
        /\ worker'[w].cancelled = worker[w].cancelled
        /\ \A v \in Workers \ {w} : worker'[v] = worker[v]
    BY <1>0, <1>1 DEF ReadUsers, WorkerState
  <2>2. \A i \in buffer' : accepted[i].user \in worker'[w].todo
    BY <1>0, <2>1
  <2> QED
    BY <1>0, <2>1, <2>2, WorkerWakes
<1>2. CASE ReadUsersFails(w)
  <2>1. /\ worker'[w].pc = "next" /\ worker'[w].result = FALSE
        /\ worker'[w].cancelled = worker[w].cancelled
        /\ \A v \in Workers \ {w} : worker'[v] = worker[v]
    BY <1>0, <1>2 DEF ReadUsersFails, WorkerState
  <2> QED
    BY <1>0, <2>1, WorkerWakes
<1>3. CASE TakeNext(w)
  <2>1. PICK u \in worker[w].todo :
          \/ \E i \in buffer :
               worker' = [worker EXCEPT ![w].pc = "load", ![w].user = u,
                                        ![w].entry = i]
          \/ UserDone(w, u) /\ \A i \in buffer : accepted[i].user # u
          \/ UserFails(w, u)
    BY <1>3 DEF TakeNext, InTurn
  <2>2. worker[w].pc = "next" /\ u \in Users
    BY <1>0, <1>3, <2>1 DEF TakeNext, WorkerState
  <2>3. ASSUME NEW i \in buffer,
               worker' = [worker EXCEPT ![w].pc = "load", ![w].user = u,
                                        ![w].entry = i]
        PROVE  WakeInv'
    <3>1. /\ worker'[w].pc = "load"
          /\ worker'[w].todo = worker[w].todo
          /\ worker'[w].result = worker[w].result
          /\ worker'[w].wake = worker[w].wake
          /\ worker'[w].timers = worker[w].timers
          /\ worker'[w].cancelled = worker[w].cancelled
          /\ \A v \in Workers \ {w} : worker'[v] = worker[v]
      BY <1>0, <2>3 DEF WorkerState
    <3>2. ASSUME w = current, NEW j \in buffer', Attended(j)
          PROVE  Attended(j)'
      BY <1>0, <2>2, <3>1, <3>2 DEF Attended
    <3> QED
      BY <1>0, <3>1, <3>2, WorkerWakes
  <2> QED
    BY <1>0, <2>1, <2>2, <2>3, TurnWakes
\* The worker goes on with its pass.
<1>4. ASSUME worker[w].pc \in {"load", "send", "dequeue"},
             worker'[w].pc \in {"next", "send", "dequeue"},
             worker'[w].todo = worker[w].todo,
             worker'[w].result = worker[w].result,
             worker'[w].wake = worker[w].wake,
             worker'[w].timers = worker[w].timers,
             worker'[w].cancelled = worker[w].cancelled,
             \A v \in Workers \ {w} : worker'[v] = worker[v]
      PROVE  WakeInv'
  <2>1. ASSUME w = current, NEW j \in buffer', Attended(j)
        PROVE  Attended(j)'
    BY <1>0, <1>4, <2>1 DEF Attended
  <2> QED
    BY <1>0, <1>4, <2>1, WorkerWakes
<1>5. CASE Load(w)
  <2>1. CASE worker' = [worker EXCEPT ![w].pc = "send", ![w].inst = turns]
    BY <1>0, <1>4, <1>5, <2>1 DEF Load, WorkerState
  <2>2. CASE UserFails(w, worker[w].user)
    BY <1>0, <1>5, <2>2, TurnWakes DEF Load, Hand
  <2> QED
    BY <1>5, <2>1, <2>2 DEF Load
<1>6. CASE ServiceAnswers(w) \/ CallCutOff(w)
  <2>1. worker[w].pc = "send" /\ worker' = [worker EXCEPT ![w].pc = "dequeue"]
    BY <1>6 DEF ServiceAnswers, CallCutOff
  <2> QED
    BY <1>0, <1>4, <2>1 DEF WorkerState
<1>7. CASE RetryLater(w)
  BY <1>0, <1>7, TurnWakes DEF RetryLater, Hand
<1>8. CASE Dequeue(w)
  <2>1. CASE worker' = [worker EXCEPT ![w].pc = "next", ![w].entry = 0]
    BY <1>0, <1>4, <1>8, <2>1 DEF Dequeue, WorkerState
  <2>2. CASE UserFails(w, worker[w].user)
    BY <1>0, <1>8, <2>2, TurnWakes DEF Dequeue, Hand
  <2> QED
    BY <1>8, <2>1, <2>2 DEF Dequeue
<1>9. CASE EndOfPass(w)
  <2>1. /\ worker[w].pc = "next" /\ worker[w].todo = {}
        /\ worker'[w].pc = "wait"
        /\ worker'[w].wake = worker[w].wake
        /\ worker'[w].cancelled = worker[w].cancelled
        /\ \A v \in Workers \ {w} : worker'[v] = worker[v]
    BY <1>0, <1>9 DEF EndOfPass, WorkerState
  <2>2. /\ worker[w].result => worker'[w].timers = worker[w].timers
        /\ ~worker[w].result => worker'[w].timers = worker[w].timers + 1
    BY <1>0, <1>9 DEF EndOfPass, WorkerState
  <2>3. worker[w].timers \in Nat
    BY <1>0 DEF WorkerState
  <2>4. ASSUME w = current, NEW j \in buffer', Attended(j)
        PROVE  Attended(j)' \/ worker'[w].timers > 0
    <3>1. CASE ~worker[w].result
      BY <2>2, <2>3, <3>1
    <3>2. CASE worker[w].result
      BY <1>0, <2>1, <2>2, <2>4, <3>2 DEF Attended
    <3> QED
      BY <3>1, <3>2
  <2> QED
    BY <1>0, <2>1, <2>4, WorkerWakes
<1>10. CASE WakeUp(w)
  <2>1. /\ worker'[w].pc = "users"
        /\ worker'[w].cancelled = worker[w].cancelled
        /\ \A v \in Workers \ {w} : worker'[v] = worker[v]
    BY <1>0, <1>10 DEF WakeUp, WorkerState
  <2> QED
    BY <1>0, <2>1, WorkerWakes
<1>11. CASE Exit(w)
  <2>1. worker[w].cancelled /\ \A v \in Workers \ {w} : worker'[v] = worker[v]
    BY <1>0, <1>11 DEF Exit
  <2>2. w # current
    BY <2>1, ConstantTypes DEF WakeInv, Workers
  <2> QED
    BY <1>0, <2>1, <2>2, WorkerWakes
<1>12. CASE TimerFires(w)
  <2>1. /\ worker'[w].pc = worker[w].pc
        /\ worker'[w].wake = TRUE
        /\ worker'[w].cancelled = worker[w].cancelled
        /\ \A v \in Workers \ {w} : worker'[v] = worker[v]
    BY <1>0, <1>12 DEF TimerFires, WorkerState
  <2>2. w = current => worker'[w].pc # "off"
    BY <2>1, ConstantTypes DEF WakeInv, Workers
  <2> QED
    BY <1>0, <2>1, <2>2, WorkerWakes
<1> QED
  BY <1>1, <1>2, <1>3, <1>5, <1>6, <1>7, <1>8, <1>9, <1>10, <1>11, <1>12 DEF WorkerStep

LEMMA SurroundingsWake ==
  ASSUME TypeOK, WakeInv,
         NowPlayingRefresh \/ PluginTurns \/ (\E t \in Tracks : TrackDeleted(t))
         \/ Crash \/ UNCHANGED vars
  PROVE  WakeInv'
<1> USE DEF tableVars, trackerVars, pluginVars, history
<1>1. CASE NowPlayingRefresh
  BY <1>1, RefreshWake DEF NowPlayingRefresh
<1>2. CASE PluginTurns \/ (\E t \in Tracks : TrackDeleted(t)) \/ UNCHANGED vars
  <2>1. UNCHANGED <<accepted, worker, current, stranded, client>> /\ buffer' \subseteq buffer
    BY <1>2 DEF PluginTurns, TrackDeleted, vars
  <2> QED
    BY <2>1, WakeKept
\* The worker of a restarted server begins by reading the whole buffer.
<1>3. CASE Crash
  <2>1. current' # 0 => worker'[current'] = Started
    BY <1>3, ConstantTypes DEF Crash, WorkersAtStart, Workers
  <2> QED
    BY <2>1, NewWorkers DEF WakeInv, NothingStuck, Attended
<1> QED
  BY <1>1, <1>2, <1>3

LEMMA WakeInvariant == Spec => []WakeInv
<1>1. Init => WakeInv
  BY InitWake
<1>2. TypeOK /\ WakeInv /\ [Next]_vars => WakeInv'
  BY ClientWake, WorkerWake, SurroundingsWake DEF Next
<1> QED
  BY <1>1, <1>2, TypeCorrect, PTL DEF Spec

\* No wake-up is lost: as long as the service has a buffered scrobbler, every
\* row that was inserted through it is going to be looked at.
THEOREM NoLostWakeUp == Spec => []NothingStuck
<1>1. WakeInv => NothingStuck
  BY DEF WakeInv
<1> QED
  BY <1>1, WakeInvariant, PTL

-------------------------------------------------------------------------------
(* Without disturbances a row is sent once                                 *)

Undisturbed == faults = 0 /\ turns = 0 /\ crashes = 0

\* The strengthening of SentOnce: only the tracker's worker runs, it is not
\* cancelled, and a row that was sent and is still there is about to go.
OnceInv ==
  /\ current # 0 => loaded
  /\ \A w \in Workers : w # current => worker[w].pc = "off"
  /\ \A w \in Workers : ~worker[w].cancelled
  /\ \A w \in Workers : worker[w].pc \in {"load", "send"} => worker[w].entry \notin Sent
  /\ \A i \in Sent \cap buffer :
       \E w \in Workers : worker[w].pc = "dequeue" /\ worker[w].entry = i

LEMMA StillUndisturbed ==
  ASSUME TypeOK, [Next]_vars, Undisturbed'
  PROVE  Undisturbed /\ turns' = turns /\ crashes' = crashes /\ faults' = faults
<1>1. turns \in Nat /\ crashes \in Nat /\ faults \in Nat
  BY DEF TypeOK
<1>2. /\ turns' = turns \/ turns' = turns + 1
      /\ crashes' = crashes \/ crashes' = crashes + 1
      /\ faults' = faults \/ faults' = faults + 1
  BY DEF Next, ClientStep, WorkerStep, vars, pluginVars, Submit, Refresh, Pick,
         Enqueue, EnqueueFails, SendWakeSignal, NowPlayingRefresh, ReadUsers,
         ReadUsersFails, TakeNext, Load, ServiceAnswers, RetryLater, CallCutOff,
         Dequeue, EndOfPass, WakeUp, Exit, TimerFires, PluginTurns, TrackDeleted,
         Crash, QueryFails
<1> QED
  BY <1>1, <1>2 DEF Undisturbed

LEMMA InitOnce == Init => OnceInv
<1> SUFFICES ASSUME Init PROVE OnceInv
  OBVIOUS
<1>1. \A w \in Workers : ~worker[w].cancelled
  BY DEF Init, WorkersAtStart, Started, Off
<1>2. \A w \in Workers : w # current => worker[w].pc = "off"
  BY NewWorkers DEF Init, WorkersAtStart
<1> QED
  BY <1>1, <1>2, NewWorkers DEF Init, OnceInv, Sent

\* Nothing but the current worker's record and the map may change.
LEMMA RefreshOnce ==
  ASSUME TypeOK, OnceInv, RefreshPluginScrobblers,
         UNCHANGED <<buffer, received, loaded>>
  PROVE  OnceInv'
<1>1. CASE UNCHANGED <<worker, current, started>>
  BY <1>1 DEF OnceInv, Sent
<1>2. ASSUME loaded, current = 0, started < MaxWorkers, current' = started + 1,
             worker' = [worker EXCEPT ![started + 1] = Started]
      PROVE  OnceInv'
  <2>1. \A w \in Workers : worker[w].pc = "off"
    BY <1>2, ConstantTypes DEF OnceInv, Workers
  <2>2. \A w \in Workers : worker'[w] = IF w = current' THEN Started ELSE worker[w]
    BY <1>2 DEF TypeOK
  <2>3. Sent \cap buffer = {}
    BY <2>1 DEF OnceInv
  <2> QED
    BY <1>2, <2>1, <2>2, <2>3, NewWorkers DEF OnceInv, Sent
<1>3. CASE ~Builtin /\ ~loaded /\ current # 0
  BY <1>3 DEF OnceInv
<1> QED
  BY <1>1, <1>2, <1>3 DEF RefreshPluginScrobblers

LEMMA ClientOnce ==
  ASSUME TypeOK, OnceInv, NEW c \in Clients, ClientStep(c)
  PROVE  OnceInv'
<1> USE DEF tableVars, trackerVars, pluginVars, history
<1>1. CASE Submit(c) \/ Pick(c) \/ EnqueueFails(c)
  BY <1>1 DEF Submit, Pick, EnqueueFails, OnceInv, Sent
<1>2. CASE Refresh(c)
  BY <1>2, RefreshOnce DEF Refresh
<1>3. CASE Enqueue(c)
  <2>1. client[c].play \in Scrobble
    BY <1>3 DEF Enqueue, TypeOK
  <2>2. Len(accepted) + 1 \notin Rows
    BY <1>3, <2>1, InsertedRow DEF Enqueue, TypeOK
  <2>3. Sent \subseteq Rows
    BY DEF Sent, TypeOK
  <2> QED
    BY <1>3, <2>2, <2>3 DEF Enqueue, OnceInv, Sent
<1>4. CASE SendWakeSignal(c)
  <2>1. \A v \in Workers : /\ worker'[v].pc = worker[v].pc
                           /\ worker'[v].entry = worker[v].entry
                           /\ worker'[v].cancelled = worker[v].cancelled
    BY <1>4 DEF SendWakeSignal, TypeOK, WorkerState
  <2>2. UNCHANGED <<buffer, received, loaded, current>>
    BY <1>4 DEF SendWakeSignal
  <2> QED
    BY <2>1, <2>2 DEF OnceInv, Sent
<1> QED
  BY <1>1, <1>2, <1>3, <1>4 DEF ClientStep

\* A step of the running worker that is not cancelled and takes no row.
LEMMA WorkerKeepsOnce ==
  ASSUME TypeOK, OnceInv, NEW w \in Workers, w = current,
         UNCHANGED <<loaded, current>>, buffer' \subseteq buffer,
         \A v \in Workers \ {w} : worker'[v] = worker[v],
         worker'[w].cancelled = worker[w].cancelled,
         worker'[w].pc \in {"load", "send"} => worker'[w].entry \notin Sent',
         \A i \in Sent' \cap buffer' :
           worker'[w].pc = "dequeue" /\ worker'[w].entry = i
  PROVE  OnceInv'
BY DEF OnceInv

LEMMA WorkerOnce ==
  ASSUME TypeOK, OnceInv, NEW w \in Workers, WorkerStep(w) \/ TimerFires(w),
         faults' = faults
  PROVE  OnceInv'
<1> USE DEF tableVars, trackerVars, pluginVars, history
<1>0. /\ worker \in [Workers -> WorkerState] /\ worker[w] \in WorkerState
      /\ ~worker[w].cancelled /\ faults \in Nat
  BY DEF TypeOK, OnceInv
<1>1. ~QueryFails(w)
  BY <1>0 DEF QueryFails
<1>2. UNCHANGED <<loaded, current>> /\ buffer' \subseteq buffer
  BY DEF WorkerStep, TimerFires, ReadUsers, ReadUsersFails, TakeNext, Load,
         ServiceAnswers, RetryLater, CallCutOff, Dequeue, EndOfPass, WakeUp, Exit
<1>3. worker[w].pc # "off" => w = current /\ loaded
  BY ConstantTypes DEF OnceInv, Workers
\* A row that was sent and is there is the one in hand.
<1>4. worker[w].pc # "off" => \A i \in Sent \cap buffer :
        worker[w].pc = "dequeue" /\ worker[w].entry = i
  BY <1>3 DEF OnceInv
<1>5. CASE \/ ReadUsers(w) \/ EndOfPass(w) \/ WakeUp(w)
           \/ TakeNext(w) /\ \E u \in Users : UserDone(w, u)
  <2>1. worker'[w].pc \in {"next", "wait", "users"}
    <3>1. CASE ReadUsers(w)
      BY <1>0, <3>1 DEF ReadUsers, WorkerState
    <3>2. CASE EndOfPass(w)
      BY <1>0, <3>2 DEF EndOfPass, WorkerState
    <3>4. CASE WakeUp(w)
      BY <1>0, <3>4 DEF WakeUp, WorkerState
    <3>3. CASE \E u \in Users : UserDone(w, u)
      BY <1>0, <3>3, EndOfTurn
    <3> QED
      BY <1>5, <3>1, <3>2, <3>3, <3>4
  <2>2. worker'[w].cancelled = worker[w].cancelled
    <3>1. CASE ReadUsers(w)
      BY <1>0, <3>1 DEF ReadUsers, WorkerState
    <3>2. CASE EndOfPass(w)
      BY <1>0, <3>2 DEF EndOfPass, WorkerState
    <3>4. CASE WakeUp(w)
      BY <1>0, <3>4 DEF WakeUp, WorkerState
    <3>3. CASE \E u \in Users : UserDone(w, u)
      BY <1>0, <3>3, EndOfTurn
    <3> QED
      BY <1>5, <3>1, <3>2, <3>3, <3>4
  <2>3. \A v \in Workers \ {w} : worker'[v] = worker[v]
    <3>1. CASE ReadUsers(w) \/ WakeUp(w) \/ EndOfPass(w)
      BY <1>0, <3>1 DEF ReadUsers, WakeUp, EndOfPass
    <3>2. CASE \E u \in Users : UserDone(w, u)
      BY <1>0, <3>2, EndOfTurn
    <3> QED
      BY <1>5, <3>1, <3>2
  <2>4. worker[w].pc \in {"users", "next", "wait"} /\ Sent' = Sent
    BY <1>5 DEF ReadUsers, WakeUp, EndOfPass, TakeNext, Sent
  <2> QED
    BY <1>2, <1>3, <1>4, <2>1, <2>2, <2>3, <2>4, WorkerKeepsOnce
<1>6. ASSUME TakeNext(w), NEW u \in Users, NEW i \in buffer,
             worker' = [worker EXCEPT ![w].pc = "load", ![w].user = u,
                                      ![w].entry = i]
      PROVE  OnceInv'
  <2>1. /\ worker'[w].pc = "load" /\ worker'[w].entry = i
        /\ worker'[w].cancelled = worker[w].cancelled
        /\ \A v \in Workers \ {w} : worker'[v] = worker[v]
    BY <1>0, <1>6 DEF WorkerState
  <2>2. worker[w].pc = "next" /\ Sent' = Sent
    BY <1>6 DEF TakeNext, Sent
  <2>3. Sent \cap buffer = {}
    BY <1>4, <2>2
  <2> QED
    BY <1>2, <1>3, <2>1, <2>2, <2>3, WorkerKeepsOnce
<1>7. CASE TakeNext(w)
  <2>1. PICK u \in worker[w].todo :
          \/ \E i \in buffer :
               worker' = [worker EXCEPT ![w].pc = "load", ![w].user = u,
                                        ![w].entry = i]
          \/ UserDone(w, u)
    BY <1>1, <1>7 DEF TakeNext, InTurn
  <2>2. u \in Users
    BY <1>0, <2>1 DEF WorkerState
  <2> QED
    BY <1>5, <1>6, <1>7, <2>1, <2>2
<1>8. CASE Load(w)
  <2>1. worker[w].pc = "load" /\ Sent' = Sent
    BY <1>8 DEF Load, Sent
  <2>2. worker' = [worker EXCEPT ![w].pc = "send", ![w].inst = turns]
    BY <1>3, <1>8, <2>1 DEF Load
  <2>3. /\ worker'[w].pc = "send" /\ worker'[w].entry = worker[w].entry
        /\ worker'[w].cancelled = worker[w].cancelled
        /\ \A v \in Workers \ {w} : worker'[v] = worker[v]
    BY <1>0, <2>2 DEF WorkerState
  <2>4. worker[w].entry \notin Sent /\ Sent \cap buffer = {}
    BY <1>4, <2>1 DEF OnceInv
  <2> QED
    BY <1>2, <1>3, <2>1, <2>3, <2>4, WorkerKeepsOnce
<1>9. CASE ServiceAnswers(w) \/ CallCutOff(w)
  <2>1. /\ worker[w].pc = "send" /\ worker'[w].pc = "dequeue"
        /\ worker'[w].entry = worker[w].entry
        /\ worker'[w].cancelled = worker[w].cancelled
        /\ \A v \in Workers \ {w} : worker'[v] = worker[v]
    BY <1>0, <1>9 DEF ServiceAnswers, CallCutOff, WorkerState
  <2>2. \A r \in received' : r \in received \/ r[1] = worker[w].entry
    BY <1>9 DEF ServiceAnswers, CallCutOff
  <2>3. \A i \in Sent' : i \in Sent \/ i = worker[w].entry
    BY <2>2 DEF Sent
  <2>4. Sent \cap buffer = {}
    BY <1>4, <2>1
  <2> QED
    BY <1>2, <1>3, <2>1, <2>3, <2>4, WorkerKeepsOnce
<1>10. CASE Dequeue(w)
  <2>1. /\ worker[w].pc = "dequeue" /\ Sent' = Sent
        /\ buffer' = buffer \ {worker[w].entry}
        /\ worker' = [worker EXCEPT ![w].pc = "next", ![w].entry = 0]
    BY <1>1, <1>10 DEF Dequeue, Sent
  <2>2. /\ worker'[w].pc = "next"
        /\ worker'[w].cancelled = worker[w].cancelled
        /\ \A v \in Workers \ {w} : worker'[v] = worker[v]
    BY <1>0, <2>1 DEF WorkerState
  <2>3. Sent' \cap buffer' = {}
    BY <1>4, <2>1
  <2> QED
    BY <1>2, <1>3, <2>1, <2>2, <2>3, WorkerKeepsOnce
<1>11. CASE TimerFires(w)
  <2>1. \A v \in Workers : /\ worker'[v].pc = worker[v].pc
                           /\ worker'[v].entry = worker[v].entry
                           /\ worker'[v].cancelled = worker[v].cancelled
    BY <1>0, <1>11 DEF TimerFires, WorkerState
  <2>2. UNCHANGED <<buffer, received>>
    BY <1>11 DEF TimerFires
  <2> QED
    BY <1>2, <2>1, <2>2 DEF OnceInv, Sent
\* The rest needs a failure or a cancelled worker.
<1>12. ~ReadUsersFails(w) /\ ~RetryLater(w) /\ ~Exit(w)
  BY <1>0, <1>1 DEF ReadUsersFails, RetryLater, Exit
<1> QED
  BY <1>5, <1>7, <1>8, <1>9, <1>10, <1>11, <1>12 DEF WorkerStep

LEMMA OnceInvariant == Spec => [](Undisturbed => OnceInv)
<1>1. Init => (Undisturbed => OnceInv)
  BY InitOnce
<1>2. TypeOK /\ (Undisturbed => OnceInv) /\ [Next]_vars => (Undisturbed => OnceInv)'
  <2> SUFFICES ASSUME TypeOK, Undisturbed => OnceInv, [Next]_vars, Undisturbed'
               PROVE  OnceInv'
    OBVIOUS
  <2> USE DEF tableVars, trackerVars, pluginVars, history
  <2>1. OnceInv /\ turns' = turns /\ crashes' = crashes /\ faults' = faults
    BY StillUndisturbed
  <2>2. turns \in Nat /\ crashes \in Nat
    BY DEF TypeOK
  <2>3. CASE \E c \in Clients : ClientStep(c)
    BY <2>1, <2>3, ClientOnce
  <2>4. CASE NowPlayingRefresh
    BY <2>1, <2>4, RefreshOnce DEF NowPlayingRefresh
  <2>5. CASE \E w \in Workers : WorkerStep(w) \/ TimerFires(w)
    BY <2>1, <2>5, WorkerOnce
  <2>6. CASE (\E t \in Tracks : TrackDeleted(t)) \/ UNCHANGED vars
    <3>1. UNCHANGED <<worker, current, loaded, received>> /\ buffer' \subseteq buffer
      BY <2>6 DEF TrackDeleted, vars
    <3> QED
      BY <2>1, <3>1 DEF OnceInv, Sent
  <2>7. CASE PluginTurns \/ Crash
    <3>1. turns' = turns + 1 \/ crashes' = crashes + 1
      BY <2>7 DEF PluginTurns, Crash
    <3> QED
      BY <2>1, <2>2, <3>1
  <2> QED
    BY <2>3, <2>4, <2>5, <2>6, <2>7 DEF Next
<1> QED
  BY <1>1, <1>2, TypeCorrect, PTL DEF Spec

\* A row reaches the service twice only after a failed call or query, a
\* restart or a change of the plugin.
THEOREM DuplicatesNeedAFailure == Spec => []SentOnce
<1>1. (Undisturbed => OnceInv) => SentOnce
  BY DEF Undisturbed, OnceInv, SentOnce
<1> QED
  BY <1>1, OnceInvariant, PTL
=============================================================================
