---------------------------- MODULE ScrobbleBuffer ----------------------------
(***************************************************************************)
(* The buffer between a played track and one external scrobbling service:  *)
(* core/scrobbler/buffered_scrobbler.go, the scrobble_buffer table, and    *)
(* the part of play_tracker.go that hands scrobbles over and replaces the  *)
(* buffered scrobbler when its plugin comes and goes.                      *)
(*                                                                         *)
(* Every buffered scrobbler owns a goroutine (a worker).  Requests insert  *)
(* a row and leave a wake signal; the worker walks the users that have     *)
(* rows, sends each user's rows oldest play first and deletes a row when   *)
(* the scrobbler has answered for it.  A failure ends the user's turn and  *)
(* arms a five-second timer that leaves another wake signal.  Stop cancels *)
(* the worker's context: its queries fail from then on, but a call to the  *)
(* service that is under way goes on, beside the worker that replaces it.  *)
(*                                                                         *)
(* A row is named by its position in "accepted", the rows ever inserted,   *)
(* which is also its rowid order.                                          *)
(***************************************************************************)
EXTENDS Naturals, Sequences, FiniteSets

CONSTANTS
  Users, Tracks,
  PlayTimes,   \* the times a client may report, a set of numbers
  Clients,     \* requests that may run at the same time
  MaxWorkers,  \* buffered scrobblers created between two restarts
  Builtin,     \* TRUE: a built-in scrobbler; FALSE: a plugin
  MaxRows,     \* bounds on: rows inserted,
  MaxFaults,   \*   failed queries and calls to be retried,
  MaxTurns,    \*   times the plugin is loaded or unloaded,
  MaxCrashes,  \*   restarts of the server
  None         \* no user, no play

ASSUME ScrobbleAssumption ==
  /\ PlayTimes \subseteq Nat
  /\ MaxWorkers \in Nat \ {0}
  /\ Builtin \in BOOLEAN
  /\ {MaxRows, MaxFaults, MaxTurns, MaxCrashes} \subseteq Nat
  /\ None \notin Users

Workers == 1 .. MaxWorkers
NoScrobbler == 0

VARIABLES
  accepted,   \* rows ever inserted: who played what, and when
  buffer,     \* the table: the rows that are there now
  tracks,     \* rows of media_file
  worker,     \* the goroutines' local state, wake signals and timers
  current,    \* the buffered scrobbler in the play tracker's map
  started,    \* how many were created since the last restart
  loaded,     \* the plugin manager has the plugin (always, when built in)
  turns,      \* loads and unloads of the plugin so far: its generation
  client,     \* requests: the play being reported and the scrobbler picked
  received,   \* history: what reached the service, <<row, user name>>
  answered,   \* history: rows the scrobbler answered for
  stranded,   \* history: rows inserted through a replaced scrobbler
  faults, crashes

vars == <<accepted, buffer, tracks, worker, current, started, loaded, turns,
          client, received, answered, stranded, faults, crashes>>

Scrobble == [user: Users, track: Tracks, time: PlayTimes]
Rows == DOMAIN accepted

WorkerState ==
  [pc: {"off", "users", "next", "load", "send", "dequeue", "wait"},
   todo: SUBSET Users,       \* users left in this pass over the buffer
   user: Users \cup {None}, \* whose rows are being sent
   entry: Nat,               \* the row in hand
   result: BOOLEAN,          \* what processQueue will return
   wake: BOOLEAN,            \* a signal in wakeSignal, a channel of one
   timers: Nat,              \* AfterFuncs that have not fired
   cancelled: BOOLEAN,       \* Stop was called
   inst: Nat]                \* the plugin's generation the loader returned

Off == [pc |-> "off", todo |-> {}, user |-> None, entry |-> 0,
        result |-> TRUE, wake |-> FALSE, timers |-> 0, cancelled |-> FALSE,
        inst |-> 0]

Started == [Off EXCEPT !.pc = "users"]

IdleClient == [pc |-> "idle", play |-> None, scr |-> NoScrobbler]

WorkersAtStart ==
  [w \in Workers |-> IF Builtin /\ w = 1 THEN Started ELSE Off]

Init ==
  /\ accepted = <<>>
  /\ buffer = {}
  /\ tracks = Tracks
  /\ worker = WorkersAtStart
  /\ current = IF Builtin THEN 1 ELSE NoScrobbler
  /\ started = IF Builtin THEN 1 ELSE 0
  /\ loaded \in IF Builtin THEN {TRUE} ELSE BOOLEAN
  /\ turns = 0
  /\ client = [c \in Clients |-> IdleClient]
  /\ received = {}
  /\ answered = {}
  /\ stranded = {}
  /\ faults = 0
  /\ crashes = 0

-------------------------------------------------------------------------------
(* The play tracker: requests that report a play                           *)

tableVars   == <<accepted, buffer, tracks>>
trackerVars == <<current, started>>
pluginVars  == <<loaded, turns>>
history     == <<received, answered>>

\* refreshPluginScrobblers, under the tracker's mutex: the map follows the
\* plugins that are loaded; an instance that was only reloaded is kept.
RefreshPluginScrobblers ==
  \/ /\ Builtin \/ loaded = (current # NoScrobbler)
     /\ UNCHANGED <<worker, current, started>>
  \/ /\ ~Builtin /\ loaded /\ current = NoScrobbler
     /\ started < MaxWorkers
     /\ started' = started + 1
     /\ current' = started + 1
     /\ worker' = [worker EXCEPT ![started + 1] = Started]
  \/ /\ ~Builtin /\ ~loaded /\ current # NoScrobbler
     /\ worker' = [worker EXCEPT ![current].cancelled = TRUE]
     /\ current' = NoScrobbler
     /\ UNCHANGED started

\* Submit finds the track and counts the play (incPlay).
Submit(c) ==
  /\ client[c].pc = "idle"
  /\ Len(accepted) + Cardinality({d \in Clients : client[d].pc # "idle"})
       < MaxRows
  /\ \E s \in Scrobble :
       /\ s.track \in tracks
       /\ client' = [client EXCEPT ![c].pc = "refresh", ![c].play = s]
  /\ UNCHANGED <<tableVars, worker, trackerVars, pluginVars, history, stranded,
                 faults, crashes>>

Refresh(c) ==
  /\ client[c].pc = "refresh"
  /\ RefreshPluginScrobblers
  /\ client' = [client EXCEPT ![c].pc = "pick"]
  /\ UNCHANGED <<tableVars, pluginVars, history, stranded, faults, crashes>>

\* dispatchScrobble works on a copy of the map, and skips the scrobbler when
\* the user has not authorised it or its plugin cannot be loaded.
Pick(c) ==
  /\ client[c].pc = "pick"
  /\ \/ client' = [client EXCEPT ![c] = IdleClient]
     \/ /\ current # NoScrobbler /\ loaded
        /\ client' = [client EXCEPT ![c].pc = "enqueue", ![c].scr = current]
  /\ UNCHANGED <<tableVars, worker, trackerVars, pluginVars, history, stranded,
                 faults, crashes>>

\* One row per user, service, track and play time.
Duplicate(s) == \E i \in buffer : accepted[i] = s

Enqueue(c) ==
  /\ client[c].pc = "enqueue"
  /\ ~Duplicate(client[c].play)
  /\ client[c].play.track \in tracks
  /\ accepted' = Append(accepted, client[c].play)
  /\ buffer' = buffer \cup {Len(accepted) + 1}
  /\ stranded' = IF client[c].scr = current THEN stranded
                 ELSE stranded \cup {Len(accepted) + 1}
  /\ client' = [client EXCEPT ![c].pc = "wake"]
  /\ UNCHANGED <<tracks, worker, trackerVars, pluginVars, history, faults,
                 crashes>>

\* The insert violates a constraint or fails: the play is not buffered.
EnqueueFails(c) ==
  /\ client[c].pc = "enqueue"
  /\ \/ /\ \/ Duplicate(client[c].play)
           \/ client[c].play.track \notin tracks
        /\ UNCHANGED faults
     \/ /\ faults < MaxFaults
        /\ faults' = faults + 1
  /\ client' = [client EXCEPT ![c] = IdleClient]
  /\ UNCHANGED <<tableVars, worker, trackerVars, pluginVars, history, stranded,
                 crashes>>

\* A bug: an unbuffered channel, the signal is lost on a busy worker.
SendWakeSignalBug(c) ==
  /\ client[c].pc = "wake"
  /\ worker' = [worker EXCEPT ![client[c].scr].wake =
                  @ \/ worker[client[c].scr].pc = "wait"]
  /\ client' = [client EXCEPT ![c] = IdleClient]
  /\ UNCHANGED <<tableVars, trackerVars, pluginVars, history, stranded, faults,
                 crashes>>

\* sendWakeSignal: a second signal is dropped while one is waiting.
SendWakeSignal(c) ==
  /\ client[c].pc = "wake"
  /\ worker' = [worker EXCEPT ![client[c].scr].wake = TRUE]
  /\ client' = [client EXCEPT ![c] = IdleClient]
  /\ UNCHANGED <<tableVars, trackerVars, pluginVars, history, stranded, faults,
                 crashes>>

\* The now-playing worker goes through getActiveScrobblers as well.
NowPlayingRefresh ==
  /\ RefreshPluginScrobblers
  /\ UNCHANGED <<tableVars, pluginVars, client, history, stranded, faults,
                 crashes>>

-------------------------------------------------------------------------------
(* The worker: run, processQueue and processUserQueue                      *)

\* A query of the worker fails when its context is cancelled, and may fail.
QueryFails(w) ==
  \/ /\ worker[w].cancelled
     /\ UNCHANGED faults
  \/ /\ ~worker[w].cancelled
     /\ faults < MaxFaults
     /\ faults' = faults + 1

\* processUserQueue(u) returned true: no row is left.
UserDone(w, u) ==
  worker' = [worker EXCEPT ![w].pc = "next",
                           ![w].todo = @ \ {u},
                           ![w].user = None]

\* processUserQueue(u) returned false, and so will processQueue.
UserFails(w, u) ==
  worker' = [worker EXCEPT ![w].pc = "next",
                           ![w].todo = @ \ {u},
                           ![w].user = None,
                           ![w].entry = 0,
                           ![w].result = FALSE]

\* UserIDs: a snapshot of the users that have rows (any order: the query
\* sorts them by their number of rows).
ReadUsers(w) ==
  /\ worker[w].pc = "users"
  /\ ~worker[w].cancelled
  /\ worker' = [worker EXCEPT ![w].pc = "next",
                              ![w].todo = {accepted[i].user : i \in buffer},
                              ![w].result = TRUE]
  /\ UNCHANGED <<tableVars, trackerVars, pluginVars, client, history, stranded,
                 faults, crashes>>

ReadUsersFails(w) ==
  /\ worker[w].pc = "users"
  /\ QueryFails(w)
  /\ worker' = [worker EXCEPT ![w].pc = "next", ![w].todo = {},
                              ![w].result = FALSE]
  /\ UNCHANGED <<tableVars, trackerVars, pluginVars, client, history, stranded,
                 crashes>>

\* A bug: the newest play first.
IsNextBug(i, u) ==
  /\ i \in buffer
  /\ accepted[i].user = u
  /\ \A j \in buffer :
       accepted[j].user = u => accepted[i].time >= accepted[j].time

\* The row Next(service, u) selects: the oldest play, then the lowest rowid.
IsNext(i, u) ==
  /\ i \in buffer
  /\ accepted[i].user = u
  /\ \A j \in buffer :
       accepted[j].user = u =>
         \/ accepted[i].time < accepted[j].time
         \/ accepted[i].time = accepted[j].time /\ i <= j

\* One user after the other; a user's turn lasts until it has no row left.
InTurn(w) ==
  {u \in worker[w].todo : worker[w].user \in {None, u}}

TakeNext(w) ==
  /\ worker[w].pc = "next"
  /\ \E u \in InTurn(w) :
       \/ /\ ~worker[w].cancelled
          /\ \E i \in buffer :
               /\ IsNext(i, u)
               /\ worker' = [worker EXCEPT ![w].pc = "load", ![w].user = u,
                                           ![w].entry = i]
          /\ UNCHANGED faults
       \/ /\ ~worker[w].cancelled
          /\ \A i \in buffer : accepted[i].user # u
          /\ UserDone(w, u)
          /\ UNCHANGED faults
       \/ /\ QueryFails(w)
          /\ UserFails(w, u)
  /\ UNCHANGED <<tableVars, trackerVars, pluginVars, client, history, stranded,
                 crashes>>

Load(w) ==
  /\ worker[w].pc = "load"
  /\ \/ /\ loaded
        /\ worker' = [worker EXCEPT ![w].pc = "send", ![w].inst = turns]
     \/ /\ ~loaded
        /\ UserFails(w, worker[w].user)
  /\ UNCHANGED <<tableVars, trackerVars, pluginVars, client, history, stranded,
                 faults, crashes>>

\* The user name a call carries: the built-in scrobblers use the row's user
\* id, a plugin gets the user of the context, and the worker's has none.
Attributed(i) == IF Builtin THEN accepted[i].user ELSE None

\* The service has the scrobble, or the scrobbler refuses it for good.
ServiceAnswers(w) ==
  /\ worker[w].pc = "send"
  /\ LET i == worker[w].entry IN
       /\ received' \in {received, received \cup {<<i, Attributed(i)>>}}
       /\ answered' = answered \cup {i}
  /\ worker' = [worker EXCEPT ![w].pc = "dequeue"]
  /\ UNCHANGED <<tableVars, trackerVars, pluginVars, client, stranded, faults,
                 crashes>>

\* A bug: a scrobble to be retried is discarded like a refused one.
RetryLaterBug(w) ==
  /\ worker[w].pc = "send"
  /\ faults < MaxFaults
  /\ faults' = faults + 1
  /\ worker' = [worker EXCEPT ![w].pc = "dequeue"]
  /\ UNCHANGED <<tableVars, trackerVars, pluginVars, client, history, stranded,
                 crashes>>

\* ErrRetryLater; a lost answer is one of these, and the service may have it.
RetryLater(w) ==
  /\ worker[w].pc = "send"
  /\ faults < MaxFaults
  /\ faults' = faults + 1
  /\ LET i == worker[w].entry IN
       received' \in {received, received \cup {<<i, Attributed(i)>>}}
  /\ UserFails(w, worker[w].user)
  /\ UNCHANGED <<tableVars, trackerVars, pluginVars, client, answered,
                 stranded, crashes>>

\* The instance was closed by an unload, or the context cancelled by Stop,
\* before the call: mapScrobblerError makes this ErrUnrecoverable.
CallCutOff(w) ==
  /\ worker[w].pc = "send"
  /\ ~Builtin
  /\ worker[w].cancelled \/ ~loaded \/ worker[w].inst # turns
  /\ answered' = answered \cup {worker[w].entry}
  /\ worker' = [worker EXCEPT ![w].pc = "dequeue"]
  /\ UNCHANGED <<tableVars, trackerVars, pluginVars, client, received, stranded,
                 faults, crashes>>

Dequeue(w) ==
  /\ worker[w].pc = "dequeue"
  /\ \/ /\ ~worker[w].cancelled
        /\ buffer' = buffer \ {worker[w].entry}
        /\ worker' = [worker EXCEPT ![w].pc = "next", ![w].entry = 0]
        /\ UNCHANGED faults
     \/ /\ QueryFails(w)
        /\ UserFails(w, worker[w].user)
        /\ UNCHANGED buffer
  /\ UNCHANGED <<accepted, tracks, trackerVars, pluginVars, client, history,
                 stranded, crashes>>

\* A bug: no timer after a failure.
EndOfPassBug(w) ==
  /\ worker[w].pc = "next"
  /\ worker[w].todo = {}
  /\ worker' = [worker EXCEPT ![w].pc = "wait"]
  /\ UNCHANGED <<tableVars, trackerVars, pluginVars, client, history, stranded,
                 faults, crashes>>

\* processQueue returned; run arms a timer unless everything went well.
EndOfPass(w) ==
  /\ worker[w].pc = "next"
  /\ worker[w].todo = {}
  /\ worker' = [worker EXCEPT
                  ![w].pc = "wait",
                  ![w].timers = IF worker[w].result THEN @ ELSE @ + 1]
  /\ UNCHANGED <<tableVars, trackerVars, pluginVars, client, history, stranded,
                 faults, crashes>>

\* The select of run: either case when both are ready.
WakeUp(w) ==
  /\ worker[w].pc = "wait"
  /\ worker[w].wake
  /\ worker' = [worker EXCEPT ![w].pc = "users", ![w].wake = FALSE]
  /\ UNCHANGED <<tableVars, trackerVars, pluginVars, client, history, stranded,
                 faults, crashes>>

Exit(w) ==
  /\ worker[w].pc = "wait"
  /\ worker[w].cancelled
  /\ worker' = [worker EXCEPT ![w].pc = "off"]
  /\ UNCHANGED <<tableVars, trackerVars, pluginVars, client, history, stranded,
                 faults, crashes>>

\* A bug: the counter of timers is decremented without a timer.
TimerFiresBug(w) ==
  /\ worker' = [worker EXCEPT ![w].timers = @ - 1, ![w].wake = TRUE]
  /\ UNCHANGED <<tableVars, trackerVars, pluginVars, client, history, stranded,
                 faults, crashes>>

\* A timer outlives the goroutine that armed it.
TimerFires(w) ==
  /\ worker[w].timers > 0
  /\ worker' = [worker EXCEPT ![w].timers = @ - 1, ![w].wake = TRUE]
  /\ UNCHANGED <<tableVars, trackerVars, pluginVars, client, history, stranded,
                 faults, crashes>>

-------------------------------------------------------------------------------
(* The surroundings: the plugin manager, the library, restarts             *)

PluginTurns ==
  /\ ~Builtin
  /\ turns < MaxTurns
  /\ turns' = turns + 1
  /\ loaded' = ~loaded
  /\ UNCHANGED <<tableVars, worker, trackerVars, client, history, stranded,
                 faults, crashes>>

\* Deleting a media_file row deletes its rows in the buffer (cascade).
TrackDeleted(t) ==
  /\ t \in tracks
  /\ tracks' = tracks \ {t}
  /\ buffer' = {i \in buffer : accepted[i].track # t}
  /\ UNCHANGED <<accepted, worker, trackerVars, pluginVars, client, history,
                 stranded, faults, crashes>>

\* Only the database survives.  A plugin that was being reloaded is loaded.
Crash ==
  /\ crashes < MaxCrashes
  /\ crashes' = crashes + 1
  /\ worker' = WorkersAtStart
  /\ current' = IF Builtin THEN 1 ELSE NoScrobbler
  /\ started' = IF Builtin THEN 1 ELSE 0
  /\ client' = [c \in Clients |-> IdleClient]
  /\ loaded' \in {loaded, TRUE}
  /\ UNCHANGED <<tableVars, turns, history, stranded, faults>>

ClientStep(c) ==
  \/ Submit(c) \/ Refresh(c) \/ Pick(c)
  \/ Enqueue(c) \/ EnqueueFails(c) \/ SendWakeSignal(c)

WorkerStep(w) ==
  \/ ReadUsers(w) \/ ReadUsersFails(w) \/ TakeNext(w) \/ Load(w)
  \/ ServiceAnswers(w) \/ RetryLater(w) \/ CallCutOff(w) \/ Dequeue(w)
  \/ EndOfPass(w) \/ WakeUp(w) \/ Exit(w)

Next ==
  \/ \E c \in Clients : ClientStep(c)
  \/ NowPlayingRefresh
  \/ \E w \in Workers : WorkerStep(w) \/ TimerFires(w)
  \/ PluginTurns
  \/ \E t \in Tracks : TrackDeleted(t)
  \/ Crash

Spec == Init /\ [][Next]_vars

\* Goroutines run on and timers fire; a request that has inserted its row
\* goes on to its signal.  Nothing is asked of clients, plugins or restarts.
FairSpec ==
  /\ Spec
  /\ \A w \in Workers : WF_vars(WorkerStep(w)) /\ WF_vars(TimerFires(w))
  /\ \A c \in Clients : WF_vars(SendWakeSignal(c))

-------------------------------------------------------------------------------
(* Properties                                                              *)

Delivery == INSTANCE ScrobbleDelivery WITH pending <- buffer

ClientState ==
  [pc: {"idle", "refresh", "pick", "enqueue", "wake"},
   play: Scrobble \cup {None},
   scr: Workers \cup {NoScrobbler}]

\* Every variable has its type: rows in hand and rows that were sent were
\* once in the table, and a request past "pick" has a play and a scrobbler.
TypeOK ==
  /\ accepted \in Seq(Scrobble)
  /\ buffer \subseteq Rows
  /\ tracks \subseteq Tracks
  /\ worker \in [Workers -> WorkerState]
  /\ \A w \in Workers :
       worker[w].pc \in {"load", "send", "dequeue"} =>
         worker[w].entry \in Rows /\ worker[w].user \in worker[w].todo
  /\ current \in Workers \cup {NoScrobbler}
  /\ started \in Workers \cup {0}
  /\ loaded \in BOOLEAN
  /\ turns \in Nat
  /\ client \in [Clients -> ClientState]
  /\ \A c \in Clients :
       /\ client[c].pc # "idle" => client[c].play \in Scrobble
       /\ client[c].pc \in {"enqueue", "wake"} => client[c].scr \in Workers
  /\ received \subseteq Rows \X (Users \cup {None})
  /\ answered \subseteq Rows
  /\ stranded \subseteq Rows
  /\ faults \in Nat
  /\ crashes \in Nat

Sent == {r[1] : r \in received}

\* When the service has seen a scrobble, no scrobble of the same user that
\* was accepted before it and played no later is still in the buffer: not
\* with retries, restarts, or two workers at once (Next's order,
\* processUserQueue stopping at the first failure).
InOrder ==
  \A j \in Sent : \A i \in buffer : ~Delivery!Earlier(i, j)

\* Somebody is going to look at row i: the current worker has not read the
\* users yet, has the row's user before it, will retry, or will be woken.
Attended(i) ==
  LET me == worker[current] IN
    \/ me.pc = "users"
    \/ me.wake
    \/ me.timers > 0
    \/ \E c \in Clients : client[c].pc = "wake" /\ client[c].scr = current
    \/ /\ me.pc \in {"next", "load", "send", "dequeue"}
       /\ accepted[i].user \in me.todo \/ ~me.result

\* No lost wake-up: while the service has a buffered scrobbler, every row is
\* attended to, unless it was inserted through a scrobbler that had been
\* replaced in the meantime, whose signal nobody reads.
NothingStuck ==
  current # NoScrobbler => \A i \in buffer \ stranded : Attended(i)

\* Without failures, restarts and plugin changes a row is sent once.
SentOnce ==
  (faults = 0 /\ turns = 0 /\ crashes = 0) =>
    \A w \in Workers : worker[w].pc = "send" => worker[w].entry \notin Sent

\* The buffer implements the delivery promised: a row leaves the table only
\* after an answer or with its track, and answers come in order.
ImplementsDelivery == Delivery!Spec

\* If the service's scrobbler stays available from some time on, every row
\* leaves the buffer in the end.
EventuallyDelivered ==
  <>[](loaded /\ current # NoScrobbler) =>
    \A i \in 1 .. MaxRows : (i \in buffer \ stranded) ~> (i \notin buffer)
===============================================================================
