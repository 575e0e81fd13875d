-------------------------- MODULE HostServicesProofs --------------------------
(***************************************************************************)
(* Schedules are kept and connections known, for any number of instances,  *)
(* calls, names, timers and connections; and the sizes the store counts    *)
(* are those it holds, for any finite set of keys and of calls.              *)
(***************************************************************************)
EXTENDS HostServices, FiniteSetTheorems, WellFoundedInduction, TLAPS

----------------------------------------------------------------------------
(* The inductive invariant: what the scheduler, the connections and the     *)
(* instances they belong to know.                                           *)

Older(t, u) == timers[u].inst = timers[t].inst /\ timers[u].name = timers[t].name /\ u < t

(* An entry of the map is the last one made under its name. *)
Latest ==
  \A i \in Instances, n \in Names : schedules[i][n] # 0 =>
    /\ schedules[i][n] \in Timers /\ Shares(schedules[i][n], i, n)
    /\ \A u \in Timers : Shares(u, i, n) => u <= schedules[i][n]

(* Whoever came while an earlier one of its name was at work is unsafe. *)
Spread == \A t, u \in Timers : Older(t, u) /\ AtWork(u) => timers[t].unsafe

Once ==
  \A t \in Timers :
    /\ timers[t].live /\ ~timers[t].recurring => timers[t].pc = "waiting"
    /\ timers[t].recurring => timers[t].pc \notin {"cleanup", "done"}

FoundMade == \A t \in Timers : timers[t].found \in Timers \cup {0}

Permitted == Timers # {} => "scheduler" \in granted

SchedulerPart == SchedulerTypeOK /\ Latest /\ Spread /\ Once /\ FoundMade /\ Permitted /\ SchedulesKept

Before(k, u) == conns[u].inst = conns[k].inst /\ conns[u].name = conns[k].name /\ u < k

(* Whoever has connection k in hand. *)
Held(c, k) == call[c].pc = "close" /\ call[c].num = k

LatestConn ==
  \A i \in Instances, n \in Names : connections[i][n] # 0 =>
    /\ connections[i][n] \in Conns
    /\ conns[connections[i][n]].inst = i /\ conns[connections[i][n]].name = n
    /\ conns[connections[i][n]].pc # "done"
    /\ \A u \in Conns : conns[u].inst = i /\ conns[u].name = n => u <= connections[i][n]

SpreadConn == \A k, u \in Conns : Before(k, u) /\ conns[u].pc # "done" => conns[k].unsafe

(* A connection that can still be closed has not been: it is in the map, in *)
(* the hands of one call, or of the unloading.                              *)
Exclusive ==
  /\ \A i \in Instances, n \in Names : connections[i][n] # 0 =>
       /\ ~conns[connections[i][n]].marked
       /\ ~BeingClosed(connections[i][n])
  /\ \A c \in Calls, k \in Conns : Held(c, k) =>
       /\ ~conns[k].marked /\ k \notin hanging[conns[k].inst]
       /\ \A d \in Calls : Held(d, k) => d = c
  /\ \A i \in Instances : \A k \in hanging[i] : ~conns[k].marked /\ conns[k].inst = i

(* How often a plugin was told at most, by the place of the reader. *)
ToldOnce(r) ==
  /\ ~r.up /\ ~r.marked => r.dropped
  /\ r.up => ~r.marked /\ r.pc = "reading"
  /\ r.pc \in {"reading", "ended"} => r.told <= (IF r.marked THEN 1 ELSE 0)
  /\ r.pc \in {"leaving", "done"} /\ r.marked => r.told <= 1 \/ r.dropped
  /\ r.pc \in {"leaving", "done"} /\ ~r.marked => r.told <= 1 /\ r.dropped

Told == \A k \in Conns : ToldOnce(conns[k])

PermittedConn ==
  /\ Conns # {} => "websocket" \in granted
  /\ \A c \in Calls : call[c].pc = "dial" => "websocket" \in granted

WebSocketPart ==
  WebSocketTypeOK /\ LatestConn /\ SpreadConn /\ Exclusive /\ Told /\ PermittedConn
    /\ ConnectionsKnown

InstancePart == InstancesTypeOK /\ table \in [Keys -> Nat]

(* What is left to stop or to close is left to the Close under way. *)
Closing ==
  \A i \in Instances :
    /\ stopping[i] # {} => stage[i] = "stopping"
    /\ hanging[i] # {} => stage[i] = "hanging up"

IInv == InstancePart /\ Closing /\ SchedulerPart /\ WebSocketPart

USE DEF Instances

LEMMA TimerType ==
  ASSUME SchedulerTypeOK, NEW t \in Timers
  PROVE  /\ timers[t] \in TimerTypes
         /\ timers[t].inst \in Instances /\ timers[t].name \in Names
         /\ t \in 1..Len(timers) /\ t \in 1..MaxTimers /\ Timers = 1..Len(timers)
<1>1. timers[t] \in TimerTypes
  BY DEF SchedulerTypeOK, Timers
<1>2. timers[t].inst \in Instances /\ timers[t].name \in Names
  BY <1>1 DEF TimerTypes
<1> QED
  BY <1>1, <1>2, SchedulerAssumption DEF SchedulerTypeOK, Timers

LEMMA ConnType ==
  ASSUME WebSocketTypeOK, NEW k \in Conns
  PROVE  /\ conns[k] \in ConnTypes
         /\ conns[k].inst \in Instances /\ conns[k].name \in Names
         /\ k \in 1..Len(conns) /\ k \in 1..MaxConns /\ Conns = 1..Len(conns)
<1>1. conns[k] \in ConnTypes
  BY DEF WebSocketTypeOK, Conns
<1>2. conns[k].inst \in Instances /\ conns[k].name \in Names
  BY <1>1 DEF ConnTypes
<1> QED
  BY <1>1, <1>2, WebSocketAssumption DEF WebSocketTypeOK, Conns

----------------------------------------------------------------------------
(* Steps that leave a component alone *)

(* What the rest of the system may do while the scheduler's state stands. *)
SchedulerFrame ==
  /\ UNCHANGED <<granted, schedulerVars>>
  /\ \A i \in Instances : Timers # {} /\ Kept(i) => Kept(i)'
  /\ \A c \in Calls : call[c].pc = "cancel" \/ call'[c].pc = "cancel" => call'[c] = call[c]

LEMMA SchedulerStands ==
  ASSUME SchedulerPart, SchedulerFrame
  PROVE  SchedulerPart'
<1> USE DEF SchedulerFrame, schedulerVars
<1>0. timers' = timers /\ schedules' = schedules /\ stopping' = stopping /\ granted' = granted
  OBVIOUS
<1>1. Timers' = Timers
  BY <1>0 DEF Timers
<1>2. SchedulerTypeOK'
  BY <1>0, <1>1 DEF SchedulerPart, SchedulerTypeOK
<1>3. Latest' /\ Spread' /\ Once' /\ FoundMade' /\ Permitted'
  BY <1>0, <1>1 DEF SchedulerPart, Latest, Spread, Once, FoundMade, Permitted, Shares, Older, AtWork
<1>4. SchedulesKept'
  <2> SUFFICES ASSUME NEW t \in Timers
               PROVE  /\ timers[t].live /\ ~timers[t].unsafe =>
                            InHand(t)' \/ (/\ schedules[timers[t].inst][timers[t].name] = t
                                          /\ Kept(timers[t].inst)')
                      /\ timers[t].found \notin {0, t} => timers[timers[t].found].unsafe
    BY <1>0, <1>1 DEF SchedulesKept
  <2>1. timers[t].inst \in Instances
    BY TimerType DEF SchedulerPart
  <2>2. InHand(t) => InHand(t)'
    BY <1>0 DEF InHand
  <2>3. Kept(timers[t].inst) => Kept(timers[t].inst)'
    BY <2>1
  <2> QED
    BY <2>2, <2>3 DEF SchedulerPart, SchedulesKept
<1> QED
  BY <1>2, <1>3, <1>4 DEF SchedulerPart

WebSocketFrame ==
  /\ UNCHANGED <<granted, webSocketVars>>
  /\ \A i \in Instances : Conns # {} /\ Reachable(i) => Reachable(i)'
  /\ \A c \in Calls : call[c].pc \in {"close", "dial"} \/ call'[c].pc \in {"close", "dial"}
                        => call'[c] = call[c]

LEMMA WebSocketStands ==
  ASSUME WebSocketPart, WebSocketFrame
  PROVE  WebSocketPart'
<1> USE DEF WebSocketFrame, webSocketVars
<1>0. conns' = conns /\ connections' = connections /\ hanging' = hanging /\ granted' = granted
  OBVIOUS
<1>1. Conns' = Conns
  BY <1>0 DEF Conns
<1>2. WebSocketTypeOK'
  BY <1>0, <1>1 DEF WebSocketPart, WebSocketTypeOK
<1>3. LatestConn' /\ SpreadConn' /\ Told' /\ PermittedConn'
  BY <1>0, <1>1 DEF WebSocketPart, LatestConn, SpreadConn, Told, PermittedConn, Before
<1>4. \A k : BeingClosed(k)' <=> BeingClosed(k)
  BY <1>0 DEF BeingClosed
<1>5. \A c \in Calls : \A k : Held(c, k)' <=> Held(c, k)
  BY DEF Held
<1>6. Exclusive'
  BY <1>0, <1>1, <1>4, <1>5 DEF WebSocketPart, Exclusive
<1>7. ConnectionsKnown'
  <2> SUFFICES ASSUME NEW k \in Conns
               PROVE  /\ conns[k].up /\ ~conns[k].unsafe =>
                            BeingClosed(k)' \/ (/\ connections[conns[k].inst][conns[k].name] = k
                                               /\ Reachable(conns[k].inst)')
                      /\ conns[k].told = 2 => conns[k].dropped
    BY <1>0, <1>1 DEF ConnectionsKnown
  <2>1. conns[k].inst \in Instances
    BY ConnType DEF WebSocketPart
  <2>2. Reachable(conns[k].inst) => Reachable(conns[k].inst)'
    BY <2>1
  <2> QED
    BY <1>4, <2>2 DEF WebSocketPart, ConnectionsKnown
<1> QED
  BY <1>2, <1>3, <1>6, <1>7 DEF WebSocketPart

LEMMA Moves ==
  ASSUME InstancePart, NEW i \in Instances, NEW to \in Stages, NEW from, Move(i, from, to),
         UNCHANGED table
  PROVE  InstancePart'
BY DEF InstancePart, InstancesTypeOK, Move

LEMMA Ways ==
  ASSUME InstancePart
  PROVE  ToStore \in Stages /\ ToWebSocket \in Stages /\ ToScheduler \in Stages
BY DEF ToStore, ToWebSocket, ToScheduler, Stages

(* Steps that neither load nor unload, and one call at most. *)
LEMMA CallsStand ==
  ASSUME InstancePart, UNCHANGED <<granted, stage, table>>,
         NEW c \in Calls, NEW r \in CallTypes, call' = [call EXCEPT ![c] = r]
  PROVE  InstancePart'
BY DEF InstancePart, InstancesTypeOK

LEMMA IdleType == Idle \in CallTypes
BY InstancesAssumption DEF Idle, CallTypes

----------------------------------------------------------------------------
(* The scheduler *)

LEMMA ScheduleKeeps ==
  ASSUME SchedulerPart, InstancePart, NEW i \in Instances, NEW n \in Names,
         NEW recurring \in BOOLEAN, Schedule(i, n, recurring)
  PROVE  SchedulerPart'
<1> DEFINE new == Len(timers) + 1
<1> DEFINE r == [inst |-> i, name |-> n, recurring |-> recurring, live |-> TRUE,
                 pc |-> "waiting", found |-> 0,
                 unsafe |-> ~Kept(i) \/ \E t \in Timers : Shares(t, i, n) /\ AtWork(t)]
<1>1. /\ timers' = Append(timers, r) /\ schedules' = [schedules EXCEPT ![i][n] = new]
      /\ stopping' = stopping /\ call' = call /\ stage' = stage /\ granted' = granted
      /\ schedules[i][n] = 0 /\ "scheduler" \in granted /\ Len(timers) < MaxTimers
  BY DEF Schedule, instanceVars, May
<1>2. r \in TimerTypes
  BY SchedulerAssumption DEF TimerTypes
<1>3. /\ timers \in Seq(TimerTypes) /\ Len(timers) \in Nat
      /\ schedules \in [Instances -> [Names -> 0..Len(timers)]]
      /\ stopping \in [Instances -> SUBSET Timers] /\ Timers = 1..Len(timers)
  BY DEF SchedulerPart, SchedulerTypeOK, Timers
<1>r. /\ r.inst = i /\ r.name = n /\ r.live /\ r.pc = "waiting" /\ r.found = 0
      /\ r.recurring = recurring
      /\ r.unsafe = (~Kept(i) \/ \E t \in Timers : Shares(t, i, n) /\ AtWork(t))
  OBVIOUS
<1> HIDE DEF r
<1>4. /\ timers' \in Seq(TimerTypes) /\ Len(timers') = new /\ Timers' = Timers \cup {new}
      /\ timers'[new] = r /\ \A t \in Timers : timers'[t] = timers[t] /\ t < new
      /\ new \notin Timers
  BY <1>1, <1>2, <1>3 DEF Timers
<1>5. SchedulerTypeOK'
  <2>1. schedules' \in [Instances -> [Names -> 0..Len(timers')]]
    BY <1>1, <1>3, <1>4
  <2>2. stopping' \in [Instances -> SUBSET Timers']
    BY <1>1, <1>3, <1>4
  <2>3. Len(timers') <= MaxTimers
    BY <1>1, <1>3, <1>4, SchedulerAssumption
  <2> QED
    BY <1>1, <1>4, <2>1, <2>2, <2>3 DEF SchedulerTypeOK, SchedulerPart
<1>6. \A t \in Timers : timers[t].inst \in Instances /\ timers[t].name \in Names
  BY TimerType DEF SchedulerPart
<1>e. /\ schedules'[i][n] = new
      /\ \A j \in Instances, m \in Names : <<j, m>> # <<i, n>> => schedules'[j][m] = schedules[j][m]
  BY <1>1, <1>3
<1>7. Latest'
  <2> SUFFICES ASSUME NEW j \in Instances, NEW m \in Names, schedules'[j][m] # 0
               PROVE  /\ schedules'[j][m] \in Timers' /\ Shares(schedules[j][m], j, m)'
                      /\ \A u \in Timers' : Shares(u, j, m)' => u <= schedules'[j][m]
    BY DEF Latest
  <2>1. CASE j = i /\ m = n
    <3>1. schedules'[j][m] = new
      BY <2>1, <1>e
    <3> QED
      BY <3>1, <2>1, <1>4, <1>r, <1>3 DEF Shares
  <2>2. CASE ~(j = i /\ m = n)
    <3>1. schedules'[j][m] = schedules[j][m] /\ schedules[j][m] \in Timers
      BY <2>2, <1>e DEF SchedulerPart, Latest
    <3>2. Shares(schedules[j][m], j, m) /\ \A u \in Timers : Shares(u, j, m) => u <= schedules[j][m]
      BY <3>1 DEF SchedulerPart, Latest
    <3> QED
      BY <3>1, <3>2, <1>4, <1>r, <2>2 DEF Shares
  <2> QED
    BY <2>1, <2>2
<1>8. Spread'
  <2> SUFFICES ASSUME NEW t \in Timers', NEW u \in Timers', Older(t, u)', AtWork(u)'
               PROVE  timers'[t].unsafe
    BY DEF Spread
  <2>1. CASE t = new
    <3>1. u \in Timers /\ timers'[u] = timers[u] /\ Shares(u, i, n)
      BY <2>1, <1>4, <1>r, <1>3 DEF Older, Shares
    <3>2. AtWork(u)
      BY <3>1 DEF AtWork
    <3> QED
      BY <2>1, <3>1, <3>2, <1>r, <1>4
  <2>2. CASE t # new
    <3>1. t \in Timers /\ u \in Timers
      BY <2>2, <1>4, <1>3 DEF Older
    <3>2. Older(t, u) /\ AtWork(u)
      BY <3>1, <1>4 DEF Older, AtWork
    <3> QED
      BY <3>1, <3>2, <1>4 DEF SchedulerPart, Spread
  <2> QED
    BY <2>1, <2>2
<1>9. Once' /\ FoundMade' /\ Permitted'
  BY <1>1, <1>4, <1>r DEF SchedulerPart, Once, FoundMade, Permitted
<1>10. SchedulesKept'
  <2> SUFFICES ASSUME NEW t \in Timers'
               PROVE  /\ timers'[t].live /\ ~timers'[t].unsafe =>
                            InHand(t)' \/ (/\ schedules'[timers'[t].inst][timers'[t].name] = t
                                          /\ Kept(timers[t].inst)')
                      /\ timers'[t].found \notin {0, t} => timers'[timers'[t].found].unsafe
    BY DEF SchedulesKept
  <2>1. CASE t = new
    <3>1. /\ timers'[t] = r /\ r.inst = i /\ r.name = n /\ r.found = 0
          /\ schedules'[i][n] = t /\ (~r.unsafe => Kept(i)')
      BY <2>1, <1>4, <1>e, <1>r, <1>1 DEF Kept
    <3> QED
      BY <3>1
  <2>2. CASE t # new
    <3>1. t \in Timers /\ timers'[t] = timers[t]
      BY <2>2, <1>4
    <3>2. InHand(t)' <=> InHand(t)
      BY <3>1, <1>1 DEF InHand
    <3>3. schedules[timers[t].inst][timers[t].name] = t /\ Kept(timers[t].inst)
            => schedules'[timers[t].inst][timers[t].name] = t /\ Kept(timers[t].inst)'
      <4>1. t # 0
        BY <3>1, <1>3
      <4> QED
        BY <4>1, <3>1, <1>1, <1>6, <1>e DEF Kept
    <3>4. timers[t].found \notin {0, t} => timers[timers[t].found].unsafe /\ timers[t].found \in Timers
      BY <3>1 DEF SchedulerPart, SchedulesKept, FoundMade
    <3> QED
      BY <3>1, <3>2, <3>3, <3>4, <1>4 DEF SchedulerPart, SchedulesKept
  <2> QED
    BY <2>1, <2>2
<1> QED
  BY <1>5, <1>7, <1>8, <1>9, <1>10 DEF SchedulerPart

(* Every other step of the scheduler makes no timer: entries go, timers get  *)
(* on, and what can still fire is handed from one to the next.              *)
SchedulerMoves ==
  /\ granted' = granted
  /\ timers' \in Seq(TimerTypes) /\ Len(timers') = Len(timers)
  /\ schedules' \in [Instances -> [Names -> 0..Len(timers)]]
  /\ stopping' \in [Instances -> SUBSET Timers]
  /\ \A c \in Calls : call'[c].pc = "cancel" => call'[c].num \in Timers
  /\ \A u \in Timers :
       /\ timers'[u].inst = timers[u].inst /\ timers'[u].name = timers[u].name
       /\ timers'[u].recurring = timers[u].recurring /\ timers'[u].unsafe = timers[u].unsafe
       /\ AtWork(u)' => AtWork(u)
       /\ timers'[u].live => timers[u].live
       /\ timers'[u].live /\ ~timers'[u].recurring => timers'[u].pc = "waiting"
       /\ timers'[u].recurring => timers'[u].pc \notin {"cleanup", "done"}
       /\ timers'[u].found \in Timers \cup {0}
       /\ timers'[u].found \notin {0, u} => timers[timers'[u].found].unsafe
  /\ \A j \in Instances, m \in Names : schedules'[j][m] \in {0, schedules[j][m]}
  /\ \A u \in Timers :
       timers'[u].live /\ ~timers[u].unsafe /\
         (InHand(u) \/ (schedules[timers[u].inst][timers[u].name] = u /\ Kept(timers[u].inst)))
       => InHand(u)' \/ (/\ schedules'[timers[u].inst][timers[u].name] = u
                        /\ stage'[timers[u].inst] \in {"loaded", "scheduler"})

LEMMA SchedulerMoved ==
  ASSUME SchedulerPart, SchedulerMoves
  PROVE  SchedulerPart'
<1> USE DEF SchedulerMoves
<1>1. Timers' = Timers
  BY DEF SchedulerPart, SchedulerTypeOK, Timers
<1>2. SchedulerTypeOK'
  <2>1. Len(timers') <= MaxTimers /\ schedules' \in [Instances -> [Names -> 0..Len(timers')]]
    BY DEF SchedulerPart, SchedulerTypeOK
  <2> QED
    BY <1>1, <2>1 DEF SchedulerTypeOK
<1>3. Latest'
  <2> SUFFICES ASSUME NEW j \in Instances, NEW m \in Names, schedules'[j][m] # 0
               PROVE  /\ schedules'[j][m] \in Timers /\ Shares(schedules[j][m], j, m)'
                      /\ \A u \in Timers : Shares(u, j, m)' => u <= schedules'[j][m]
    BY <1>1 DEF Latest
  <2>1. schedules'[j][m] = schedules[j][m]
    OBVIOUS
  <2>2. /\ schedules[j][m] \in Timers /\ Shares(schedules[j][m], j, m)
        /\ \A u \in Timers : Shares(u, j, m) => u <= schedules[j][m]
    BY <2>1 DEF SchedulerPart, Latest
  <2> QED
    BY <2>1, <2>2 DEF Shares
<1>4. Spread'
  <2> SUFFICES ASSUME NEW t \in Timers, NEW u \in Timers, Older(t, u)', AtWork(u)'
               PROVE  timers'[t].unsafe
    BY <1>1 DEF Spread
  <2>1. Older(t, u) /\ AtWork(u)
    BY DEF Older
  <2> QED
    BY <2>1 DEF SchedulerPart, Spread
<1>5. Once' /\ FoundMade' /\ Permitted'
  BY <1>1 DEF SchedulerPart, Once, FoundMade, Permitted
<1>6. SchedulesKept'
  <2> SUFFICES ASSUME NEW t \in Timers
               PROVE  /\ timers'[t].live /\ ~timers'[t].unsafe =>
                            InHand(t)' \/ (/\ schedules'[timers'[t].inst][timers'[t].name] = t
                                          /\ Kept(timers[t].inst)')
                      /\ timers'[t].found \notin {0, t} => timers'[timers'[t].found].unsafe
    BY <1>1 DEF SchedulesKept
  <2>1. timers'[t].found \notin {0, t} => timers'[timers'[t].found].unsafe
    OBVIOUS
  <2>2. SUFFICES ASSUME timers'[t].live, ~timers'[t].unsafe
                 PROVE  InHand(t)' \/ (/\ schedules'[timers'[t].inst][timers'[t].name] = t
                                      /\ Kept(timers[t].inst)')
    BY <2>1
  <2>3. InHand(t) \/ (schedules[timers[t].inst][timers[t].name] = t /\ Kept(timers[t].inst))
    BY <2>2 DEF SchedulerPart, SchedulesKept
  <2>4. InHand(t)' \/ (/\ schedules'[timers[t].inst][timers[t].name] = t
                      /\ stage'[timers[t].inst] \in {"loaded", "scheduler"})
    BY <2>2, <2>3
  <2>5. timers'[t].inst = timers[t].inst /\ timers'[t].name = timers[t].name
    OBVIOUS
  <2> QED
    BY <2>4, <2>5 DEF Kept
<1> QED
  BY <1>2, <1>3, <1>4, <1>5, <1>6 DEF SchedulerPart

(* The timers where only t changes, field by field. *)
LEMMA OneTimer ==
  ASSUME SchedulerPart, NEW t \in Timers, NEW r \in TimerTypes, timers' = [timers EXCEPT ![t] = r]
  PROVE  /\ timers' \in Seq(TimerTypes) /\ Len(timers') = Len(timers)
         /\ timers'[t] = r /\ \A u \in Timers \ {t} : timers'[u] = timers[u]
BY DEF SchedulerPart, SchedulerTypeOK, Timers

LEMMA CancelKeeps ==
  ASSUME SchedulerPart, InstancePart, NEW c \in Calls, NEW i \in Instances, NEW n \in Names,
         Cancel(c, i, n)
  PROVE  SchedulerPart'
<1>0. PICK e \in Timers : e = schedules[i][n]
  BY DEF Cancel, SchedulerPart, Latest
<1>1. /\ timers' = timers /\ schedules' = [schedules EXCEPT ![i][n] = 0] /\ stopping' = stopping
      /\ stage' = stage /\ granted' = granted
      /\ call[c].pc = "idle"
      /\ call' = [call EXCEPT ![c] = [pc |-> "cancel", inst |-> i, name |-> n, num |-> e, old |-> 0]]
  BY <1>0 DEF Cancel, Enter
<1>2. call'[c].pc = "cancel" /\ call'[c].num = e /\ \A d \in Calls \ {c} : call'[d] = call[d]
  BY <1>1 DEF InstancePart, InstancesTypeOK
<1>3. schedules \in [Instances -> [Names -> 0..Len(timers)]]
  BY DEF SchedulerPart, SchedulerTypeOK
<1>4. \A u \in Timers : InHand(u) => InHand(u)'
  BY <1>1, <1>2 DEF InHand
<1>5. InHand(e)'
  BY <1>2 DEF InHand
<1>6. \A u \in Timers : timers[u].inst \in Instances /\ timers[u].name \in Names
  BY TimerType DEF SchedulerPart
<1>7. /\ schedules' \in [Instances -> [Names -> 0..Len(timers)]]
      /\ \A j \in Instances, m \in Names : schedules'[j][m] \in {0, schedules[j][m]}
      /\ \A j \in Instances, m \in Names : schedules'[j][m] # schedules[j][m] => schedules[j][m] = e
  BY <1>0, <1>1, <1>3
<1>8. \A d \in Calls : call'[d].pc = "cancel" => call'[d].num \in Timers
  BY <1>2, <1>3 DEF SchedulerPart, SchedulerTypeOK
<1>9. SchedulerMoves
  <2>1. \A u \in Timers : (AtWork(u)' => AtWork(u))
    BY <1>1 DEF AtWork
  <2>2. \A u \in Timers :
          InHand(u) \/ (schedules[timers[u].inst][timers[u].name] = u /\ Kept(timers[u].inst))
          => InHand(u)' \/ (/\ schedules'[timers[u].inst][timers[u].name] = u
                           /\ stage'[timers[u].inst] \in {"loaded", "scheduler"})
    BY <1>1, <1>4, <1>5, <1>6, <1>7 DEF Kept
  <2>3. timers' \in Seq(TimerTypes) /\ Len(timers') = Len(timers)
          /\ stopping' \in [Instances -> SUBSET Timers]
    BY <1>1 DEF SchedulerPart, SchedulerTypeOK
  <2> QED
    BY <1>1, <1>7, <1>8, <2>1, <2>2, <2>3
    DEF SchedulerMoves, SchedulerPart, Once, FoundMade, SchedulesKept
<1> QED
  BY <1>9, SchedulerMoved

(* Steps of the goroutine of one timer: entries are not touched. *)
TimerMoves(t) ==
  /\ UNCHANGED <<instanceVars, schedules, stopping>>
  /\ timers' \in Seq(TimerTypes) /\ Len(timers') = Len(timers)
  /\ \A u \in Timers \ {t} : timers'[u] = timers[u]
  /\ timers'[t].inst = timers[t].inst /\ timers'[t].name = timers[t].name
  /\ timers'[t].recurring = timers[t].recurring /\ timers'[t].unsafe = timers[t].unsafe
  /\ AtWork(t)' => AtWork(t)
  /\ timers'[t].live => timers[t].live
  /\ timers'[t].live /\ ~timers'[t].recurring => timers'[t].pc = "waiting"
  /\ timers'[t].recurring => timers'[t].pc \notin {"cleanup", "done"}
  /\ timers'[t].found \in Timers \cup {0}
  /\ timers'[t].found \notin {0, t} => timers[timers'[t].found].unsafe

LEMMA TimerMoved ==
  ASSUME SchedulerPart, NEW t \in Timers, TimerMoves(t)
  PROVE  SchedulerPart'
<1>1. /\ granted' = granted /\ stage' = stage /\ call' = call /\ schedules' = schedules
      /\ stopping' = stopping
  BY DEF TimerMoves, instanceVars
<1>2. \A u \in Timers \ {t} : AtWork(u)' => AtWork(u)
  BY DEF TimerMoves, AtWork
<1>3. \A u \in Timers :
       /\ timers'[u].inst = timers[u].inst /\ timers'[u].name = timers[u].name
       /\ timers'[u].recurring = timers[u].recurring /\ timers'[u].unsafe = timers[u].unsafe
       /\ AtWork(u)' => AtWork(u)
       /\ timers'[u].live => timers[u].live
       /\ timers'[u].live /\ ~timers'[u].recurring => timers'[u].pc = "waiting"
       /\ timers'[u].recurring => timers'[u].pc \notin {"cleanup", "done"}
       /\ timers'[u].found \in Timers \cup {0}
       /\ timers'[u].found \notin {0, u} => timers[timers'[u].found].unsafe
  BY <1>2 DEF TimerMoves, SchedulerPart, Once, FoundMade, SchedulesKept
<1>4. \A u \in Timers : InHand(u)' <=> InHand(u)
  BY <1>1, <1>3 DEF InHand
<1>5. /\ timers' \in Seq(TimerTypes) /\ Len(timers') = Len(timers)
      /\ schedules' \in [Instances -> [Names -> 0..Len(timers)]]
      /\ stopping' \in [Instances -> SUBSET Timers]
      /\ \A c \in Calls : call'[c].pc = "cancel" => call'[c].num \in Timers
  BY <1>1 DEF TimerMoves, SchedulerPart, SchedulerTypeOK
<1>6. SchedulerMoves
  BY <1>1, <1>3, <1>4, <1>5 DEF SchedulerMoves, Kept
<1> QED
  BY <1>6, SchedulerMoved

LEMMA FireKeeps ==
  ASSUME SchedulerPart, NEW t \in Timers, Fire(t)
  PROVE  SchedulerPart'
<1> DEFINE r == [timers[t] EXCEPT !.pc = "fired", !.live = timers[t].recurring]
<1>1. timers[t] \in TimerTypes
  BY TimerType DEF SchedulerPart
<1>2. /\ r \in TimerTypes /\ r.pc = "fired" /\ r.live = timers[t].recurring
      /\ r.inst = timers[t].inst /\ r.name = timers[t].name /\ r.found = timers[t].found
      /\ r.recurring = timers[t].recurring /\ r.unsafe = timers[t].unsafe
  BY <1>1 DEF TimerTypes
<1>3. timers' = [timers EXCEPT ![t] = r]
  BY <1>1 DEF Fire, SchedulerPart, SchedulerTypeOK, Timers, TimerTypes
<1> HIDE DEF r
<1>4. /\ timers' \in Seq(TimerTypes) /\ Len(timers') = Len(timers)
      /\ timers'[t] = r /\ \A u \in Timers \ {t} : timers'[u] = timers[u]
  BY <1>2, <1>3, OneTimer
<1>5. TimerMoves(t)
  BY <1>2, <1>4 DEF TimerMoves, Fire, AtWork, SchedulerPart, Once, FoundMade, SchedulesKept
<1> QED
  BY <1>5, TimerMoved

LEMMA LookUpKeeps ==
  ASSUME SchedulerPart, NEW t \in Timers, LookUp(t)
  PROVE  SchedulerPart'
<1>0. PICK e \in Timers \cup {0} : e = schedules[timers[t].inst][timers[t].name]
  <2>1. timers[t].inst \in Instances /\ timers[t].name \in Names
    BY TimerType DEF SchedulerPart
  <2> QED
    BY <2>1 DEF SchedulerPart, Latest
<1> DEFINE r == [timers[t] EXCEPT !.pc = IF e = 0 THEN After(t) ELSE "calling", !.found = e]
<1>1. timers[t] \in TimerTypes /\ timers[t].inst \in Instances /\ timers[t].name \in Names
  BY TimerType DEF SchedulerPart
<1>a. After(t) = IF timers[t].recurring THEN "waiting" ELSE "cleanup"
  BY DEF After
<1>2. e \in 0..MaxTimers
  BY TimerType, SchedulerAssumption DEF SchedulerPart
<1>3. /\ r \in TimerTypes /\ r.pc = (IF e = 0 THEN After(t) ELSE "calling")
      /\ r.live = timers[t].live /\ r.found = e
      /\ r.inst = timers[t].inst /\ r.name = timers[t].name
      /\ r.recurring = timers[t].recurring /\ r.unsafe = timers[t].unsafe
  BY <1>1, <1>a, <1>2 DEF TimerTypes
<1>4. timers' = [timers EXCEPT ![t] = r] /\ timers[t].pc = "fired"
  BY <1>0, <1>1 DEF LookUp, SchedulerPart, SchedulerTypeOK, Timers, TimerTypes
<1> HIDE DEF r
<1>5. /\ timers' \in Seq(TimerTypes) /\ Len(timers') = Len(timers)
      /\ timers'[t] = r /\ \A u \in Timers \ {t} : timers'[u] = timers[u]
  BY <1>3, <1>4, OneTimer
<1>6. e \notin {0, t} => timers[e].unsafe
  <2> SUFFICES ASSUME e # 0, e # t PROVE timers[e].unsafe
    OBVIOUS
  <2>1. e \in Timers /\ Shares(e, timers[t].inst, timers[t].name) /\ t <= e
    BY <1>0, <1>1 DEF SchedulerPart, Latest, Shares
  <2>2. Older(e, t) /\ AtWork(t)
    BY <2>1, <1>4, TimerType DEF Older, AtWork, Shares, SchedulerPart
  <2> QED
    BY <2>1, <2>2 DEF SchedulerPart, Spread
<1>7. timers[t].live => timers[t].recurring
  BY <1>4 DEF SchedulerPart, Once
<1>8. TimerMoves(t)
  BY <1>3, <1>a, <1>4, <1>5, <1>6, <1>7 DEF TimerMoves, LookUp, AtWork
<1> QED
  BY <1>8, TimerMoved

LEMMA ReturnKeeps ==
  ASSUME SchedulerPart, NEW t \in Timers, Return(t)
  PROVE  SchedulerPart'
<1> DEFINE r == [timers[t] EXCEPT !.pc = After(t)]
<1>1. timers[t] \in TimerTypes
  BY TimerType DEF SchedulerPart
<1>a. After(t) = IF timers[t].recurring THEN "waiting" ELSE "cleanup"
  BY DEF After
<1>2. /\ r \in TimerTypes /\ r.pc = After(t)
      /\ r.live = timers[t].live /\ r.found = timers[t].found
      /\ r.inst = timers[t].inst /\ r.name = timers[t].name
      /\ r.recurring = timers[t].recurring /\ r.unsafe = timers[t].unsafe
  BY <1>1, <1>a DEF TimerTypes
<1>3. timers' = [timers EXCEPT ![t] = r] /\ timers[t].pc = "calling"
  BY <1>1 DEF Return, SchedulerPart, SchedulerTypeOK, Timers, TimerTypes
<1> HIDE DEF r
<1>4. /\ timers' \in Seq(TimerTypes) /\ Len(timers') = Len(timers)
      /\ timers'[t] = r /\ \A u \in Timers \ {t} : timers'[u] = timers[u]
  BY <1>2, <1>3, OneTimer
<1>5. timers[t].live => timers[t].recurring
  BY <1>3 DEF SchedulerPart, Once
<1>6. timers[t].found \in Timers \cup {0}
        /\ (timers[t].found \notin {0, t} => timers[timers[t].found].unsafe)
  BY DEF SchedulerPart, FoundMade, SchedulesKept
<1>7. TimerMoves(t)
  BY <1>2, <1>a, <1>3, <1>4, <1>5, <1>6 DEF TimerMoves, Return, AtWork
<1> QED
  BY <1>7, TimerMoved

(* A timer that is stopped, by a call or by the unloading. *)
LEMMA StoppedTimer ==
  ASSUME SchedulerPart, NEW t \in Timers, Stopped(t)
  PROVE  /\ timers' \in Seq(TimerTypes) /\ Len(timers') = Len(timers)
         /\ ~timers'[t].live /\ \A u \in Timers \ {t} : timers'[u] = timers[u]
         /\ \A u \in Timers :
              /\ timers'[u].inst = timers[u].inst /\ timers'[u].name = timers[u].name
              /\ timers'[u].recurring = timers[u].recurring /\ timers'[u].unsafe = timers[u].unsafe
              /\ AtWork(u)' => AtWork(u)
              /\ timers'[u].live => timers[u].live
              /\ timers'[u].live /\ ~timers'[u].recurring => timers'[u].pc = "waiting"
              /\ timers'[u].recurring => timers'[u].pc \notin {"cleanup", "done"}
              /\ timers'[u].found \in Timers \cup {0}
              /\ timers'[u].found \notin {0, u} => timers[timers'[u].found].unsafe
<1> DEFINE r == [timers[t] EXCEPT !.live = FALSE]
<1>1. timers[t] \in TimerTypes
  BY TimerType DEF SchedulerPart
<1>2. /\ r \in TimerTypes /\ r.pc = timers[t].pc /\ ~r.live /\ r.found = timers[t].found
      /\ r.inst = timers[t].inst /\ r.name = timers[t].name
      /\ r.recurring = timers[t].recurring /\ r.unsafe = timers[t].unsafe
  BY <1>1 DEF TimerTypes
<1>3. timers' = [timers EXCEPT ![t] = r]
  BY <1>1 DEF Stopped, SchedulerPart, SchedulerTypeOK, Timers, TimerTypes
<1> HIDE DEF r
<1>4. /\ timers' \in Seq(TimerTypes) /\ Len(timers') = Len(timers)
      /\ timers'[t] = r /\ \A u \in Timers \ {t} : timers'[u] = timers[u]
  BY <1>2, <1>3, OneTimer
<1>5. \A u \in Timers : AtWork(u)' => AtWork(u)
  BY <1>2, <1>4 DEF AtWork
<1>6. /\ Once /\ FoundMade
      /\ \A u \in Timers : timers[u].found \notin {0, u} => timers[timers[u].found].unsafe
  BY DEF SchedulerPart, SchedulesKept
<1> QED
  BY <1>2, <1>4, <1>5, <1>6 DEF Once, FoundMade

LEMMA StopCancelledKeeps ==
  ASSUME SchedulerPart, InstancePart, NEW c \in Calls, StopCancelled(c)
  PROVE  SchedulerPart'
<1>0. PICK t \in Timers : t = call[c].num
  BY DEF StopCancelled, SchedulerPart, SchedulerTypeOK
<1>1. /\ Stopped(t) /\ call' = [call EXCEPT ![c] = Idle] /\ granted' = granted /\ stage' = stage
      /\ schedules' = schedules /\ stopping' = stopping
  BY <1>0 DEF StopCancelled, Leave
<1>2. call'[c].pc = "idle" /\ \A d \in Calls \ {c} : call'[d] = call[d]
  BY <1>1 DEF InstancePart, InstancesTypeOK, Idle
<1>3. \A u \in Timers \ {t} : InHand(u) => InHand(u)'
  BY <1>0, <1>1, <1>2, StoppedTimer DEF InHand
<1>4. /\ schedules' \in [Instances -> [Names -> 0..Len(timers)]]
      /\ stopping' \in [Instances -> SUBSET Timers]
      /\ \A d \in Calls : call'[d].pc = "cancel" => call'[d].num \in Timers
  BY <1>1, <1>2 DEF SchedulerPart, SchedulerTypeOK
<1>5. SchedulerMoves
  BY <1>1, <1>3, <1>4, StoppedTimer DEF SchedulerMoves, Kept
<1> QED
  BY <1>5, SchedulerMoved

LEMMA StopOneKeeps ==
  ASSUME SchedulerPart, InstancePart, NEW i \in Instances, NEW t \in stopping[i], StopOne(i, t)
  PROVE  SchedulerPart'
<1>0. t \in Timers
  BY DEF SchedulerPart, SchedulerTypeOK
<1>1. /\ Stopped(t) /\ call' = call /\ granted' = granted /\ stage' = stage
      /\ schedules' = schedules /\ stopping' = [stopping EXCEPT ![i] = @ \ {t}]
  BY DEF StopOne, instanceVars
<1>2. stopping \in [Instances -> SUBSET Timers]
  BY DEF SchedulerPart, SchedulerTypeOK
<1>3. \A u \in Timers \ {t} : InHand(u) => InHand(u)'
  <2> SUFFICES ASSUME NEW u \in Timers \ {t}, InHand(u) PROVE InHand(u)'
    OBVIOUS
  <2>1. timers'[u] = timers[u] /\ timers[u].inst \in Instances
    BY <1>0, <1>1, StoppedTimer, TimerType DEF SchedulerPart
  <2>2. u \in stopping[timers[u].inst] => u \in stopping'[timers'[u].inst]
    BY <2>1, <1>1, <1>2
  <2> QED
    BY <2>2, <1>1 DEF InHand
<1>4. /\ schedules' \in [Instances -> [Names -> 0..Len(timers)]]
      /\ stopping' \in [Instances -> SUBSET Timers]
      /\ \A d \in Calls : call'[d].pc = "cancel" => call'[d].num \in Timers
  BY <1>1 DEF SchedulerPart, SchedulerTypeOK
<1>5. SchedulerMoves
  BY <1>0, <1>1, <1>3, <1>4, StoppedTimer DEF SchedulerMoves, Kept
<1> QED
  BY <1>5, SchedulerMoved

(* The deletion by name takes the entry of the timer that fired, or one that *)
(* was made while it was at work.                                           *)
LEMMA CleanUpKeeps ==
  ASSUME SchedulerPart, InstancePart, NEW t \in Timers, CleanUp(t)
  PROVE  SchedulerPart'
<1> DEFINE r == [timers[t] EXCEPT !.pc = "done"]
<1>1. timers[t] \in TimerTypes /\ timers[t].inst \in Instances /\ timers[t].name \in Names
  BY TimerType DEF SchedulerPart
<1>2. /\ r \in TimerTypes /\ r.pc = "done"
      /\ r.live = timers[t].live /\ r.found = timers[t].found
      /\ r.inst = timers[t].inst /\ r.name = timers[t].name
      /\ r.recurring = timers[t].recurring /\ r.unsafe = timers[t].unsafe
  BY <1>1 DEF TimerTypes
<1>3. timers' = [timers EXCEPT ![t] = r] /\ timers[t].pc = "cleanup"
  BY <1>1 DEF CleanUp, SchedulerPart, SchedulerTypeOK, Timers, TimerTypes
<1> HIDE DEF r
<1>4. /\ timers' \in Seq(TimerTypes) /\ Len(timers') = Len(timers)
      /\ timers'[t] = r /\ \A u \in Timers \ {t} : timers'[u] = timers[u]
  BY <1>2, <1>3, OneTimer
<1>0. PICK i \in Instances, n \in Names : i = timers[t].inst /\ n = timers[t].name
  BY <1>1
<1>5. /\ call' = call /\ granted' = granted /\ stage' = stage /\ stopping' = stopping
      /\ schedules' = [schedules EXCEPT ![i][n] = 0]
      /\ schedules \in [Instances -> [Names -> 0..Len(timers)]]
      /\ stopping \in [Instances -> SUBSET Timers]
      /\ \A c \in Calls : call[c].pc = "cancel" => call[c].num \in Timers
  BY <1>0 DEF CleanUp, instanceVars, SchedulerPart, SchedulerTypeOK
<1>6. ~timers[t].recurring /\ ~timers[t].live
  BY <1>3 DEF SchedulerPart, Once
<1>7. schedules[i][n] \notin {0, t} => timers[schedules[i][n]].unsafe
  <2> SUFFICES ASSUME schedules[i][n] # 0, schedules[i][n] # t
               PROVE  timers[schedules[i][n]].unsafe
    OBVIOUS
  <2>0. PICK e \in Timers : e = schedules[i][n]
    BY DEF SchedulerPart, Latest
  <2>1. Shares(e, i, n) /\ t <= e
    BY <2>0, <1>0, <1>1 DEF SchedulerPart, Latest, Shares
  <2>2. Older(e, t) /\ AtWork(t)
    BY <2>0, <2>1, <1>0, <1>3, TimerType DEF Older, AtWork, Shares, SchedulerPart
  <2> QED
    BY <2>0, <2>2 DEF SchedulerPart, Spread
<1>8. \A u \in Timers : timers[u].inst \in Instances /\ timers[u].name \in Names
  BY TimerType DEF SchedulerPart
<1>9. \A u \in Timers :
       /\ timers'[u].inst = timers[u].inst /\ timers'[u].name = timers[u].name
       /\ timers'[u].recurring = timers[u].recurring /\ timers'[u].unsafe = timers[u].unsafe
       /\ AtWork(u)' => AtWork(u)
       /\ timers'[u].live => timers[u].live
       /\ timers'[u].live /\ ~timers'[u].recurring => timers'[u].pc = "waiting"
       /\ timers'[u].recurring => timers'[u].pc \notin {"cleanup", "done"}
       /\ timers'[u].found \in Timers \cup {0}
       /\ timers'[u].found \notin {0, u} => timers[timers'[u].found].unsafe
  <2>1. \A u \in Timers : AtWork(u)' => AtWork(u)
    BY <1>2, <1>4, <1>6 DEF AtWork
  <2> QED
    BY <2>1, <1>2, <1>4, <1>6 DEF SchedulerPart, Once, FoundMade, SchedulesKept
<1>10. \A u \in Timers : InHand(u)' <=> InHand(u)
  BY <1>5, <1>9 DEF InHand
<1>11. /\ schedules' \in [Instances -> [Names -> 0..Len(timers)]]
       /\ \A j \in Instances, m \in Names : schedules'[j][m] \in {0, schedules[j][m]}
       /\ \A j \in Instances, m \in Names :
            schedules'[j][m] # schedules[j][m] => j = i /\ m = n
  BY <1>5
<1>12. \A u \in Timers :
         timers'[u].live /\ ~timers[u].unsafe
           /\ schedules[timers[u].inst][timers[u].name] = u
         => schedules'[timers[u].inst][timers[u].name] = u
  <2> SUFFICES ASSUME NEW u \in Timers, timers'[u].live, ~timers[u].unsafe,
                      schedules[timers[u].inst][timers[u].name] = u,
                      schedules'[timers[u].inst][timers[u].name] # u
               PROVE  FALSE
    OBVIOUS
  <2>1. timers[u].inst = i /\ timers[u].name = n
    BY <1>8, <1>11
  <2>2. u # t /\ u # 0
    BY <1>4, <1>2, <1>6, TimerType DEF SchedulerPart
  <2> QED
    BY <2>1, <2>2, <1>7
<1>13. SchedulerMoves
  BY <1>4, <1>5, <1>9, <1>10, <1>11, <1>12 DEF SchedulerMoves, Kept
<1> QED
  BY <1>13, SchedulerMoved

LEMMA TakeSchedulesKeeps ==
  ASSUME SchedulerPart, InstancePart, Closing, NEW i \in Instances, TakeSchedules(i)
  PROVE  SchedulerPart'
<1>1. /\ timers' = timers /\ call' = call /\ granted' = granted
      /\ stage[i] = "scheduler" /\ stage' = [stage EXCEPT ![i] = "stopping"]
      /\ stopping' = [stopping EXCEPT ![i] = Entries(schedules[i])]
      /\ schedules' = [schedules EXCEPT ![i] = [n \in Names |-> 0]]
  BY DEF TakeSchedules, Move
<1>2. /\ schedules \in [Instances -> [Names -> 0..Len(timers)]]
      /\ stopping \in [Instances -> SUBSET Timers] /\ stage \in [Instances -> Stages]
      /\ timers \in Seq(TimerTypes)
      /\ \A c \in Calls : call[c].pc = "cancel" => call[c].num \in Timers
  BY DEF SchedulerPart, SchedulerTypeOK, InstancePart, InstancesTypeOK
<1>3. Entries(schedules[i]) \subseteq Timers
  BY DEF Entries, SchedulerPart, Latest
<1>4. \A u \in Timers : timers[u].inst \in Instances /\ timers[u].name \in Names /\ u # 0
  BY TimerType DEF SchedulerPart
<1>5. stopping' \in [Instances -> SUBSET Timers]
  BY <1>1, <1>2, <1>3
<1>6. /\ schedules' \in [Instances -> [Names -> 0..Len(timers)]]
      /\ \A j \in Instances, m \in Names : schedules'[j][m] \in {0, schedules[j][m]}
      /\ \A j \in Instances \ {i} : schedules'[j] = schedules[j] /\ stage'[j] = stage[j]
                                     /\ stopping'[j] = stopping[j]
      /\ stopping'[i] = Entries(schedules[i])
  <2>1. Len(timers) \in Nat
    BY <1>2
  <2> QED
    BY <2>1, <1>1, <1>2
<1>7. \A u \in Timers :
        timers[u].live /\ ~timers[u].unsafe /\
          (InHand(u) \/ (schedules[timers[u].inst][timers[u].name] = u /\ Kept(timers[u].inst)))
        => InHand(u)' \/ (/\ schedules'[timers[u].inst][timers[u].name] = u
                         /\ stage'[timers[u].inst] \in {"loaded", "scheduler"})
  <2> SUFFICES ASSUME NEW u \in Timers, timers[u].live, ~timers[u].unsafe,
                      InHand(u) \/ (schedules[timers[u].inst][timers[u].name] = u
                                      /\ Kept(timers[u].inst))
               PROVE  InHand(u)' \/ (/\ schedules'[timers[u].inst][timers[u].name] = u
                                    /\ stage'[timers[u].inst] \in {"loaded", "scheduler"})
    OBVIOUS
  <2>1. CASE timers[u].inst # i
    BY <2>1, <1>1, <1>4, <1>6 DEF InHand, Kept
  <2>2. CASE timers[u].inst = i /\ schedules[i][timers[u].name] = u
    <3>1. u \in stopping'[i] /\ timers'[u].inst = i
      BY <2>2, <1>1, <1>4, <1>6 DEF Entries
    <3>2. (u \in stopping[timers[u].inst])'
      BY <3>1
    <3> QED
      BY <3>2 DEF InHand
  <2>3. CASE \E c \in Calls : call[c].pc = "cancel" /\ call[c].num = u
    BY <2>3, <1>1 DEF InHand
  <2>4. CASE timers[u].inst = i /\ u \in stopping[i]
    BY <2>4, <1>1, <1>2 DEF Closing
  <2> QED
    BY <2>1, <2>2, <2>3, <2>4 DEF InHand
<1>8. \A u \in Timers : (AtWork(u)' => AtWork(u))
  BY <1>1 DEF AtWork
<1>9. SchedulerMoves
  BY <1>1, <1>2, <1>5, <1>6, <1>7, <1>8
  DEF SchedulerMoves, SchedulerPart, Once, FoundMade, SchedulesKept
<1> QED
  BY <1>9, SchedulerMoved

LEMMA SchedulerClosedKeeps ==
  ASSUME SchedulerPart, InstancePart, NEW i \in Instances, SchedulerClosed(i)
  PROVE  SchedulerPart'
<1>1. /\ UNCHANGED <<granted, schedulerVars>> /\ call' = call
      /\ stage[i] = "stopping" /\ stage \in [Instances -> Stages]
      /\ stage' = [stage EXCEPT ![i] = ToWebSocket]
  BY DEF SchedulerClosed, Move, InstancePart, InstancesTypeOK
<1>2. \A j \in Instances : Kept(j) => Kept(j)'
  BY <1>1 DEF Kept
<1>3. SchedulerFrame
  BY <1>1, <1>2 DEF SchedulerFrame
<1> QED
  BY <1>3, SchedulerStands

LEMMA SchedulerStepKeeps ==
  ASSUME SchedulerPart, InstancePart, Closing, SchedulerStep
  PROVE  SchedulerPart'
<1>1. ASSUME NEW i \in Instances, NEW n \in Names, NEW recurring \in BOOLEAN,
             Schedule(i, n, recurring)
      PROVE  SchedulerPart'
  BY <1>1, ScheduleKeeps
<1>2. ASSUME NEW i \in Instances, NEW n \in Names, NEW c \in Calls, Cancel(c, i, n)
      PROVE  SchedulerPart'
  BY <1>2, CancelKeeps
<1>3. ASSUME NEW i \in Instances, NEW t \in stopping[i], StopOne(i, t)
      PROVE  SchedulerPart'
  BY <1>3, StopOneKeeps
<1>4. ASSUME NEW i \in Instances, TakeSchedules(i) \/ SchedulerClosed(i)
      PROVE  SchedulerPart'
  BY <1>4, TakeSchedulesKeeps, SchedulerClosedKeeps
<1>5. ASSUME NEW c \in Calls, StopCancelled(c)
      PROVE  SchedulerPart'
  BY <1>5, StopCancelledKeeps
<1>6. ASSUME NEW t \in Timers, Fire(t) \/ LookUp(t) \/ Return(t) \/ CleanUp(t)
      PROVE  SchedulerPart'
  BY <1>6, FireKeeps, LookUpKeeps, ReturnKeeps, CleanUpKeeps
<1> QED
  BY <1>1, <1>2, <1>3, <1>4, <1>5, <1>6 DEF SchedulerStep

----------------------------------------------------------------------------
(* The connections *)

(* What every step but a handshake is: no connection is made, entries go,   *)
(* readers get on, and what is up is handed from one to the next.           *)
ConnsMove ==
  /\ granted' = granted
  /\ conns' \in Seq(ConnTypes) /\ Len(conns') = Len(conns)
  /\ connections' \in [Instances -> [Names -> 0..Len(conns)]]
  /\ hanging' \in [Instances -> SUBSET Conns]
  /\ \A c \in Calls :
       /\ call'[c].pc = "close" => call'[c].num \in Conns
       /\ call'[c].pc = "dial" => /\ call'[c].inst \in Instances /\ call'[c].name \in Names
                                   /\ "websocket" \in granted
  /\ \A u \in Conns :
       /\ conns'[u].inst = conns[u].inst /\ conns'[u].name = conns[u].name
       /\ conns'[u].unsafe = conns[u].unsafe
       /\ conns'[u].pc # "done" => conns[u].pc # "done"
       /\ conns'[u].up => conns[u].up
       /\ ToldOnce(conns'[u])
  /\ \A j \in Instances, m \in Names :
       /\ connections'[j][m] \in {0, connections[j][m]}
       /\ connections'[j][m] # 0 => conns'[connections[j][m]].pc # "done"
  /\ Exclusive'
  /\ \A u \in Conns :
       conns'[u].up /\ ~conns[u].unsafe /\
         (BeingClosed(u) \/ (/\ connections[conns[u].inst][conns[u].name] = u
                            /\ Reachable(conns[u].inst)))
       => BeingClosed(u)' \/ (/\ connections'[conns[u].inst][conns[u].name] = u
                             /\ stage'[conns[u].inst] \in {"loaded", "scheduler", "stopping",
                                                           "websocket"})

LEMMA ToldTwice ==
  ASSUME NEW r \in ConnTypes, ToldOnce(r), r.told = 2
  PROVE  r.dropped
BY DEF ToldOnce, ConnTypes

LEMMA ConnsMoved ==
  ASSUME WebSocketPart, ConnsMove
  PROVE  WebSocketPart'
<1> USE DEF ConnsMove
<1>1. Conns' = Conns
  BY DEF WebSocketPart, WebSocketTypeOK, Conns
<1>2. WebSocketTypeOK'
  <2>1. Len(conns') <= MaxConns /\ connections' \in [Instances -> [Names -> 0..Len(conns')]]
    BY DEF WebSocketPart, WebSocketTypeOK
  <2> QED
    BY <1>1, <2>1 DEF WebSocketTypeOK
<1>3. LatestConn'
  <2> SUFFICES ASSUME NEW j \in Instances, NEW m \in Names, connections'[j][m] # 0
               PROVE  /\ connections'[j][m] \in Conns
                      /\ conns'[connections'[j][m]].inst = j
                      /\ conns'[connections'[j][m]].name = m
                      /\ conns'[connections'[j][m]].pc # "done"
                      /\ \A u \in Conns : conns'[u].inst = j /\ conns'[u].name = m
                                             => u <= connections'[j][m]
    BY <1>1 DEF LatestConn
  <2>1. connections'[j][m] = connections[j][m]
    OBVIOUS
  <2>2. PICK e \in Conns : e = connections[j][m]
    BY <2>1 DEF WebSocketPart, LatestConn
  <2>3. /\ conns[e].inst = j /\ conns[e].name = m
        /\ \A u \in Conns : conns[u].inst = j /\ conns[u].name = m => u <= e
    BY <2>1, <2>2 DEF WebSocketPart, LatestConn
  <2>4. /\ conns'[e].inst = j /\ conns'[e].name = m /\ conns'[e].pc # "done"
    BY <2>1, <2>2, <2>3
  <2>5. \A u \in Conns : conns'[u].inst = j /\ conns'[u].name = m => u <= e
    BY <2>3
  <2> QED
    BY <2>1, <2>2, <2>4, <2>5
<1>4. SpreadConn'
  BY <1>1 DEF WebSocketPart, SpreadConn, Before
<1>5. Told' /\ PermittedConn'
  BY <1>1 DEF WebSocketPart, Told, PermittedConn
<1>6. ConnectionsKnown'
  <2> SUFFICES ASSUME NEW k \in Conns
               PROVE  /\ conns'[k].up /\ ~conns'[k].unsafe =>
                            BeingClosed(k)' \/ (/\ connections'[conns'[k].inst][conns'[k].name] = k
                                               /\ Reachable(conns[k].inst)')
                      /\ conns'[k].told = 2 => conns'[k].dropped
    BY <1>1 DEF ConnectionsKnown
  <2>1. conns'[k] \in ConnTypes /\ ToldOnce(conns'[k])
    BY DEF WebSocketPart, WebSocketTypeOK, Conns
  <2>2. conns'[k].told = 2 => conns'[k].dropped
    BY <2>1, ToldTwice
  <2>3. SUFFICES ASSUME conns'[k].up, ~conns'[k].unsafe
                 PROVE  BeingClosed(k)' \/ (/\ connections'[conns'[k].inst][conns'[k].name] = k
                                           /\ Reachable(conns[k].inst)')
    BY <2>2
  <2>4. BeingClosed(k) \/ (/\ connections[conns[k].inst][conns[k].name] = k
                          /\ Reachable(conns[k].inst))
    BY <2>3 DEF WebSocketPart, ConnectionsKnown
  <2>5. BeingClosed(k)' \/ (/\ connections'[conns[k].inst][conns[k].name] = k
                           /\ stage'[conns[k].inst] \in {"loaded", "scheduler", "stopping",
                                                         "websocket"})
    BY <2>3, <2>4
  <2>6. conns'[k].inst = conns[k].inst /\ conns'[k].name = conns[k].name
    OBVIOUS
  <2> QED
    BY <2>5, <2>6 DEF Reachable
<1> QED
  BY <1>2, <1>3, <1>4, <1>5, <1>6 DEF WebSocketPart

(* The connections where only k changes, field by field. *)
LEMMA OneConn ==
  ASSUME WebSocketPart, NEW k \in Conns, NEW r \in ConnTypes, conns' = [conns EXCEPT ![k] = r]
  PROVE  /\ conns' \in Seq(ConnTypes) /\ Len(conns') = Len(conns)
         /\ conns'[k] = r /\ \A u \in Conns \ {k} : conns'[u] = conns[u]
BY DEF WebSocketPart, WebSocketTypeOK, Conns

LEMMA WebSocketFacts ==
  ASSUME WebSocketPart
  PROVE  /\ conns \in Seq(ConnTypes) /\ Len(conns) \in Nat /\ Conns = 1..Len(conns)
         /\ connections \in [Instances -> [Names -> 0..Len(conns)]]
         /\ hanging \in [Instances -> SUBSET Conns]
         /\ \A u \in Conns : /\ conns[u] \in ConnTypes /\ ToldOnce(conns[u])
                              /\ conns[u].inst \in Instances /\ conns[u].name \in Names
         /\ \A j \in Instances, m \in Names :
              connections[j][m] # 0 => /\ connections[j][m] \in Conns
                                       /\ conns[connections[j][m]].pc # "done"
         /\ \A c \in Calls :
              /\ call[c].pc = "close" => call[c].num \in Conns
              /\ call[c].pc = "dial" => /\ call[c].inst \in Instances /\ call[c].name \in Names
                                         /\ "websocket" \in granted
<1>1. \A u \in Conns : /\ conns[u] \in ConnTypes /\ ToldOnce(conns[u])
                        /\ conns[u].inst \in Instances /\ conns[u].name \in Names
  BY ConnType DEF WebSocketPart, Told
<1> QED
  BY <1>1 DEF WebSocketPart, WebSocketTypeOK, Conns, LatestConn, PermittedConn

(* A connection moves on and stays with whoever has it: Drop, ReadEnds, Tell. *)
LEMMA ConnMoved ==
  ASSUME WebSocketPart, NEW k \in Conns, NEW r \in ConnTypes,
         conns' = [conns EXCEPT ![k] = r],
         UNCHANGED <<granted, stage, call, connections, hanging>>,
         r.inst = conns[k].inst, r.name = conns[k].name, r.unsafe = conns[k].unsafe,
         r.marked = conns[k].marked, r.pc # "done", conns[k].pc # "done",
         r.up => conns[k].up, ToldOnce(r)
  PROVE  WebSocketPart'
<1>1. /\ conns' \in Seq(ConnTypes) /\ Len(conns') = Len(conns)
      /\ conns'[k] = r /\ \A u \in Conns \ {k} : conns'[u] = conns[u]
  BY OneConn
<1>2. \A u \in Conns :
        /\ conns'[u].inst = conns[u].inst /\ conns'[u].name = conns[u].name
        /\ conns'[u].unsafe = conns[u].unsafe
        /\ conns'[u].marked = conns[u].marked
        /\ conns'[u].pc # "done" <=> conns[u].pc # "done"
        /\ conns'[u].up => conns[u].up
        /\ ToldOnce(conns'[u])
  <2> SUFFICES ASSUME NEW u \in Conns
               PROVE  /\ conns'[u].inst = conns[u].inst /\ conns'[u].name = conns[u].name
                      /\ conns'[u].unsafe = conns[u].unsafe
                      /\ conns'[u].marked = conns[u].marked
                      /\ conns'[u].pc # "done" <=> conns[u].pc # "done"
                      /\ conns'[u].up => conns[u].up
                      /\ ToldOnce(conns'[u])
    OBVIOUS
  <2>1. CASE u = k
    <3>1. conns'[u] = r /\ conns[u] = conns[k]
      BY <2>1, <1>1
    <3> QED
      BY <3>1
  <2>2. CASE u # k
    <3>1. conns'[u] = conns[u] /\ ToldOnce(conns[u])
      BY <2>2, <1>1, WebSocketFacts
    <3> QED
      BY <3>1
  <2> QED
    BY <2>1, <2>2
<1>e. Conns' = Conns
  BY <1>1, WebSocketFacts DEF Conns
<1>3. \A u \in Conns : BeingClosed(u)' <=> BeingClosed(u)
  BY <1>2 DEF BeingClosed
<1>4. \A c \in Calls, u \in Conns : Held(c, u)' <=> Held(c, u)
  BY DEF Held
<1>5. Exclusive'
  <2>1. \A i \in Instances, n \in Names : connections[i][n] # 0 =>
          ~conns'[connections[i][n]].marked /\ ~BeingClosed(connections[i][n])'
    <3> SUFFICES ASSUME NEW i \in Instances, NEW n \in Names, connections[i][n] # 0
                 PROVE  ~conns'[connections[i][n]].marked /\ ~BeingClosed(connections[i][n])'
      OBVIOUS
    <3>1. PICK e \in Conns : e = connections[i][n]
      BY WebSocketFacts
    <3>2. ~conns'[e].marked /\ ~BeingClosed(e)'
      BY <3>1, <1>2, <1>3 DEF WebSocketPart, Exclusive
    <3>3. e = connections'[i][n]
      BY <3>1
    <3> QED
      BY <3>1, <3>2, <3>3
  <2>2. \A c \in Calls, u \in Conns : Held(c, u)' =>
          /\ ~conns'[u].marked /\ u \notin hanging'[conns'[u].inst]
          /\ \A d \in Calls : Held(d, u)' => d = c
    BY <1>2, <1>4 DEF WebSocketPart, Exclusive
  <2>3. \A i \in Instances : \A u \in hanging'[i] : ~conns'[u].marked /\ conns'[u].inst = i
    BY <1>2, WebSocketFacts DEF WebSocketPart, Exclusive
  <2> QED
    BY <1>e, <2>1, <2>2, <2>3 DEF Exclusive
<1>6. ConnsMove
  BY <1>1, <1>2, <1>3, <1>5, <1>e, WebSocketFacts DEF ConnsMove, Reachable
<1> QED
  BY <1>6, ConnsMoved

LEMMA DropKeeps ==
  ASSUME WebSocketPart, NEW k \in Conns, Drop(k)
  PROVE  WebSocketPart'
<1> DEFINE r == [conns[k] EXCEPT !.up = FALSE, !.dropped = TRUE]
<1>1. conns[k] \in ConnTypes /\ ToldOnce(conns[k])
  BY WebSocketFacts
<1>2. /\ r \in ConnTypes /\ r.inst = conns[k].inst /\ r.name = conns[k].name
      /\ r.unsafe = conns[k].unsafe /\ r.marked = conns[k].marked /\ r.pc = conns[k].pc
      /\ ~r.up /\ r.dropped /\ r.told = conns[k].told
  BY <1>1 DEF ConnTypes
<1>3. conns' = [conns EXCEPT ![k] = r] /\ conns[k].up
  BY <1>1, WebSocketFacts DEF Drop, ConnTypes
<1>4. UNCHANGED <<granted, stage, call, connections, hanging>>
  BY DEF Drop, instanceVars
<1> HIDE DEF r
<1>5. ToldOnce(r) /\ r.pc # "done" /\ conns[k].pc # "done"
  BY <1>1, <1>2, <1>3 DEF ToldOnce
<1> QED
  BY <1>2, <1>3, <1>4, <1>5, ConnMoved

LEMMA ReadEndsKeeps ==
  ASSUME WebSocketPart, NEW k \in Conns, ReadEnds(k)
  PROVE  WebSocketPart'
<1> DEFINE r == [conns[k] EXCEPT !.pc = "ended"]
<1>1. conns[k] \in ConnTypes /\ ToldOnce(conns[k])
  BY WebSocketFacts
<1>2. /\ r \in ConnTypes /\ r.inst = conns[k].inst /\ r.name = conns[k].name
      /\ r.unsafe = conns[k].unsafe /\ r.marked = conns[k].marked /\ r.pc = "ended"
      /\ r.up = conns[k].up /\ r.dropped = conns[k].dropped /\ r.told = conns[k].told
  BY <1>1 DEF ConnTypes
<1>3. conns' = [conns EXCEPT ![k] = r] /\ ~conns[k].up /\ conns[k].pc = "reading"
  BY <1>1, WebSocketFacts DEF ReadEnds, ConnTypes
<1>4. UNCHANGED <<granted, stage, call, connections, hanging>>
  BY DEF ReadEnds, instanceVars
<1> HIDE DEF r
<1>5. ToldOnce(r) /\ r.pc # "done" /\ conns[k].pc # "done"
  BY <1>1, <1>2, <1>3 DEF ToldOnce
<1> QED
  BY <1>2, <1>3, <1>4, <1>5, ConnMoved

LEMMA TellKeeps ==
  ASSUME WebSocketPart, NEW k \in Conns, Tell(k)
  PROVE  WebSocketPart'
<1> DEFINE t == IF conns[k].marked THEN conns[k].told ELSE TellOnce(k)
           q == [conns[k] EXCEPT !.pc = "leaving"]
           r == [q EXCEPT !.told = t]
<1>1. conns[k] \in ConnTypes /\ ToldOnce(conns[k]) /\ conns[k].pc = "ended"
  BY WebSocketFacts DEF Tell
<1>2. t \in {0, 1}
  BY <1>1 DEF ToldOnce, TellOnce, ConnTypes
<1>d. conns' = [conns EXCEPT ![k] = r] /\ conns[k].pc = "ended"
  BY <1>1, WebSocketFacts DEF Tell, ConnTypes
<1> HIDE DEF t
<1>q. /\ q \in ConnTypes /\ q.inst = conns[k].inst /\ q.name = conns[k].name
      /\ q.unsafe = conns[k].unsafe /\ q.marked = conns[k].marked /\ q.pc = "leaving"
      /\ q.up = conns[k].up /\ q.dropped = conns[k].dropped
  BY <1>1 DEF ConnTypes
<1> HIDE DEF q
<1>3. /\ r \in ConnTypes /\ r.inst = conns[k].inst /\ r.name = conns[k].name
      /\ r.unsafe = conns[k].unsafe /\ r.marked = conns[k].marked /\ r.pc = "leaving"
      /\ r.up = conns[k].up /\ r.dropped = conns[k].dropped /\ r.told = t
  BY <1>q, <1>2 DEF ConnTypes
<1>4. UNCHANGED <<granted, stage, call, connections, hanging>>
  BY DEF Tell, instanceVars
<1> HIDE DEF r
<1>5. ToldOnce(r) /\ r.pc # "done" /\ conns[k].pc # "done"
  BY <1>1, <1>2, <1>3, <1>d DEF ToldOnce
<1> QED
  BY <1>3, <1>4, <1>5, <1>d, ConnMoved

(* A call begins or ends that has no connection in hand. *)
LEMMA DiallingKeeps ==
  ASSUME WebSocketPart, UNCHANGED <<granted, stage, webSocketVars>>, NEW c \in Calls,
         NEW r, call' = [call EXCEPT ![c] = r], call[c].pc # "close", r.pc # "close",
         r.pc = "dial" => r.inst \in Instances /\ r.name \in Names /\ "websocket" \in granted,
         call \in [Calls -> CallTypes]
  PROVE  WebSocketPart'
<1>1. /\ granted' = granted /\ stage' = stage /\ conns' = conns
      /\ connections' = connections /\ hanging' = hanging
      /\ call'[c] = r /\ \A d \in Calls \ {c} : call'[d] = call[d]
  BY DEF webSocketVars
<1>2. Conns' = Conns
  BY <1>1 DEF Conns
<1>3. /\ \A k : BeingClosed(k)' <=> BeingClosed(k)
      /\ \A d \in Calls : \A k : Held(d, k)' <=> Held(d, k)
  BY <1>1 DEF BeingClosed, Held
<1>4. Exclusive'
  BY <1>1, <1>2, <1>3 DEF WebSocketPart, Exclusive
<1>5. \A d \in Calls :
        /\ call'[d].pc = "close" => call'[d].num \in Conns
        /\ call'[d].pc = "dial" => /\ call'[d].inst \in Instances /\ call'[d].name \in Names
                                    /\ "websocket" \in granted
  BY <1>1, WebSocketFacts
<1>6. ConnsMove
  BY <1>1, <1>3, <1>4, <1>5, WebSocketFacts DEF ConnsMove, Reachable
<1> QED
  BY <1>6, ConnsMoved

LEMMA ReaderLeavesKeeps ==
  ASSUME WebSocketPart, NEW k \in Conns, ReaderLeaves(k)
  PROVE  WebSocketPart'
<1> DEFINE r == [conns[k] EXCEPT !.pc = "done"]
<1>1. conns[k] \in ConnTypes /\ ToldOnce(conns[k])
  BY WebSocketFacts
<1>2. /\ r \in ConnTypes /\ r.inst = conns[k].inst /\ r.name = conns[k].name
      /\ r.unsafe = conns[k].unsafe /\ r.marked = conns[k].marked /\ r.pc = "done"
      /\ r.up = conns[k].up /\ r.dropped = conns[k].dropped /\ r.told = conns[k].told
  BY <1>1 DEF ConnTypes
<1>3. conns' = [conns EXCEPT ![k] = r] /\ conns[k].pc = "leaving"
  BY <1>1, WebSocketFacts DEF ReaderLeaves, ConnTypes
<1> HIDE DEF r
<1>0. PICK i \in Instances, n \in Names : i = conns[k].inst /\ n = conns[k].name
  BY WebSocketFacts
<1>4. /\ granted' = granted /\ stage' = stage /\ call' = call /\ hanging' = hanging
      /\ connections' = [connections EXCEPT ![i][n] = 0]
  BY <1>0 DEF ReaderLeaves, instanceVars
<1>5. /\ conns' \in Seq(ConnTypes) /\ Len(conns') = Len(conns)
      /\ conns'[k] = r /\ \A u \in Conns \ {k} : conns'[u] = conns[u]
  BY <1>2, <1>3, OneConn
<1>6. ~conns[k].up /\ ToldOnce(r)
  BY <1>1, <1>2, <1>3 DEF ToldOnce
<1>7. \A u \in Conns :
        /\ conns'[u].inst = conns[u].inst /\ conns'[u].name = conns[u].name
        /\ conns'[u].unsafe = conns[u].unsafe
        /\ conns'[u].marked = conns[u].marked
        /\ conns'[u].pc # "done" => conns[u].pc # "done"
        /\ conns'[u].up = conns[u].up
        /\ ToldOnce(conns'[u])
        /\ u # k => conns'[u].pc = conns[u].pc
  <2> SUFFICES ASSUME NEW u \in Conns
               PROVE  /\ conns'[u].inst = conns[u].inst /\ conns'[u].name = conns[u].name
                      /\ conns'[u].unsafe = conns[u].unsafe
                      /\ conns'[u].marked = conns[u].marked
                      /\ conns'[u].pc # "done" => conns[u].pc # "done"
                      /\ conns'[u].up = conns[u].up
                      /\ ToldOnce(conns'[u])
                      /\ u # k => conns'[u].pc = conns[u].pc
    OBVIOUS
  <2>1. CASE u = k
    <3>1. conns'[u] = r /\ conns[u] = conns[k]
      BY <2>1, <1>5
    <3> QED
      BY <3>1, <2>1, <1>2, <1>6
  <2>2. CASE u # k
    <3>1. conns'[u] = conns[u] /\ ToldOnce(conns[u])
      BY <2>2, <1>5, WebSocketFacts
    <3> QED
      BY <3>1
  <2> QED
    BY <2>1, <2>2
<1>8. Conns' = Conns
  BY <1>5, WebSocketFacts DEF Conns
<1>9. /\ connections' \in [Instances -> [Names -> 0..Len(conns)]]
      /\ \A j \in Instances, m \in Names : connections'[j][m] \in {0, connections[j][m]}
      /\ connections'[i][n] = 0
      /\ \A j \in Instances, m \in Names :
           connections'[j][m] # connections[j][m] => j = i /\ m = n
  BY <1>4, WebSocketFacts
<1>10. \A u \in Conns : BeingClosed(u)' <=> BeingClosed(u)
  BY <1>4, <1>7 DEF BeingClosed
<1>11. \A c \in Calls, u \in Conns : Held(c, u)' <=> Held(c, u)
  BY <1>4 DEF Held
<1>12. \A j \in Instances, m \in Names : connections'[j][m] # 0 =>
         \E e \in Conns : /\ e = connections'[j][m] /\ e = connections[j][m] /\ e # k
                          /\ conns[e].pc # "done"
  <2> SUFFICES ASSUME NEW j \in Instances, NEW m \in Names, connections'[j][m] # 0
               PROVE  \E e \in Conns : /\ e = connections'[j][m] /\ e = connections[j][m]
                                        /\ e # k /\ conns[e].pc # "done"
    OBVIOUS
  <2>1. connections'[j][m] = connections[j][m]
    BY <1>9
  <2>2. PICK e \in Conns : e = connections[j][m] /\ conns[e].pc # "done"
    BY <2>1, WebSocketFacts
  <2>3. conns[e].inst = j /\ conns[e].name = m
    BY <2>1, <2>2 DEF WebSocketPart, LatestConn
  <2>4. e # k
    BY <2>1, <2>3, <1>0, <1>9
  <2> QED
    BY <2>1, <2>2, <2>4
<1>13. Exclusive'
  <2>1. \A j \in Instances, m \in Names : connections'[j][m] # 0 =>
          ~conns'[connections'[j][m]].marked /\ ~BeingClosed(connections[j][m])'
    <3> SUFFICES ASSUME NEW j \in Instances, NEW m \in Names, connections'[j][m] # 0
                 PROVE  ~conns'[connections'[j][m]].marked /\ ~BeingClosed(connections[j][m])'
      OBVIOUS
    <3>1. PICK e \in Conns : e = connections'[j][m] /\ e = connections[j][m]
      BY <1>12
    <3>2. ~conns'[e].marked /\ ~BeingClosed(e)'
      BY <3>1, <1>7, <1>10 DEF WebSocketPart, Exclusive
    <3> QED
      BY <3>1, <3>2
  <2>2. \A c \in Calls, u \in Conns : Held(c, u)' =>
          /\ ~conns'[u].marked /\ u \notin hanging'[conns'[u].inst]
          /\ \A d \in Calls : Held(d, u)' => d = c
    BY <1>4, <1>7, <1>11 DEF WebSocketPart, Exclusive
  <2>3. \A j \in Instances : \A u \in hanging'[j] : ~conns'[u].marked /\ conns'[u].inst = j
    BY <1>4, <1>7, WebSocketFacts DEF WebSocketPart, Exclusive
  <2> QED
    BY <1>8, <2>1, <2>2, <2>3 DEF Exclusive
<1>14. \A u \in Conns :
         conns'[u].up /\ ~conns[u].unsafe /\ connections[conns[u].inst][conns[u].name] = u
         => connections'[conns[u].inst][conns[u].name] = u
  <2> SUFFICES ASSUME NEW u \in Conns, conns'[u].up, ~conns[u].unsafe,
                      connections[conns[u].inst][conns[u].name] = u,
                      connections'[conns[u].inst][conns[u].name] # u
               PROVE  FALSE
    OBVIOUS
  <2>1. conns[u].inst = i /\ conns[u].name = n
    BY <1>9, WebSocketFacts
  <2>2. u # k
    BY <1>6, <1>7
  <2>3. k < u
    <3>1. u # 0 /\ u \in Int /\ k \in Int
      BY WebSocketFacts
    <3>2. \A w \in Conns : conns[w].inst = i /\ conns[w].name = n => w <= connections[i][n]
      BY <2>1, <3>1 DEF WebSocketPart, LatestConn
    <3> QED
      BY <3>1, <3>2, <2>1, <2>2, <1>0
  <2> QED
    BY <2>1, <2>3, <1>0, <1>3 DEF WebSocketPart, SpreadConn, Before
<1>15. \A j \in Instances, m \in Names :
         connections'[j][m] # 0 => conns'[connections[j][m]].pc # "done"
  BY <1>7, <1>12
<1>16. ConnsMove
  BY <1>4, <1>5, <1>7, <1>9, <1>10, <1>13, <1>14, <1>15, WebSocketFacts DEF ConnsMove, Reachable
<1> QED
  BY <1>16, ConnsMoved

LEMMA CloseConnectionKeeps ==
  ASSUME WebSocketPart, InstancePart, NEW c \in Calls, NEW i \in Instances, NEW n \in Names,
         CloseConnection(c, i, n)
  PROVE  WebSocketPart'
<1>0. PICK k \in Conns : k = connections[i][n]
  BY WebSocketFacts DEF CloseConnection
<1> DEFINE r == [pc |-> "close", inst |-> i, name |-> n, num |-> k, old |-> 0]
<1>1. /\ granted' = granted /\ stage' = stage /\ conns' = conns /\ hanging' = hanging
      /\ connections' = [connections EXCEPT ![i][n] = 0] /\ connections[i][n] # 0
      /\ call' = [call EXCEPT ![c] = r] /\ call[c].pc = "idle" /\ call \in [Calls -> CallTypes]
  BY <1>0 DEF CloseConnection, Enter, InstancePart, InstancesTypeOK
<1>2. r.pc = "close" /\ r.num = k
  OBVIOUS
<1> HIDE DEF r
<1>3. call'[c] = r /\ \A d \in Calls \ {c} : call'[d] = call[d]
  BY <1>1
<1>4. Conns' = Conns
  BY <1>1 DEF Conns
<1>5. /\ connections' \in [Instances -> [Names -> 0..Len(conns)]]
      /\ \A j \in Instances, m \in Names : connections'[j][m] \in {0, connections[j][m]}
      /\ connections'[i][n] = 0
      /\ \A j \in Instances, m \in Names :
           connections'[j][m] # connections[j][m] => j = i /\ m = n
  BY <1>1, WebSocketFacts
<1>6. conns[k].inst = i /\ conns[k].name = n /\ ~conns[k].marked /\ ~BeingClosed(k)
  BY <1>0, <1>1 DEF WebSocketPart, LatestConn, Exclusive
<1>7. /\ \A u \in Conns : BeingClosed(u)' <=> BeingClosed(u) \/ u = k
      /\ \A d \in Calls, u \in Conns : Held(d, u)' <=> Held(d, u) \/ (d = c /\ u = k)
  BY <1>1, <1>2, <1>3 DEF BeingClosed, Held
<1>8. Exclusive'
  <2>1. \A j \in Instances, m \in Names : connections'[j][m] # 0 =>
          ~conns'[connections'[j][m]].marked /\ ~BeingClosed(connections[j][m])'
    <3> SUFFICES ASSUME NEW j \in Instances, NEW m \in Names, connections'[j][m] # 0
                 PROVE  ~conns'[connections'[j][m]].marked /\ ~BeingClosed(connections[j][m])'
      OBVIOUS
    <3>1. PICK e \in Conns : e = connections'[j][m] /\ e = connections[j][m]
      BY <1>5, WebSocketFacts
    <3>2. conns[e].inst = j /\ conns[e].name = m /\ ~conns[e].marked /\ ~BeingClosed(e)
      BY <3>1, WebSocketFacts DEF WebSocketPart, LatestConn, Exclusive
    <3>3. e # k
      BY <3>1, <3>2, <1>5, <1>6
    <3>4. ~BeingClosed(e)'
      BY <3>2, <3>3, <1>7
    <3>5. e = connections'[j][m]
      BY <3>1
    <3> QED
      BY <3>1, <3>2, <3>4, <1>1
  <2>2. \A d \in Calls, u \in Conns : Held(d, u)' =>
          /\ ~conns'[u].marked /\ u \notin hanging'[conns'[u].inst]
          /\ \A e \in Calls : Held(e, u)' => e = d
    BY <1>1, <1>6, <1>7 DEF WebSocketPart, Exclusive, BeingClosed, Held
  <2>3. \A j \in Instances : \A u \in hanging'[j] : ~conns'[u].marked /\ conns'[u].inst = j
    BY <1>1 DEF WebSocketPart, Exclusive
  <2> QED
    BY <1>4, <2>1, <2>2, <2>3 DEF Exclusive
<1>9. \A u \in Conns :
        connections[conns[u].inst][conns[u].name] = u
        => BeingClosed(u)' \/ connections'[conns[u].inst][conns[u].name] = u
  <2> SUFFICES ASSUME NEW u \in Conns, connections[conns[u].inst][conns[u].name] = u, u # k
               PROVE  connections'[conns[u].inst][conns[u].name] = u
    BY <1>7
  <2>1. conns[u].inst \in Instances /\ conns[u].name \in Names
    BY WebSocketFacts
  <2>2. ~(conns[u].inst = i /\ conns[u].name = n)
    BY <1>0
  <2> QED
    BY <2>1, <2>2, <1>5
<1>10. \A d \in Calls :
        /\ call'[d].pc = "close" => call'[d].num \in Conns
        /\ call'[d].pc = "dial" => /\ call'[d].inst \in Instances /\ call'[d].name \in Names
                                    /\ "websocket" \in granted
  BY <1>2, <1>3, WebSocketFacts
<1>11. ConnsMove
  BY <1>1, <1>5, <1>7, <1>8, <1>9, <1>10, WebSocketFacts DEF ConnsMove, Reachable
<1> QED
  BY <1>11, ConnsMoved

(* Connection k is marked and closed by whoever had it in hand alone. *)
HungUpBy(k) ==
  /\ HungUp(k) /\ UNCHANGED <<granted, stage, connections>>
  /\ \A j \in Instances, m \in Names : connections[j][m] # k
  /\ ~conns[k].marked
  /\ \A u \in Conns \ {k} : BeingClosed(u)' <=> BeingClosed(u)
  /\ \A d \in Calls, u \in Conns \ {k} : Held(d, u)' <=> Held(d, u)
  /\ \A d \in Calls : ~Held(d, k)'
  /\ hanging' \in [Instances -> SUBSET Conns]
  /\ \A j \in Instances : hanging'[j] = hanging[j] \ {k}
  /\ \A d \in Calls : call'[d].pc \in {"close", "dial"} => call'[d] = call[d]

LEMMA HungUpKeeps ==
  ASSUME WebSocketPart, NEW k \in Conns, HungUpBy(k)
  PROVE  WebSocketPart'
<1> DEFINE r == [conns[k] EXCEPT !.up = FALSE, !.marked = TRUE, !.told = TellOnce(k)]
<1>1. conns[k] \in ConnTypes /\ ToldOnce(conns[k]) /\ ~conns[k].marked
  BY WebSocketFacts DEF HungUpBy
<1>2. conns[k].told \in {0, 1} /\ (conns[k].told = 1 => conns[k].dropped)
      /\ (conns[k].pc \in {"reading", "ended"} => conns[k].told = 0)
  BY <1>1 DEF ToldOnce, ConnTypes
<1>3. TellOnce(k) \in {conns[k].told, conns[k].told + 1} /\ TellOnce(k) \in 0..2
  BY <1>2 DEF TellOnce
<1>4. /\ r \in ConnTypes /\ r.inst = conns[k].inst /\ r.name = conns[k].name
      /\ r.unsafe = conns[k].unsafe /\ r.marked /\ r.pc = conns[k].pc
      /\ ~r.up /\ r.dropped = conns[k].dropped /\ r.told = TellOnce(k)
  BY <1>1, <1>3 DEF ConnTypes
<1>5. conns' = [conns EXCEPT ![k] = r]
  BY <1>1, WebSocketFacts DEF HungUpBy, HungUp, ConnTypes
<1> HIDE DEF r
<1>6. ToldOnce(r)
  BY <1>1, <1>2, <1>3, <1>4 DEF ToldOnce, ConnTypes
<1>7. /\ conns' \in Seq(ConnTypes) /\ Len(conns') = Len(conns)
      /\ conns'[k] = r /\ \A u \in Conns \ {k} : conns'[u] = conns[u]
  BY <1>4, <1>5, OneConn
<1>8. \A u \in Conns :
        /\ conns'[u].inst = conns[u].inst /\ conns'[u].name = conns[u].name
        /\ conns'[u].unsafe = conns[u].unsafe
        /\ u # k => conns'[u].marked = conns[u].marked
        /\ conns'[u].pc = conns[u].pc
        /\ conns'[u].up => conns[u].up /\ u # k
        /\ ToldOnce(conns'[u])
  <2> SUFFICES ASSUME NEW u \in Conns
               PROVE  /\ conns'[u].inst = conns[u].inst /\ conns'[u].name = conns[u].name
                      /\ conns'[u].unsafe = conns[u].unsafe
                      /\ u # k => conns'[u].marked = conns[u].marked
                      /\ conns'[u].pc = conns[u].pc
                      /\ conns'[u].up => conns[u].up /\ u # k
                      /\ ToldOnce(conns'[u])
    OBVIOUS
  <2>1. CASE u = k
    <3>1. conns'[u] = r /\ conns[u] = conns[k]
      BY <2>1, <1>7
    <3> QED
      BY <3>1, <2>1, <1>4, <1>6
  <2>2. CASE u # k
    <3>1. conns'[u] = conns[u] /\ ToldOnce(conns[u])
      BY <2>2, <1>7, WebSocketFacts
    <3> QED
      BY <3>1, <2>2
  <2> QED
    BY <2>1, <2>2
<1>9. Conns' = Conns
  BY <1>7, WebSocketFacts DEF Conns
<1>10. /\ granted' = granted /\ stage' = stage /\ connections' = connections
       /\ \A u \in Conns \ {k} : BeingClosed(u)' <=> BeingClosed(u)
       /\ \A d \in Calls, u \in Conns \ {k} : Held(d, u)' <=> Held(d, u)
       /\ \A d \in Calls : ~Held(d, k)'
       /\ hanging' \in [Instances -> SUBSET Conns]
       /\ \A j \in Instances : hanging'[j] = hanging[j] \ {k}
       /\ \A j \in Instances, m \in Names : connections[j][m] # k
  BY DEF HungUpBy
<1>11. Exclusive'
  <2>1. \A j \in Instances, m \in Names : connections'[j][m] # 0 =>
          ~conns'[connections'[j][m]].marked /\ ~BeingClosed(connections[j][m])'
    <3> SUFFICES ASSUME NEW j \in Instances, NEW m \in Names, connections'[j][m] # 0
                 PROVE  ~conns'[connections'[j][m]].marked /\ ~BeingClosed(connections[j][m])'
      OBVIOUS
    <3>1. PICK e \in Conns : e = connections'[j][m] /\ e = connections[j][m] /\ e # k
      BY <1>10, WebSocketFacts
    <3>2. ~conns'[e].marked /\ ~BeingClosed(e)'
      BY <3>1, <1>8, <1>10 DEF WebSocketPart, Exclusive
    <3> QED
      BY <3>1, <3>2
  <2>2. \A c \in Calls, u \in Conns : Held(c, u)' =>
          /\ ~conns'[u].marked /\ u \notin hanging'[conns'[u].inst]
          /\ \A d \in Calls : Held(d, u)' => d = c
    <3> SUFFICES ASSUME NEW c \in Calls, NEW u \in Conns, Held(c, u)'
                 PROVE  /\ ~conns'[u].marked /\ u \notin hanging'[conns'[u].inst]
                        /\ \A d \in Calls : Held(d, u)' => d = c
      OBVIOUS
    <3>1. u # k
      BY <1>10
    <3>2. Held(c, u) /\ \A d \in Calls : Held(d, u)' <=> Held(d, u)
      BY <3>1, <1>10
    <3>3. ~conns[u].marked /\ u \notin hanging[conns[u].inst] /\ \A d \in Calls : Held(d, u) => d = c
      BY <3>2 DEF WebSocketPart, Exclusive
    <3>4. hanging'[conns[u].inst] = hanging[conns[u].inst] \ {k}
      BY <1>10, WebSocketFacts
    <3> QED
      BY <3>1, <3>2, <3>3, <3>4, <1>8
  <2>3. \A j \in Instances : \A u \in hanging'[j] : ~conns'[u].marked /\ conns'[u].inst = j
    <3> SUFFICES ASSUME NEW j \in Instances, NEW u \in hanging'[j]
                 PROVE  ~conns'[u].marked /\ conns'[u].inst = j
      OBVIOUS
    <3>1. u \in hanging[j] /\ u # k /\ u \in Conns
      BY <1>10, WebSocketFacts
    <3>2. ~conns[u].marked /\ conns[u].inst = j
      BY <3>1 DEF WebSocketPart, Exclusive
    <3> QED
      BY <3>1, <3>2, <1>8
  <2> QED
    BY <1>9, <2>1, <2>2, <2>3 DEF Exclusive
<1>12. \A j \in Instances, m \in Names :
         connections'[j][m] # 0 => conns'[connections[j][m]].pc # "done"
  BY <1>8, <1>10, WebSocketFacts
<1>13. \A c \in Calls :
         /\ call'[c].pc = "close" => call'[c].num \in Conns
         /\ call'[c].pc = "dial" => /\ call'[c].inst \in Instances /\ call'[c].name \in Names
                                     /\ "websocket" \in granted
  BY WebSocketFacts DEF HungUpBy
<1>14. ConnsMove
  BY <1>7, <1>8, <1>10, <1>11, <1>12, <1>13, WebSocketFacts DEF ConnsMove, Reachable
<1> QED
  BY <1>14, ConnsMoved

LEMMA HangUpKeeps ==
  ASSUME WebSocketPart, InstancePart, NEW c \in Calls, HangUp(c)
  PROVE  WebSocketPart'
<1>0. PICK k \in Conns : k = call[c].num
  BY WebSocketFacts DEF HangUp
<1>1. /\ granted' = granted /\ stage' = stage /\ connections' = connections /\ hanging' = hanging
      /\ call[c].pc = "close" /\ call'[c] = Idle /\ \A d \in Calls \ {c} : call'[d] = call[d]
      /\ HungUp(k)
  BY <1>0 DEF HangUp, Leave, InstancePart, InstancesTypeOK
<1>2. Held(c, k) /\ BeingClosed(k)
  BY <1>0, <1>1 DEF Held, BeingClosed
<1>3. ~conns[k].marked /\ k \notin hanging[conns[k].inst] /\ \A d \in Calls : Held(d, k) => d = c
  BY <1>2 DEF WebSocketPart, Exclusive
<1>4. \A j \in Instances, m \in Names : connections[j][m] # k
  BY <1>2, WebSocketFacts DEF WebSocketPart, Exclusive
<1>5. Idle.pc = "idle"
  BY DEF Idle
<1>6. \A d \in Calls, u \in Conns \ {k} : Held(d, u)' <=> Held(d, u)
  BY <1>0, <1>1, <1>5 DEF Held
<1>7. \A d \in Calls : ~Held(d, k)'
  BY <1>1, <1>3, <1>5 DEF Held
<1>8. \A u \in Conns \ {k} : conns'[u] = conns[u]
  BY <1>1, WebSocketFacts DEF HungUp
<1>9. \A u \in Conns \ {k} : BeingClosed(u)' <=> BeingClosed(u)
  BY <1>1, <1>6, <1>8 DEF BeingClosed, Held
<1>10. \A j \in Instances : hanging'[j] = hanging[j] \ {k}
  <2> SUFFICES ASSUME NEW j \in Instances
               PROVE  hanging'[j] = hanging[j] \ {k}
    OBVIOUS
  <2>1. k \notin hanging[j]
    BY <1>3 DEF WebSocketPart, Exclusive
  <2>2. hanging'[j] = hanging[j]
    BY <1>1
  <2> QED
    BY <2>1, <2>2
<1>11. HungUpBy(k)
  BY <1>1, <1>3, <1>4, <1>5, <1>6, <1>7, <1>9, <1>10, WebSocketFacts DEF HungUpBy
<1> QED
  BY <1>11, HungUpKeeps

LEMMA HangUpOneKeeps ==
  ASSUME WebSocketPart, InstancePart, NEW i \in Instances, NEW k \in hanging[i], HangUpOne(i, k)
  PROVE  WebSocketPart'
<1>0. k \in Conns /\ conns[k].inst = i /\ ~conns[k].marked
  BY WebSocketFacts DEF WebSocketPart, Exclusive
<1>1. /\ granted' = granted /\ stage' = stage /\ connections' = connections /\ call' = call
      /\ hanging' = [hanging EXCEPT ![i] = hanging[i] \ {k}] /\ HungUp(k)
  BY DEF HangUpOne, instanceVars
<1>2. BeingClosed(k) /\ \A d \in Calls : ~Held(d, k)
  BY <1>0 DEF BeingClosed, WebSocketPart, Exclusive
<1>3. \A j \in Instances, m \in Names : connections[j][m] # k
  BY <1>0, <1>2, WebSocketFacts DEF WebSocketPart, Exclusive
<1>4. \A d \in Calls, u \in Conns : Held(d, u)' <=> Held(d, u)
  BY <1>1 DEF Held
<1>5. \A u \in Conns \ {k} : conns'[u] = conns[u]
  BY <1>1, WebSocketFacts DEF HungUp
<1>6. \A j \in Instances : hanging'[j] = hanging[j] \ {k}
  <2> SUFFICES ASSUME NEW j \in Instances
               PROVE  hanging'[j] = hanging[j] \ {k}
    OBVIOUS
  <2>1. CASE j = i
    BY <2>1, <1>1, WebSocketFacts
  <2>2. CASE j # i
    <3>1. k \notin hanging[j]
      BY <2>2, <1>0 DEF WebSocketPart, Exclusive
    <3>2. hanging'[j] = hanging[j]
      BY <2>2, <1>1, WebSocketFacts
    <3> QED
      BY <3>1, <3>2
  <2> QED
    BY <2>1, <2>2
<1>7. \A u \in Conns \ {k} : BeingClosed(u)' <=> BeingClosed(u)
  BY <1>1, <1>5, <1>6, WebSocketFacts DEF BeingClosed
<1>8. hanging' \in [Instances -> SUBSET Conns]
  BY <1>1, WebSocketFacts
<1>9. HungUpBy(k)
  BY <1>0, <1>1, <1>2, <1>3, <1>4, <1>6, <1>7, <1>8 DEF HungUpBy
<1> QED
  BY <1>0, <1>9, HungUpKeeps

LEMMA TakeConnectionsKeeps ==
  ASSUME WebSocketPart, InstancePart, Closing, NEW i \in Instances, TakeConnections(i)
  PROVE  WebSocketPart'
<1> DEFINE Held0 == {connections[i][n] : n \in Names} \ {0}
<1>1. /\ conns' = conns /\ call' = call /\ granted' = granted
      /\ stage[i] = "websocket" /\ stage' = [stage EXCEPT ![i] = "hanging up"]
      /\ hanging' = [hanging EXCEPT ![i] = Held0]
      /\ connections' = [connections EXCEPT ![i] = [n \in Names |-> 0]]
      /\ stage \in [Instances -> Stages] /\ hanging[i] = {}
  BY DEF TakeConnections, Move, InstancePart, InstancesTypeOK, Closing
<1>2. Held0 \subseteq Conns
  BY WebSocketFacts
<1>3. \A e \in Held0 : conns[e].inst = i /\ ~conns[e].marked /\ ~BeingClosed(e)
  BY DEF WebSocketPart, LatestConn, Exclusive
<1>m. \A n \in Names : connections[i][n] # 0 => connections[i][n] \in Held0
  OBVIOUS
<1> HIDE DEF Held0
<1>4. /\ hanging' \in [Instances -> SUBSET Conns]
      /\ hanging'[i] = Held0
      /\ \A j \in Instances \ {i} : /\ hanging'[j] = hanging[j] /\ stage'[j] = stage[j]
                                     /\ connections'[j] = connections[j]
  BY <1>1, <1>2, WebSocketFacts
<1>5. /\ connections' \in [Instances -> [Names -> 0..Len(conns)]]
      /\ \A n \in Names : connections'[i][n] = 0
      /\ \A j \in Instances, m \in Names : connections'[j][m] \in {0, connections[j][m]}
  <2>1. \A n \in Names : connections'[i][n] = 0
    BY <1>1, WebSocketFacts
  <2>2. \A j \in Instances, m \in Names : connections'[j][m] \in {0, connections[j][m]}
    BY <2>1, <1>4
  <2>3. [n \in Names |-> 0] \in [Names -> 0..Len(conns)]
    BY WebSocketFacts
  <2>4. connections' \in [Instances -> [Names -> 0..Len(conns)]]
    BY <2>3, <1>1, WebSocketFacts
  <2> QED
    BY <2>1, <2>2, <2>4
<1>6. Conns' = Conns
  BY <1>1 DEF Conns
<1>7. /\ \A d \in Calls, u \in Conns : Held(d, u)' <=> Held(d, u)
      /\ \A u \in Conns : conns[u].inst # i => (BeingClosed(u)' <=> BeingClosed(u))
      /\ \A u \in Conns : BeingClosed(u) => BeingClosed(u)'
  <2>1. \A d \in Calls, u \in Conns : Held(d, u)' <=> Held(d, u)
    BY <1>1 DEF Held
  <2>2. \A u \in Conns : conns[u].inst # i => (BeingClosed(u)' <=> BeingClosed(u))
    BY <1>1, <1>4, WebSocketFacts DEF BeingClosed
  <2>3. ASSUME NEW u \in Conns, conns[u].inst = i, BeingClosed(u)
        PROVE  BeingClosed(u)'
    BY <2>3, <1>1 DEF BeingClosed
  <2> QED
    BY <2>1, <2>2, <2>3
<1>8. Exclusive'
  <2>1. \A j \in Instances, m \in Names : connections'[j][m] # 0 =>
          ~conns'[connections'[j][m]].marked /\ ~BeingClosed(connections[j][m])'
    <3> SUFFICES ASSUME NEW j \in Instances, NEW m \in Names, connections'[j][m] # 0
                 PROVE  ~conns'[connections'[j][m]].marked /\ ~BeingClosed(connections[j][m])'
      OBVIOUS
    <3>1. PICK e \in Conns : e = connections'[j][m] /\ e = connections[j][m]
      BY <1>5, WebSocketFacts
    <3>e. j # i /\ connections[j][m] # 0
      BY <3>1, <1>5, WebSocketFacts
    <3>2. conns[e].inst = j /\ ~conns[e].marked /\ ~BeingClosed(e) /\ j # i
      BY <3>1, <3>e DEF WebSocketPart, LatestConn, Exclusive
    <3>3. ~conns'[e].marked /\ ~BeingClosed(e)'
      BY <3>2, <1>1, <1>7
    <3> QED
      BY <3>1, <3>3
  <2>2. \A d \in Calls, u \in Conns : Held(d, u)' =>
          /\ ~conns'[u].marked /\ u \notin hanging'[conns'[u].inst]
          /\ \A e \in Calls : Held(e, u)' => e = d
    <3> SUFFICES ASSUME NEW d \in Calls, NEW u \in Conns, Held(d, u)'
                 PROVE  /\ ~conns'[u].marked /\ u \notin hanging'[conns'[u].inst]
                        /\ \A e \in Calls : Held(e, u)' => e = d
      OBVIOUS
    <3>1. Held(d, u)
      BY <1>7
    <3>2. /\ ~conns[u].marked /\ u \notin hanging[conns[u].inst]
          /\ \A e \in Calls : Held(e, u) => e = d
      BY <3>1 DEF WebSocketPart, Exclusive
    <3>3. u \notin Held0
      BY <3>1, <1>3 DEF Held, BeingClosed
    <3>4. u \notin hanging'[conns[u].inst]
      BY <3>2, <3>3, <1>4, WebSocketFacts
    <3> QED
      BY <3>2, <3>4, <1>1, <1>7
  <2>3. \A j \in Instances : \A u \in hanging'[j] : ~conns'[u].marked /\ conns'[u].inst = j
    BY <1>1, <1>3, <1>4 DEF WebSocketPart, Exclusive
  <2> QED
    BY <1>6, <2>1, <2>2, <2>3 DEF Exclusive
<1>9. \A u \in Conns :
        BeingClosed(u) \/ (/\ connections[conns[u].inst][conns[u].name] = u
                          /\ Reachable(conns[u].inst))
        => BeingClosed(u)' \/ (/\ connections'[conns[u].inst][conns[u].name] = u
                              /\ stage'[conns[u].inst] \in {"loaded", "scheduler", "stopping",
                                                            "websocket"})
  <2> SUFFICES ASSUME NEW u \in Conns, connections[conns[u].inst][conns[u].name] = u,
                      Reachable(conns[u].inst)
               PROVE  BeingClosed(u)' \/ (/\ connections'[conns[u].inst][conns[u].name] = u
                                         /\ stage'[conns[u].inst] \in {"loaded", "scheduler",
                                                                       "stopping", "websocket"})
    BY <1>7
  <2>1. u # 0 /\ conns[u].inst \in Instances /\ conns[u].name \in Names
    BY WebSocketFacts
  <2>2. CASE conns[u].inst = i
    <3>1. u \in hanging'[i] /\ conns'[u].inst = i
      BY <2>1, <2>2, <1>m, <1>4, <1>1
    <3>2. (u \in hanging[conns[u].inst])'
      BY <3>1
    <3> QED
      BY <3>2 DEF BeingClosed
  <2>3. CASE conns[u].inst # i
    BY <2>1, <2>3, <1>4 DEF Reachable
  <2> QED
    BY <2>2, <2>3
<1>10. \A j \in Instances, m \in Names :
         connections'[j][m] # 0 => conns'[connections[j][m]].pc # "done"
  BY <1>1, <1>5, WebSocketFacts
<1>u. \A u \in Conns : conns'[u] = conns[u] /\ ToldOnce(conns'[u])
  BY <1>1, WebSocketFacts
<1>c. \A c \in Calls :
        /\ call'[c].pc = "close" => call'[c].num \in Conns
        /\ call'[c].pc = "dial" => /\ call'[c].inst \in Instances /\ call'[c].name \in Names
                                    /\ "websocket" \in granted
  BY <1>1, WebSocketFacts
<1>s. conns' \in Seq(ConnTypes) /\ Len(conns') = Len(conns) /\ granted' = granted
  BY <1>1, WebSocketFacts
<1>11. ConnsMove
  BY <1>s, <1>c, <1>u, <1>4, <1>5, <1>8, <1>9, <1>10 DEF ConnsMove
<1> QED
  BY <1>11, ConnsMoved

LEMMA WebSocketClosedKeeps ==
  ASSUME WebSocketPart, InstancePart, NEW i \in Instances, WebSocketClosed(i)
  PROVE  WebSocketPart'
<1>1. /\ UNCHANGED <<granted, webSocketVars>> /\ call' = call
      /\ stage[i] = "hanging up" /\ stage \in [Instances -> Stages]
      /\ stage' = [stage EXCEPT ![i] = ToStore]
  BY DEF WebSocketClosed, Move, InstancePart, InstancesTypeOK
<1>2. \A j \in Instances : Reachable(j) => Reachable(j)'
  BY <1>1 DEF Reachable
<1>3. WebSocketFrame
  BY <1>1, <1>2 DEF WebSocketFrame
<1> QED
  BY <1>3, WebSocketStands

(* The handshake: the new connection takes the name, and what the name held *)
(* before is lost from sight.                                               *)
LEMMA DialledKeeps ==
  ASSUME WebSocketPart, InstancePart, NEW c \in Calls, Dialled(c)
  PROVE  WebSocketPart'
<1>0. PICK i \in Instances, n \in Names : i = call[c].inst /\ n = call[c].name
  BY WebSocketFacts DEF Dialled
<1>p. PICK lost, new \in Nat : lost = connections[i][n] /\ new = Len(conns) + 1
  BY WebSocketFacts
<1> DEFINE kept == [k \in Conns |-> IF k = lost THEN [conns[k] EXCEPT !.unsafe = TRUE]
                                                ELSE conns[k]]
           r == New(i, n)
<1>1. /\ conns' = Append(kept, r) /\ connections' = [connections EXCEPT ![i][n] = new]
      /\ hanging' = hanging /\ granted' = granted /\ stage' = stage
      /\ call' = [call EXCEPT ![c] = Idle] /\ call[c].pc = "dial" /\ "websocket" \in granted
      /\ Len(conns) < MaxConns /\ call \in [Calls -> CallTypes]
  BY <1>0, <1>p, WebSocketFacts DEF Dialled, Leave, InstancePart, InstancesTypeOK
<1>2. /\ r \in ConnTypes /\ r.inst = i /\ r.name = n /\ r.up /\ ~r.marked /\ r.pc = "reading"
      /\ r.told = 0 /\ ~r.dropped /\ r.unsafe = (~Reachable(i) \/ Readers(i, n) # {})
  BY DEF New, ConnTypes
<1>3. /\ kept \in Seq(ConnTypes) /\ Len(kept) = Len(conns) /\ Len(conns) \in Nat
      /\ Conns = 1..Len(conns)
  <2>1. \A k \in Conns : kept[k] \in ConnTypes
    BY WebSocketFacts DEF ConnTypes
  <2> QED
    BY <2>1, WebSocketFacts
<1>4. \A k \in Conns :
        /\ kept[k].inst = conns[k].inst /\ kept[k].name = conns[k].name
        /\ kept[k].up = conns[k].up /\ kept[k].marked = conns[k].marked
        /\ kept[k].pc = conns[k].pc /\ kept[k].told = conns[k].told
        /\ kept[k].dropped = conns[k].dropped
        /\ kept[k].unsafe = (k = lost \/ conns[k].unsafe)
  BY WebSocketFacts DEF ConnTypes
<1> HIDE DEF r, kept
<1>5. /\ conns' \in Seq(ConnTypes) /\ Len(conns') = new /\ Conns' = Conns \cup {new}
      /\ conns'[new] = r /\ \A k \in Conns : conns'[k] = kept[k] /\ k < new
      /\ new \notin Conns /\ new # 0
  BY <1>1, <1>2, <1>3, <1>p DEF Conns
<1>6. \A k \in Conns :
        /\ conns'[k].inst = conns[k].inst /\ conns'[k].name = conns[k].name
        /\ conns'[k].up = conns[k].up /\ conns'[k].marked = conns[k].marked
        /\ conns'[k].pc = conns[k].pc /\ conns'[k].told = conns[k].told
        /\ conns'[k].dropped = conns[k].dropped
        /\ conns'[k].unsafe = (k = lost \/ conns[k].unsafe)
        /\ ToldOnce(conns'[k])
  <2> SUFFICES ASSUME NEW k \in Conns
               PROVE  /\ conns'[k].inst = conns[k].inst /\ conns'[k].name = conns[k].name
                      /\ conns'[k].up = conns[k].up /\ conns'[k].marked = conns[k].marked
                      /\ conns'[k].pc = conns[k].pc /\ conns'[k].told = conns[k].told
                      /\ conns'[k].dropped = conns[k].dropped
                      /\ conns'[k].unsafe = (k = lost \/ conns[k].unsafe)
                      /\ ToldOnce(conns'[k])
    OBVIOUS
  <2>1. conns'[k] = kept[k] /\ ToldOnce(conns[k])
    BY <1>5, WebSocketFacts
  <2>2. ToldOnce(kept[k])
    BY <2>1, <1>4 DEF ToldOnce
  <2> QED
    BY <2>1, <2>2, <1>4
<1>7. /\ connections' \in [Instances -> [Names -> 0..Len(conns')]]
      /\ connections'[i][n] = new
      /\ \A j \in Instances, m \in Names :
           <<j, m>> # <<i, n>> => connections'[j][m] = connections[j][m]
  <2>1. new \in 0..new /\ \A e \in 0..Len(conns) : e \in 0..new
    BY <1>3, <1>p
  <2> QED
    BY <2>1, <1>1, <1>5, WebSocketFacts
<1>8. /\ call'[c] = Idle /\ Idle.pc = "idle" /\ \A d \in Calls \ {c} : call'[d] = call[d]
  BY <1>1 DEF Idle
<1>9. /\ \A d \in Calls : \A k : Held(d, k)' <=> Held(d, k)
      /\ \A k \in Conns : BeingClosed(k)' <=> BeingClosed(k)
      /\ ~BeingClosed(new)' /\ \A d \in Calls : ~Held(d, new)'
  <2>1. \A d \in Calls : \A k : Held(d, k)' <=> Held(d, k)
    BY <1>1, <1>8 DEF Held
  <2>2. \A k \in Conns : BeingClosed(k)' <=> BeingClosed(k)
    BY <1>1, <1>6, <1>8 DEF BeingClosed
  <2>3. \A d \in Calls : ~Held(d, new)
    BY <1>5, WebSocketFacts DEF Held
  <2>4. conns'[new].inst = i /\ new \notin hanging'[i]
    BY <1>1, <1>2, <1>5, WebSocketFacts
  <2>5. ~BeingClosed(new)'
    <3>1. \A d \in Calls : ~(call'[d].pc = "close" /\ call'[d].num = new)
      BY <2>1, <2>3 DEF Held
    <3>2. ~(new \in hanging'[conns'[new].inst])
      BY <2>4
    <3> QED
      BY <3>1, <3>2, <1>3 DEF BeingClosed
  <2> QED
    BY <2>1, <2>2, <2>3, <2>5
<1>10. WebSocketTypeOK'
  <2>1. hanging' \in [Instances -> SUBSET Conns'] /\ Len(conns') <= MaxConns
    BY <1>1, <1>3, <1>5, <1>p, WebSocketAssumption, WebSocketFacts
  <2>2. \A d \in Calls :
          /\ call'[d].pc = "close" => call'[d].num \in Conns'
          /\ call'[d].pc = "dial" => (call'[d].inst \in Instances /\ call'[d].name \in Names)
    BY <1>5, <1>8, WebSocketFacts
  <2> QED
    BY <1>5, <1>7, <2>1, <2>2 DEF WebSocketTypeOK
<1>11. LatestConn'
  <2> SUFFICES ASSUME NEW j \in Instances, NEW m \in Names, NEW e, e = connections'[j][m], e # 0
               PROVE  /\ e \in Conns' /\ conns'[e].inst = j /\ conns'[e].name = m
                      /\ conns'[e].pc # "done"
                      /\ \A u \in Conns' : conns'[u].inst = j /\ conns'[u].name = m => u <= e
    BY DEF LatestConn
  <2>1. CASE j = i /\ m = n
    <3>1. e = new
      BY <2>1, <1>7
    <3>2. \A u \in Conns' : u <= new
      BY <1>3, <1>5, <1>p
    <3> QED
      BY <3>1, <3>2, <2>1, <1>2, <1>5
  <2>2. CASE <<j, m>> # <<i, n>>
    <3>1. /\ e \in Conns /\ conns[e].inst = j /\ conns[e].name = m /\ conns[e].pc # "done"
          /\ \A u \in Conns : conns[u].inst = j /\ conns[u].name = m => u <= e
      BY <2>2, <1>7 DEF WebSocketPart, LatestConn
    <3>2. ~(r.inst = j /\ r.name = m)
      BY <2>2, <1>2
    <3>3. \A u \in Conns' : conns'[u].inst = j /\ conns'[u].name = m => u <= e
      BY <3>1, <3>2, <1>5, <1>6
    <3> QED
      BY <3>1, <3>3, <1>5, <1>6
  <2> QED
    BY <2>1, <2>2
<1>12. SpreadConn'
  <2> SUFFICES ASSUME NEW k \in Conns', NEW u \in Conns', u < k,
                      conns'[u].inst = conns'[k].inst, conns'[u].name = conns'[k].name,
                      conns'[u].pc # "done"
               PROVE  conns'[k].unsafe
    BY DEF SpreadConn, Before
  <2>1. CASE k = new
    <3>1. u \in Conns /\ conns[u].inst = i /\ conns[u].name = n /\ conns[u].pc # "done"
      BY <2>1, <1>2, <1>3, <1>5, <1>6, <1>p
    <3>2. u \in Readers(i, n)
      BY <3>1 DEF Readers
    <3> QED
      BY <3>2, <2>1, <1>2, <1>5
  <2>2. CASE k # new
    <3>1. k \in Conns /\ u \in Conns
      BY <2>2, <1>3, <1>5, <1>p
    <3>2. Before(k, u) /\ conns[u].pc # "done"
      BY <3>1, <1>6 DEF Before
    <3> QED
      BY <3>1, <3>2, <1>6 DEF WebSocketPart, SpreadConn
  <2> QED
    BY <2>1, <2>2
<1>13. Exclusive'
  <2>1. \A j \in Instances, m \in Names : connections'[j][m] # 0 =>
          ~conns'[connections'[j][m]].marked /\ ~BeingClosed(connections[j][m])'
    <3> SUFFICES ASSUME NEW j \in Instances, NEW m \in Names, connections'[j][m] # 0
                 PROVE  ~conns'[connections'[j][m]].marked /\ ~BeingClosed(connections[j][m])'
      OBVIOUS
    <3>1. CASE j = i /\ m = n
      <4>1. new = connections'[j][m]
        BY <3>1, <1>7
      <4>2. ~conns'[new].marked /\ ~BeingClosed(new)'
        BY <1>2, <1>5, <1>9
      <4> QED
        BY <4>1, <4>2
    <3>2. CASE <<j, m>> # <<i, n>>
      <4>1. PICK e \in Conns : e = connections'[j][m] /\ e = connections[j][m]
        BY <3>2, <1>7, WebSocketFacts
      <4>2. ~conns[e].marked /\ ~BeingClosed(e)
        BY <4>1, WebSocketFacts DEF WebSocketPart, Exclusive
      <4>3. ~conns'[e].marked /\ ~BeingClosed(e)'
        BY <4>2, <1>6, <1>9
      <4> QED
        BY <4>1, <4>3
    <3> QED
      BY <3>1, <3>2
  <2>2. \A d \in Calls, u \in Conns' : Held(d, u)' =>
          /\ ~conns'[u].marked /\ u \notin hanging'[conns'[u].inst]
          /\ \A e \in Calls : Held(e, u)' => e = d
    <3> SUFFICES ASSUME NEW d \in Calls, NEW u \in Conns', Held(d, u)'
                 PROVE  /\ ~conns'[u].marked /\ u \notin hanging'[conns'[u].inst]
                        /\ \A e \in Calls : Held(e, u)' => e = d
      OBVIOUS
    <3>1. u \in Conns /\ Held(d, u)
      BY <1>5, <1>9
    <3>2. /\ ~conns[u].marked /\ u \notin hanging[conns[u].inst]
          /\ \A e \in Calls : Held(e, u) => e = d
      BY <3>1 DEF WebSocketPart, Exclusive
    <3> QED
      BY <3>1, <3>2, <1>1, <1>6, <1>9
  <2>3. \A j \in Instances : \A u \in hanging'[j] : ~conns'[u].marked /\ conns'[u].inst = j
    <3> SUFFICES ASSUME NEW j \in Instances, NEW u \in hanging'[j]
                 PROVE  ~conns'[u].marked /\ conns'[u].inst = j
      OBVIOUS
    <3>1. u \in hanging[j] /\ u \in Conns
      BY <1>1, WebSocketFacts
    <3>2. ~conns[u].marked /\ conns[u].inst = j
      BY <3>1 DEF WebSocketPart, Exclusive
    <3> QED
      BY <3>1, <3>2, <1>6
  <2> QED
    BY <2>1, <2>2, <2>3 DEF Exclusive
<1>14. Told'
  <2>1. ToldOnce(r)
    BY <1>2 DEF ToldOnce
  <2> QED
    BY <2>1, <1>5, <1>6 DEF Told
<1>15. PermittedConn'
  BY <1>1 DEF PermittedConn
<1>16. ConnectionsKnown'
  <2> SUFFICES ASSUME NEW k \in Conns'
               PROVE  /\ conns'[k].up /\ ~conns'[k].unsafe =>
                            BeingClosed(k)' \/ (/\ connections'[conns'[k].inst][conns'[k].name] = k
                                               /\ Reachable(conns[k].inst)')
                      /\ conns'[k].told = 2 => conns'[k].dropped
    BY DEF ConnectionsKnown
  <2>1. conns'[k] \in ConnTypes
    BY <1>10 DEF WebSocketTypeOK, Conns
  <2>2. conns'[k].told = 2 => conns'[k].dropped
    BY <2>1, <1>14, ToldTwice DEF Told
  <2>3. SUFFICES ASSUME conns'[k].up, ~conns'[k].unsafe
                 PROVE  BeingClosed(k)' \/ (/\ connections'[conns'[k].inst][conns'[k].name] = k
                                           /\ Reachable(conns[k].inst)')
    BY <2>2
  <2>4. CASE k = new
    <3>1. stage'[i] \in {"loaded", "scheduler", "stopping", "websocket"}
      BY <2>3, <2>4, <1>1, <1>2, <1>5 DEF Reachable
    <3>2. connections'[conns'[k].inst][conns'[k].name] = k /\ conns'[k].inst = i
      BY <2>4, <1>2, <1>5, <1>7
    <3> QED
      BY <3>1, <3>2 DEF Reachable
  <2>5. CASE k # new
    <3>1. k \in Conns /\ conns[k].up /\ ~conns[k].unsafe /\ k # lost
      BY <2>3, <2>5, <1>5, <1>6
    <3>2. BeingClosed(k) \/ (/\ connections[conns[k].inst][conns[k].name] = k
                            /\ Reachable(conns[k].inst))
      BY <3>1 DEF WebSocketPart, ConnectionsKnown
    <3>3. CASE BeingClosed(k)
      BY <3>1, <3>3, <1>9
    <3>4. CASE connections[conns[k].inst][conns[k].name] = k /\ Reachable(conns[k].inst)
      <4>1. <<conns[k].inst, conns[k].name>> # <<i, n>>
        BY <3>1, <3>4, <1>p
      <4>2. connections'[conns[k].inst][conns[k].name] = k
        BY <4>1, <3>1, <3>4, <1>7, WebSocketFacts
      <4>3. conns'[k].inst = conns[k].inst /\ conns'[k].name = conns[k].name
        BY <3>1, <1>6
      <4>4. stage'[conns[k].inst] \in {"loaded", "scheduler", "stopping", "websocket"}
        BY <3>4, <1>1 DEF Reachable
      <4> QED
        BY <4>2, <4>3, <4>4 DEF Reachable
    <3> QED
      BY <3>2, <3>3, <3>4
  <2> QED
    BY <2>4, <2>5
<1> QED
  BY <1>10, <1>11, <1>12, <1>13, <1>14, <1>15, <1>16 DEF WebSocketPart

LEMMA WebSocketStepKeeps ==
  ASSUME WebSocketPart, InstancePart, Closing, WebSocketStep
  PROVE  WebSocketPart'
<1>0. call \in [Calls -> CallTypes] /\ Idle.pc = "idle"
  BY DEF InstancePart, InstancesTypeOK, Idle
<1>1. ASSUME NEW i \in Instances, NEW n \in Names, NEW c \in Calls, Connect(c, i, n)
      PROVE  WebSocketPart'
  <2> DEFINE r == [pc |-> "dial", inst |-> i, name |-> n, num |-> 0, old |-> 0]
  <2>1. /\ UNCHANGED <<granted, stage, webSocketVars>> /\ call' = [call EXCEPT ![c] = r]
        /\ call[c].pc # "close" /\ "websocket" \in granted
    BY <1>1 DEF Connect, Enter, May
  <2>2. r.pc = "dial" /\ r.inst = i /\ r.name = n
    OBVIOUS
  <2> HIDE DEF r
  <2> QED
    BY <2>1, <2>2, <1>0, DiallingKeeps
<1>2. ASSUME NEW c \in Calls, DialFails(c)
      PROVE  WebSocketPart'
  <2>1. /\ UNCHANGED <<granted, stage, webSocketVars>> /\ call' = [call EXCEPT ![c] = Idle]
        /\ call[c].pc # "close"
    BY <1>2 DEF DialFails, Leave
  <2> QED
    BY <2>1, <1>0, DiallingKeeps
<1>3. ASSUME NEW i \in Instances, NEW n \in Names, NEW c \in Calls, CloseConnection(c, i, n)
      PROVE  WebSocketPart'
  BY <1>3, CloseConnectionKeeps
<1>4. ASSUME NEW i \in Instances, NEW k \in hanging[i], HangUpOne(i, k)
      PROVE  WebSocketPart'
  BY <1>4, HangUpOneKeeps
<1>5. ASSUME NEW i \in Instances, TakeConnections(i) \/ WebSocketClosed(i)
      PROVE  WebSocketPart'
  BY <1>5, TakeConnectionsKeeps, WebSocketClosedKeeps
<1>6. ASSUME NEW c \in Calls, Dialled(c) \/ HangUp(c)
      PROVE  WebSocketPart'
  BY <1>6, DialledKeeps, HangUpKeeps
<1>7. ASSUME NEW k \in Conns, Drop(k) \/ ReadEnds(k) \/ Tell(k) \/ ReaderLeaves(k)
      PROVE  WebSocketPart'
  BY <1>7, DropKeeps, ReadEndsKeeps, TellKeeps, ReaderLeavesKeeps
<1> QED
  BY <1>1, <1>2, <1>3, <1>4, <1>5, <1>6, <1>7 DEF WebSocketStep

----------------------------------------------------------------------------
(* The steps of each component, the others in the frame *)

(* Only calls at these places, or getting there, move. *)
CallsWithin(pcs) ==
  \A d \in Calls : call'[d] = call[d] \/ (call[d].pc \in pcs /\ call'[d].pc \in pcs)

SchedulerCalls == {"idle", "cancel"}
WebSocketCalls == {"idle", "dial", "close"}
StoreCalls == {"idle", "check", "store", "account"}

LEMMA OneCall ==
  ASSUME InstancePart, UNCHANGED <<granted, stage>>, table' \in [Keys -> Nat],
         NEW c \in Calls, NEW r \in CallTypes, call' = [call EXCEPT ![c] = r],
         NEW pcs, call[c].pc \in pcs, r.pc \in pcs
  PROVE  InstancePart' /\ CallsWithin(pcs)
BY DEF InstancePart, InstancesTypeOK, CallsWithin

LEMMA NoCall ==
  ASSUME InstancePart, UNCHANGED <<instanceVars, table>>, NEW pcs
  PROVE  InstancePart' /\ CallsWithin(pcs) /\ UNCHANGED stage
BY DEF InstancePart, InstancesTypeOK, CallsWithin, instanceVars

LEMMA OneMove ==
  ASSUME InstancePart, NEW i \in Instances, NEW to \in Stages, NEW from, Move(i, from, to),
         UNCHANGED table, NEW pcs
  PROVE  /\ InstancePart' /\ CallsWithin(pcs) /\ granted' = granted
         /\ stage[i] = from /\ stage'[i] = to
         /\ \A j \in Instances \ {i} : stage'[j] = stage[j]
BY DEF InstancePart, InstancesTypeOK, CallsWithin, Move

LEMMA LoadedWays ==
  /\ "stopping" \in Stages /\ "hanging up" \in Stages /\ "compiled" \in Stages
  /\ "gone" \in Stages /\ "loaded" \in Stages
BY DEF Stages

(* What a step of the store does to the rest. *)
LEMMA StoreStepMoves ==
  ASSUME InstancePart, StoreStep
  PROVE  /\ InstancePart' /\ granted' = granted /\ CallsWithin(StoreCalls)
         /\ \A j \in Instances : stage'[j] = stage[j] \/ stage[j] = "kvstore"
<1>0. /\ call \in [Calls -> CallTypes] /\ stage \in [Instances -> Stages]
      /\ table \in [Keys -> Nat]
  BY DEF InstancePart, InstancesTypeOK
<1>1. ASSUME NEW c \in Calls, NEW i \in Instances, NEW k \in Keys,
             NEW pc \in {"check", "store"}, NEW size \in Nat, Read(c, i, k, pc, size)
      PROVE  InstancePart' /\ granted' = granted /\ stage' = stage /\ CallsWithin(StoreCalls)
  <2> DEFINE r == [pc |-> pc, inst |-> i, name |-> k, num |-> size, old |-> table[k]]
  <2>1. /\ call[c].pc = "idle" /\ call' = [call EXCEPT ![c] = r]
        /\ stage' = stage /\ granted' = granted /\ table' = table
    BY <1>1 DEF Read, Enter
  <2>2. r \in CallTypes /\ r.pc = pc
    <3>1. table[k] \in Nat /\ i \in 0..MaxLoads /\ k \in Names \cup Keys \cup {None}
      BY <1>0, InstancesAssumption
    <3>2. pc \in {"idle", "cancel", "dial", "close", "check", "store", "account"}
      OBVIOUS
    <3> QED
      BY <3>1, <3>2 DEF CallTypes
  <2> HIDE DEF r
  <2>3. call[c].pc \in StoreCalls /\ r.pc \in StoreCalls
    BY <2>1, <2>2 DEF StoreCalls
  <2> QED
    BY <2>1, <2>2, <2>3, <1>0, OneCall
<1>2. ASSUME NEW c \in Calls, Check(c) \/ Store(c) \/ StoreFails(c) \/ Account(c)
      PROVE  InstancePart' /\ granted' = granted /\ stage' = stage /\ CallsWithin(StoreCalls)
  <2>1. /\ stage' = stage /\ granted' = granted /\ call[c].pc \in StoreCalls
    BY <1>2 DEF Check, Store, StoreFails, Account, storeVars, StoreCalls
  <2>2. PICK r \in CallTypes : call' = [call EXCEPT ![c] = r] /\ r.pc \in StoreCalls
    <3>1. ASSUME NEW pc \in {"store", "account"}, GoOn(c, pc)
          PROVE  \E r \in CallTypes : call' = [call EXCEPT ![c] = r] /\ r.pc \in StoreCalls
      <4>1. [call[c] EXCEPT !.pc = pc] \in CallTypes /\ [call[c] EXCEPT !.pc = pc].pc = pc
        BY <1>0 DEF CallTypes
      <4> QED
        BY <3>1, <4>1, <1>0 DEF GoOn, StoreCalls
    <3>2. CASE Leave(c)
      BY <3>2, IdleType DEF Leave, Idle, StoreCalls
    <3> QED
      BY <1>2, <3>1, <3>2 DEF Check, Store, StoreFails, Account
  <2>3. table' \in [Keys -> Nat]
    <3>1. call[c].num \in Nat
      BY <1>0 DEF CallTypes
    <3> QED
      BY <1>2, <1>0, <3>1 DEF Check, Store, StoreFails, Account, storeVars
  <2> QED
    BY <2>1, <2>2, <2>3, OneCall
<1>3. ASSUME NEW i \in Instances, CloseStore(i)
      PROVE  /\ InstancePart' /\ granted' = granted /\ CallsWithin(StoreCalls)
             /\ \A j \in Instances : stage'[j] = stage[j] \/ stage[j] = "kvstore"
  <2>1. Move(i, "kvstore", "compiled") /\ table' = table
    BY <1>3 DEF CloseStore, storeVars
  <2> QED
    BY <2>1, OneMove, LoadedWays
<1>4. Sizes \subseteq Nat /\ 0 \in Nat
  BY StoreAssumption
<1> QED
  BY <1>1, <1>2, <1>3, <1>4 DEF StoreStep, Set, Delete

(* What a step of the scheduler does to the rest. *)
LEMMA SchedulerStepMoves ==
  ASSUME InstancePart, SchedulerPart, SchedulerStep, UNCHANGED table
  PROVE  /\ InstancePart' /\ granted' = granted /\ CallsWithin(SchedulerCalls)
         /\ \A j \in Instances : \/ stage'[j] = stage[j]
                                 \/ stage[j] = "scheduler" /\ stage'[j] = "stopping"
                                 \/ stage[j] = "stopping" /\ stage'[j] = ToWebSocket
<1>0. /\ call \in [Calls -> CallTypes] /\ stage \in [Instances -> Stages]
      /\ table' \in [Keys -> Nat]
  BY DEF InstancePart, InstancesTypeOK
<1>1. ASSUME NEW i \in Instances, NEW n \in Names, NEW c \in Calls, Cancel(c, i, n)
      PROVE  InstancePart' /\ granted' = granted /\ stage' = stage /\ CallsWithin(SchedulerCalls)
  <2>0. PICK e \in Timers : e = schedules[i][n]
    BY <1>1 DEF Cancel, SchedulerPart, Latest
  <2> DEFINE r == [pc |-> "cancel", inst |-> i, name |-> n, num |-> e, old |-> 0]
  <2>1. /\ call[c].pc = "idle" /\ call' = [call EXCEPT ![c] = r]
        /\ stage' = stage /\ granted' = granted
    BY <1>1, <2>0 DEF Cancel, Enter
  <2>2. r \in CallTypes /\ r.pc = "cancel"
    <3>1. e \in Nat /\ i \in 0..MaxLoads /\ n \in Names \cup Keys \cup {None}
      BY TimerType, InstancesAssumption DEF SchedulerPart
    <3> QED
      BY <3>1 DEF CallTypes
  <2> HIDE DEF r
  <2>3. call[c].pc \in SchedulerCalls /\ r.pc \in SchedulerCalls
    BY <2>1, <2>2 DEF SchedulerCalls
  <2> QED
    BY <2>1, <2>2, <2>3, <1>0, OneCall
<1>2. ASSUME NEW c \in Calls, StopCancelled(c)
      PROVE  InstancePart' /\ granted' = granted /\ stage' = stage /\ CallsWithin(SchedulerCalls)
  <2>1. /\ call[c].pc = "cancel" /\ call' = [call EXCEPT ![c] = Idle]
        /\ stage' = stage /\ granted' = granted
    BY <1>2 DEF StopCancelled, Leave
  <2>2. call[c].pc \in SchedulerCalls /\ Idle.pc \in SchedulerCalls
    BY <2>1 DEF SchedulerCalls, Idle
  <2> QED
    BY <2>1, <2>2, <1>0, IdleType, OneCall
<1>3. ASSUME UNCHANGED instanceVars
      PROVE  InstancePart' /\ granted' = granted /\ stage' = stage /\ CallsWithin(SchedulerCalls)
  BY <1>3, NoCall DEF instanceVars
<1>4. ASSUME NEW i \in Instances, TakeSchedules(i)
      PROVE  /\ InstancePart' /\ granted' = granted /\ CallsWithin(SchedulerCalls)
             /\ \A j \in Instances : \/ stage'[j] = stage[j]
                                     \/ stage[j] = "scheduler" /\ stage'[j] = "stopping"
  BY <1>4, OneMove, LoadedWays DEF TakeSchedules
<1>5. ASSUME NEW i \in Instances, SchedulerClosed(i)
      PROVE  /\ InstancePart' /\ granted' = granted /\ CallsWithin(SchedulerCalls)
             /\ \A j \in Instances : \/ stage'[j] = stage[j]
                                     \/ stage[j] = "stopping" /\ stage'[j] = ToWebSocket
  BY <1>5, OneMove, Ways DEF SchedulerClosed
<1>6. ASSUME NEW i \in Instances, NEW n \in Names, NEW b \in BOOLEAN, Schedule(i, n, b)
      PROVE  UNCHANGED instanceVars
  BY <1>6 DEF Schedule
<1>7. ASSUME NEW i \in Instances, NEW t, StopOne(i, t)
      PROVE  UNCHANGED instanceVars
  BY <1>7 DEF StopOne
<1>8. ASSUME NEW t, Fire(t) \/ LookUp(t) \/ Return(t) \/ CleanUp(t)
      PROVE  UNCHANGED instanceVars
  BY <1>8 DEF Fire, LookUp, Return, CleanUp
<1> QED
  BY <1>1, <1>2, <1>3, <1>4, <1>5, <1>6, <1>7, <1>8 DEF SchedulerStep

(* What a step of the connections does to the rest. *)
LEMMA WebSocketStepMoves ==
  ASSUME InstancePart, WebSocketPart, WebSocketStep, UNCHANGED table
  PROVE  /\ InstancePart' /\ granted' = granted /\ CallsWithin(WebSocketCalls)
         /\ \A j \in Instances : \/ stage'[j] = stage[j]
                                 \/ stage[j] = "websocket" /\ stage'[j] = "hanging up"
                                 \/ stage[j] = "hanging up" /\ stage'[j] = ToStore
<1>0. /\ call \in [Calls -> CallTypes] /\ stage \in [Instances -> Stages]
      /\ table' \in [Keys -> Nat]
  BY DEF InstancePart, InstancesTypeOK
<1>1. ASSUME NEW i \in Instances, NEW n \in Names, NEW c \in Calls, NEW num \in Nat,
             NEW pc \in {"dial", "close"}, Enter(c, pc, i, n, num, 0), UNCHANGED <<granted, stage>>
      PROVE  InstancePart' /\ granted' = granted /\ stage' = stage /\ CallsWithin(WebSocketCalls)
  <2> DEFINE r == [pc |-> pc, inst |-> i, name |-> n, num |-> num, old |-> 0]
  <2>1. call[c].pc = "idle" /\ call' = [call EXCEPT ![c] = r]
    BY <1>1 DEF Enter
  <2>2. r \in CallTypes /\ r.pc = pc
    <3>1. i \in 0..MaxLoads /\ n \in Names \cup Keys \cup {None}
      BY InstancesAssumption
    <3> QED
      BY <3>1 DEF CallTypes
  <2> HIDE DEF r
  <2>3. call[c].pc \in WebSocketCalls /\ r.pc \in WebSocketCalls
    BY <2>1, <2>2 DEF WebSocketCalls
  <2> QED
    BY <2>1, <2>2, <2>3, <1>0, <1>1, OneCall
<1>2. ASSUME NEW c \in Calls, call[c].pc \in WebSocketCalls, Leave(c), UNCHANGED <<granted, stage>>
      PROVE  InstancePart' /\ granted' = granted /\ stage' = stage /\ CallsWithin(WebSocketCalls)
  <2>1. call' = [call EXCEPT ![c] = Idle] /\ Idle.pc \in WebSocketCalls
    BY <1>2 DEF Leave, Idle, WebSocketCalls
  <2> QED
    BY <2>1, <1>0, <1>2, IdleType, OneCall
<1>3. ASSUME UNCHANGED instanceVars
      PROVE  InstancePart' /\ granted' = granted /\ stage' = stage /\ CallsWithin(WebSocketCalls)
  BY <1>3, NoCall DEF instanceVars
<1>4. ASSUME NEW i \in Instances, TakeConnections(i)
      PROVE  /\ InstancePart' /\ granted' = granted /\ CallsWithin(WebSocketCalls)
             /\ \A j \in Instances : \/ stage'[j] = stage[j]
                                     \/ stage[j] = "websocket" /\ stage'[j] = "hanging up"
  BY <1>4, OneMove, LoadedWays DEF TakeConnections
<1>5. ASSUME NEW i \in Instances, WebSocketClosed(i)
      PROVE  /\ InstancePart' /\ granted' = granted /\ CallsWithin(WebSocketCalls)
             /\ \A j \in Instances : \/ stage'[j] = stage[j]
                                     \/ stage[j] = "hanging up" /\ stage'[j] = ToStore
  BY <1>5, OneMove, Ways DEF WebSocketClosed
<1>6. ASSUME NEW i \in Instances, NEW n \in Names, NEW c \in Calls,
             Connect(c, i, n) \/ CloseConnection(c, i, n)
      PROVE  InstancePart' /\ granted' = granted /\ stage' = stage /\ CallsWithin(WebSocketCalls)
  <2>1. connections[i][n] \in Nat
    BY WebSocketFacts
  <2> QED
    BY <1>1, <1>6, <2>1 DEF Connect, CloseConnection
<1>7. ASSUME NEW c \in Calls, DialFails(c) \/ Dialled(c) \/ HangUp(c)
      PROVE  InstancePart' /\ granted' = granted /\ stage' = stage /\ CallsWithin(WebSocketCalls)
  BY <1>2, <1>7 DEF DialFails, Dialled, HangUp, WebSocketCalls
<1>8. ASSUME NEW i, NEW k, HangUpOne(i, k) \/ Drop(k) \/ ReadEnds(k) \/ Tell(k) \/ ReaderLeaves(k)
      PROVE  UNCHANGED instanceVars
  BY <1>8 DEF HangUpOne, Drop, ReadEnds, Tell, ReaderLeaves
<1> QED
  BY <1>2, <1>3, <1>4, <1>5, <1>6, <1>7, <1>8 DEF WebSocketStep

(* What a load or an unload does to the rest. *)
LEMMA LifecycleMoves ==
  ASSUME InstancePart, Lifecycle
  PROVE  /\ InstancePart' /\ granted' = granted /\ UNCHANGED <<schedulerVars, webSocketVars>>
         /\ \A pcs : CallsWithin(pcs)
         /\ \A j \in Instances : \/ stage'[j] = stage[j]
                                 \/ stage[j] \in {"new", "compiled"}
                                 \/ stage[j] = "loaded" /\ stage'[j] = ToScheduler
<1>1. ASSUME NEW i \in Instances, NEW pcs, Load(i)
      PROVE  /\ InstancePart' /\ granted' = granted /\ CallsWithin(pcs)
             /\ \A j \in Instances : stage'[j] = stage[j] \/ stage[j] = "new"
  <2>1. Move(i, "new", "loaded") /\ table' = table
    BY <1>1 DEF Load, LoadInstance, OpenStore
  <2> QED
    BY <2>1, OneMove, LoadedWays
<1>2. ASSUME NEW i \in Instances, NEW pcs, Unload(i), UNCHANGED storeVars
      PROVE  /\ InstancePart' /\ granted' = granted /\ CallsWithin(pcs)
             /\ \A j \in Instances : \/ stage'[j] = stage[j]
                                     \/ stage[j] = "loaded" /\ stage'[j] = ToScheduler
  BY <1>2, OneMove, Ways DEF Unload, storeVars
<1>3. ASSUME NEW i \in Instances, NEW pcs, CloseCompiled(i), UNCHANGED storeVars
      PROVE  /\ InstancePart' /\ granted' = granted /\ CallsWithin(pcs)
             /\ \A j \in Instances : stage'[j] = stage[j] \/ stage[j] = "compiled"
  BY <1>3, OneMove, LoadedWays DEF CloseCompiled, storeVars
<1>4. UNCHANGED <<schedulerVars, webSocketVars>>
  BY DEF Lifecycle, Load
<1> QED
  BY <1>1, <1>2, <1>3, <1>4 DEF Lifecycle

LEMMA StopsEarly ==
  ASSUME SchedulerStep, SchedulerTypeOK, InstancePart, NEW i \in Instances, Closing
  PROVE  stopping'[i] # {} => stage'[i] = "stopping"
<1>0. stage \in [Instances -> Stages] /\ stopping \in [Instances -> SUBSET Timers]
  BY DEF SchedulerTypeOK, InstancePart, InstancesTypeOK
<1>1. CASE UNCHANGED <<stage, stopping>>
  BY <1>1 DEF Closing
<1>2. ASSUME NEW j \in Instances, NEW t \in stopping[j], StopOne(j, t)
      PROVE  stopping'[i] # {} => stage'[i] = "stopping"
  <2>1. stopping'[i] \subseteq stopping[i] /\ stage' = stage
    BY <1>0, <1>2 DEF StopOne, instanceVars
  <2> QED
    BY <2>1 DEF Closing
<1>3. ASSUME NEW j \in Instances, TakeSchedules(j)
      PROVE  stopping'[i] # {} => stage'[i] = "stopping"
  BY <1>0, <1>3 DEF TakeSchedules, Move, Closing
<1>4. ASSUME NEW j \in Instances, SchedulerClosed(j)
      PROVE  stopping'[i] # {} => stage'[i] = "stopping"
  BY <1>0, <1>4 DEF SchedulerClosed, Move, Closing, schedulerVars
<1>5. ASSUME NEW j \in Instances, NEW n \in Names, NEW b \in BOOLEAN, Schedule(j, n, b)
      PROVE  UNCHANGED <<stage, stopping>>
  BY <1>5 DEF Schedule, instanceVars
<1>6. ASSUME NEW j \in Instances, NEW n \in Names, NEW c \in Calls, Cancel(c, j, n)
      PROVE  UNCHANGED <<stage, stopping>>
  BY <1>6 DEF Cancel
<1>7. ASSUME NEW c \in Calls, StopCancelled(c)
      PROVE  UNCHANGED <<stage, stopping>>
  BY <1>7 DEF StopCancelled
<1>8. ASSUME NEW t \in Timers, Fire(t) \/ LookUp(t) \/ Return(t) \/ CleanUp(t)
      PROVE  UNCHANGED <<stage, stopping>>
  BY <1>8 DEF Fire, LookUp, Return, CleanUp, instanceVars
<1> QED
  BY <1>1, <1>2, <1>3, <1>4, <1>5, <1>6, <1>7, <1>8 DEF SchedulerStep

LEMMA HangsUpEarly ==
  ASSUME WebSocketStep, WebSocketTypeOK, InstancePart, NEW i \in Instances, Closing
  PROVE  hanging'[i] # {} => stage'[i] = "hanging up"
<1>0. stage \in [Instances -> Stages] /\ hanging \in [Instances -> SUBSET Conns]
  BY DEF WebSocketTypeOK, InstancePart, InstancesTypeOK
<1>1. CASE UNCHANGED <<stage, hanging>>
  BY <1>1 DEF Closing
<1>2. ASSUME NEW j \in Instances, NEW k \in hanging[j], HangUpOne(j, k)
      PROVE  hanging'[i] # {} => stage'[i] = "hanging up"
  <2>1. hanging'[i] \subseteq hanging[i] /\ stage' = stage
    BY <1>0, <1>2 DEF HangUpOne, instanceVars
  <2> QED
    BY <2>1 DEF Closing
<1>3. ASSUME NEW j \in Instances, TakeConnections(j)
      PROVE  hanging'[i] # {} => stage'[i] = "hanging up"
  BY <1>0, <1>3 DEF TakeConnections, Move, Closing
<1>4. ASSUME NEW j \in Instances, WebSocketClosed(j)
      PROVE  hanging'[i] # {} => stage'[i] = "hanging up"
  BY <1>0, <1>4 DEF WebSocketClosed, Move, Closing, webSocketVars
<1>5. ASSUME NEW j \in Instances, NEW n \in Names, NEW c \in Calls,
             Connect(c, j, n) \/ CloseConnection(c, j, n)
      PROVE  UNCHANGED <<stage, hanging>>
  BY <1>5 DEF Connect, CloseConnection, webSocketVars
<1>6. ASSUME NEW c \in Calls, DialFails(c) \/ Dialled(c) \/ HangUp(c)
      PROVE  UNCHANGED <<stage, hanging>>
  BY <1>6 DEF DialFails, Dialled, HangUp, webSocketVars
<1>7. ASSUME NEW k \in Conns, Drop(k) \/ ReadEnds(k) \/ Tell(k) \/ ReaderLeaves(k)
      PROVE  UNCHANGED <<stage, hanging>>
  BY <1>7 DEF Drop, ReadEnds, Tell, ReaderLeaves, instanceVars
<1> QED
  BY <1>1, <1>2, <1>3, <1>4, <1>5, <1>6, <1>7 DEF WebSocketStep

----------------------------------------------------------------------------
(* The system *)

LEMMA Starts == Init => IInv
<1> SUFFICES ASSUME Init
             PROVE  IInv
  OBVIOUS
<1> USE DEF Init
<1>1. InstancePart
  <2>1. table \in [Keys -> Nat]
    <3>1. Sizes \cup {0} \subseteq Nat
      BY StoreAssumption
    <3>2. table \in [Keys -> Sizes \cup {0}]
      BY DEF StoreInit
    <3> QED
      BY <3>1, <3>2
  <2> QED
    BY <2>1, InstancesAssumption, IdleType
    DEF InstancesInit, InstancePart, InstancesTypeOK, Stages
<1>2. Timers = {} /\ Conns = {} /\ Len(timers) = 0 /\ Len(conns) = 0
  BY DEF SchedulerInit, WebSocketInit, Timers, Conns
<1>3. Closing
  BY DEF SchedulerInit, WebSocketInit, Closing
<1>4. \A c \in Calls : call[c].pc = "idle"
  BY DEF InstancesInit, Idle
<1>5. SchedulerPart
  <2>1. SchedulerTypeOK
    BY <1>2, <1>4, SchedulerAssumption DEF SchedulerInit, SchedulerTypeOK
  <2>2. Latest
    BY DEF SchedulerInit, Latest
  <2> QED
    BY <1>2, <2>1, <2>2
    DEF SchedulerPart, Spread, Once, FoundMade, Permitted, SchedulesKept
<1>6. WebSocketPart
  <2>1. WebSocketTypeOK
    BY <1>2, <1>4, WebSocketAssumption DEF WebSocketInit, WebSocketTypeOK
  <2>2. LatestConn
    BY DEF WebSocketInit, LatestConn
  <2>3. Exclusive
    BY <1>2, <1>4 DEF WebSocketInit, Exclusive
  <2>4. PermittedConn
    BY <1>2, <1>4 DEF PermittedConn
  <2> QED
    BY <1>2, <2>1, <2>2, <2>3, <2>4 DEF WebSocketPart, SpreadConn, Told, ConnectionsKnown
<1> QED
  BY <1>1, <1>3, <1>5, <1>6 DEF IInv

LEMMA Keeps == IInv /\ [Next]_vars => IInv'
<1> SUFFICES ASSUME IInv, [Next]_vars
             PROVE  IInv'
  OBVIOUS
<1>0. InstancePart /\ Closing /\ SchedulerPart /\ WebSocketPart
      /\ SchedulerTypeOK /\ WebSocketTypeOK
  BY DEF IInv, SchedulerPart, WebSocketPart
<1>s. /\ Timers # {} => ToScheduler = "scheduler"
      /\ Conns # {} => ToScheduler \in {"scheduler", "websocket"} /\ ToWebSocket = "websocket"
  BY <1>0 DEF SchedulerPart, WebSocketPart, Permitted, PermittedConn, ToScheduler, ToWebSocket
<1>1. CASE Lifecycle
  <2>1. /\ InstancePart' /\ granted' = granted /\ UNCHANGED <<schedulerVars, webSocketVars>>
        /\ CallsWithin({})
        /\ \A j \in Instances : \/ stage'[j] = stage[j]
                                \/ stage[j] \in {"new", "compiled"}
                                \/ stage[j] = "loaded" /\ stage'[j] = ToScheduler
    BY <1>0, <1>1, LifecycleMoves
  <2>2. SchedulerFrame
    BY <2>1, <1>s DEF SchedulerFrame, Kept, CallsWithin
  <2>3. WebSocketFrame
    BY <2>1, <1>s DEF WebSocketFrame, Reachable, CallsWithin
  <2>4. Closing'
    BY <2>1, <1>0 DEF Closing, schedulerVars, webSocketVars
  <2> QED
    BY <1>0, <2>1, <2>2, <2>3, <2>4, SchedulerStands, WebSocketStands DEF IInv
<1>2. CASE SchedulerStep /\ UNCHANGED <<webSocketVars, storeVars>>
  <2>0. table' = table /\ UNCHANGED webSocketVars
    BY <1>2 DEF storeVars
  <2>1. /\ InstancePart' /\ granted' = granted /\ CallsWithin(SchedulerCalls)
        /\ \A j \in Instances : \/ stage'[j] = stage[j]
                                \/ stage[j] = "scheduler" /\ stage'[j] = "stopping"
                                \/ stage[j] = "stopping" /\ stage'[j] = ToWebSocket
    BY <1>0, <1>2, <2>0, SchedulerStepMoves
  <2>2. SchedulerPart'
    BY <1>0, <1>2, SchedulerStepKeeps
  <2>3. WebSocketFrame
    BY <2>0, <2>1, <1>s DEF WebSocketFrame, Reachable, CallsWithin, SchedulerCalls
  <2>4. Closing'
    <3>1. \A i \in Instances : hanging[i] # {} => stage'[i] = "hanging up"
      BY <2>1, <1>0 DEF Closing
    <3> QED
      BY <3>1, <2>0, <1>0, <1>2, StopsEarly DEF Closing, webSocketVars
  <2> QED
    BY <1>0, <2>1, <2>2, <2>3, <2>4, WebSocketStands DEF IInv
<1>3. CASE WebSocketStep /\ UNCHANGED <<schedulerVars, storeVars>>
  <2>0. table' = table /\ UNCHANGED schedulerVars
    BY <1>3 DEF storeVars
  <2>1. /\ InstancePart' /\ granted' = granted /\ CallsWithin(WebSocketCalls)
        /\ \A j \in Instances : \/ stage'[j] = stage[j]
                                \/ stage[j] = "websocket" /\ stage'[j] = "hanging up"
                                \/ stage[j] = "hanging up" /\ stage'[j] = ToStore
    BY <1>0, <1>3, <2>0, WebSocketStepMoves
  <2>2. WebSocketPart'
    BY <1>0, <1>3, WebSocketStepKeeps
  <2>3. SchedulerFrame
    BY <2>0, <2>1 DEF SchedulerFrame, Kept, CallsWithin, WebSocketCalls
  <2>4. Closing'
    <3>1. \A i \in Instances : stopping[i] # {} => stage'[i] = "stopping"
      BY <2>1, <1>0 DEF Closing
    <3> QED
      BY <3>1, <2>0, <1>0, <1>3, HangsUpEarly DEF Closing, schedulerVars
  <2> QED
    BY <1>0, <2>1, <2>2, <2>3, <2>4, SchedulerStands DEF IInv
<1>4. CASE StoreStep /\ UNCHANGED <<schedulerVars, webSocketVars>>
  <2>1. /\ InstancePart' /\ granted' = granted /\ CallsWithin(StoreCalls)
        /\ \A j \in Instances : stage'[j] = stage[j] \/ stage[j] = "kvstore"
    BY <1>0, <1>4, StoreStepMoves
  <2>2. SchedulerFrame
    BY <1>4, <2>1 DEF SchedulerFrame, Kept, CallsWithin, StoreCalls
  <2>3. WebSocketFrame
    BY <1>4, <2>1 DEF WebSocketFrame, Reachable, CallsWithin, StoreCalls
  <2>4. Closing'
    BY <1>4, <2>1, <1>0 DEF Closing, schedulerVars, webSocketVars
  <2> QED
    BY <1>0, <2>1, <2>2, <2>3, <2>4, SchedulerStands, WebSocketStands DEF IInv
<1>5. CASE UNCHANGED vars
  <2>1. UNCHANGED <<instanceVars, table, schedulerVars, webSocketVars>>
    BY <1>5 DEF vars, storeVars
  <2>2. InstancePart' /\ CallsWithin({}) /\ stage' = stage /\ granted' = granted
    BY <1>0, <2>1, NoCall DEF instanceVars
  <2>3. SchedulerFrame /\ WebSocketFrame
    BY <2>1, <2>2 DEF SchedulerFrame, WebSocketFrame, Kept, Reachable, CallsWithin
  <2>4. Closing'
    BY <1>0, <2>1, <2>2 DEF Closing, schedulerVars, webSocketVars
  <2> QED
    BY <1>0, <2>2, <2>3, <2>4, SchedulerStands, WebSocketStands DEF IInv
<1> QED
  BY <1>1, <1>2, <1>3, <1>4, <1>5 DEF Next

LEMMA Invariant == Spec => []IInv
BY Starts, Keeps, PTL DEF Spec

(* Every safe schedule that can still fire is the one its name stands for,  *)
(* or is being stopped, and no callback is made for another safe entry.     *)
THEOREM KeepsSchedules == Spec => []SchedulesKept
<1>1. IInv => SchedulesKept
  BY DEF IInv, SchedulerPart
<1> QED
  BY <1>1, Invariant, PTL

(* Every safe connection that is up is the one its name stands for, or is   *)
(* being closed, and a plugin is told of an end twice only when the far   *)
(* side ended it too.                                                       *)
THEOREM KnowsConnections == Spec => []ConnectionsKnown
<1>1. IInv => ConnectionsKnown
  BY DEF IInv, WebSocketPart
<1> QED
  BY <1>1, Invariant, PTL

-----------------------------------------------------------------------------
(* Sums over a finite set. *)

(* The fold picks the elements of a set one after the other.                 *)
Pick(T) == CHOOSE x \in T : TRUE

(* The function by which a fold defines the sums of f over the subsets of S. *)
Sums(g, f, S) ==
  g = [T \in SUBSET S |-> IF T = {} THEN 0 ELSE f[Pick(T)] + g[T \ {Pick(T)}]]

Smaller == {p \in Nat \X Nat : p[1] < p[2]}

(* A set of numbers that is not empty has a least element. *)
LEMMA LeastNumber ==
  ASSUME NEW T \in SUBSET Nat, T # {} PROVE \E x \in T : \A y \in T : x <= y
<1>1. IsWellFoundedOn(Smaller, Nat)
  <2>1. OpToRel(<, Nat) = Smaller
    BY DEF OpToRel, Smaller
  <2> QED
    BY <2>1, NatLessThanWellFounded
<1>2. PICK x \in T : \A y \in T : <<y, x>> \notin Smaller
  BY <1>1, WFMin
<1>3. \A y \in T : y < x => <<y, x>> \in Smaller
  BY DEF Smaller
<1>4. \A y \in T : ~(y < x) /\ y \in Nat /\ x \in Nat
  BY <1>2, <1>3
<1> QED
  BY <1>4

(* What is true of a subset of S whenever it is true of the smaller ones is  *)
(* true of all: a set of subsets that is not empty has a smallest member.    *)
LEMMA SmallestSubset ==
  ASSUME NEW S, IsFiniteSet(S), NEW B \in SUBSET SUBSET S, B # {}
  PROVE  \E T \in B : \A x \in T : T \ {x} \notin B
<1> DEFINE sizes == {Cardinality(T) : T \in B}
<1>1. \A T \in B : IsFiniteSet(T) /\ Cardinality(T) \in Nat
  BY FS_Subset, FS_CardinalityType
<1>2. sizes \in SUBSET Nat /\ sizes # {}
  BY <1>1
<1>3. PICK n \in sizes : \A m \in sizes : n <= m
  <2> HIDE DEF sizes
  <2> QED
    BY <1>2, LeastNumber
<1>4. PICK T \in B : Cardinality(T) = n
  OBVIOUS
<1>5. ASSUME NEW x \in T, T \ {x} \in B PROVE FALSE
  <2>1. Cardinality(T \ {x}) = Cardinality(T) - 1
    BY <1>1, FS_RemoveElement
  <2>2. Cardinality(T) <= Cardinality(T \ {x})
    BY <1>3, <1>4, <1>5
  <2> QED
    BY <1>1, <1>5, <2>1, <2>2
<1> QED
  BY <1>5

LEMMA Picked == ASSUME NEW T, T # {} PROVE Pick(T) \in T
BY DEF Pick

(* The recursion of a fold over a finite set has a solution: there is one for *)
(* the subsets of up to n elements, for every n.                              *)
LEMMA SumsExist == ASSUME NEW f, NEW S, IsFiniteSet(S) PROVE \E g : Sums(g, f, S)
<1> DEFINE next(g) ==
      [T \in SUBSET S |-> IF T = {} THEN 0 ELSE f[Pick(T)] + g[T \ {Pick(T)}]]
    upTo(n, g) == \A T \in SUBSET S : Cardinality(T) <= n => g[T] = next(g)[T]
    bad == {n \in Nat : ~ \E g : upTo(n, g)}
<1>1. \A T \in SUBSET S : IsFiniteSet(T) /\ Cardinality(T) \in Nat
  BY FS_Subset, FS_CardinalityType
<1>2. ASSUME NEW n \in Nat, NEW g, upTo(n, g)  PROVE upTo(n + 1, next(g))
  <2>1. SUFFICES ASSUME NEW T \in SUBSET S, Cardinality(T) <= n + 1
                 PROVE  next(g)[T] = next(next(g))[T]
    OBVIOUS
  <2>2. CASE T = {}
    BY <2>2
  <2>3. CASE T # {}
    <3> DEFINE R == T \ {Pick(T)}
    <3>1. Pick(T) \in T
      BY <2>3, Picked
    <3>2. R \in SUBSET S /\ Cardinality(R) <= n
      BY <1>1, <2>1, <3>1, FS_RemoveElement
    <3>3. g[R] = next(g)[R]
      BY <1>2, <3>2
    <3> HIDE DEF R
    <3>4. next(g)[T] = f[Pick(T)] + g[R] /\ next(next(g))[T] = f[Pick(T)] + next(g)[R]
      BY <2>3 DEF R
    <3> QED
      BY <3>3, <3>4
  <2> QED
    BY <2>2, <2>3
<1>3. upTo(0, [T \in SUBSET S |-> 0])
  BY <1>1, FS_EmptySet
<1>4. bad = {}
  <2>1. SUFFICES ASSUME bad # {} PROVE FALSE
    OBVIOUS
  <2>2. bad \in SUBSET Nat
    OBVIOUS
  <2>3. PICK n \in bad : \A m \in bad : n <= m
    <3> HIDE DEF bad
    <3> QED
      BY <2>1, <2>2, LeastNumber
  <2>4. n \in Nat /\ ~ \E g : upTo(n, g)
    BY <2>3
  <2> HIDE DEF upTo, next
  <2>5. n - 1 \in Nat /\ n - 1 < n
    BY <1>3, <2>4
  <2>6. PICK g : upTo(n - 1, g)
    BY <2>3, <2>5
  <2>7. upTo((n - 1) + 1, next(g))
    BY <1>2, <2>5, <2>6
  <2> QED
    BY <2>4, <2>7
<1>5. PICK g : upTo(Cardinality(S), g)
  BY <1>1, <1>4
<1>6. \A T \in SUBSET S : g[T] = next(g)[T]
  BY <1>1, <1>5, FS_Subset
<1> DEFINE h == next(g)
<1>7. ASSUME NEW T \in SUBSET S
      PROVE  h[T] = IF T = {} THEN 0 ELSE f[Pick(T)] + h[T \ {Pick(T)}]
  <2>1. CASE T = {}
    BY <2>1
  <2>2. CASE T # {}
    <3>1. T \ {Pick(T)} \in SUBSET S
      OBVIOUS
    <3>2. g[T \ {Pick(T)}] = h[T \ {Pick(T)}]
      BY <1>6, <3>1
    <3>3. h[T] = f[Pick(T)] + g[T \ {Pick(T)}]
      BY <2>2
    <3> QED
      BY <2>2, <3>2, <3>3
  <2> QED
    BY <2>1, <2>2
<1>8. h = [T \in SUBSET S |-> h[T]]
  OBVIOUS
<1>9. Sums(h, f, S)
  <2> HIDE DEF h
  <2> QED
    BY <1>7, <1>8 DEF Sums
<1> QED
  BY <1>9

(* Two folds agree where their functions do. *)
LEMMA SumsAgree ==
  ASSUME NEW f, NEW S, NEW g, Sums(g, f, S), NEW e, NEW R, NEW h, Sums(h, e, R),
         R \subseteq S, IsFiniteSet(S), \A x \in R : e[x] = f[x]
  PROVE  g[R] = h[R]
<1> DEFINE B == {T \in SUBSET R : g[T] # h[T]}
<1>1. SUFFICES ASSUME B # {} PROVE FALSE
  BY <1>1
<1>2. IsFiniteSet(R)
  BY FS_Subset
<1>3. PICK T \in B : \A x \in T : T \ {x} \notin B
  <2> HIDE DEF B
  <2>1. B \in SUBSET SUBSET R
    BY DEF B
  <2> QED
    BY <1>1, <1>2, <2>1, SmallestSubset
<1>4. CASE T = {}
  BY <1>4 DEF Sums
<1>5. CASE T # {}
  <2>1. Pick(T) \in T /\ T \in SUBSET S
    BY <1>5, Picked
  <2>2. g[T \ {Pick(T)}] = h[T \ {Pick(T)}]
    BY <1>3, <2>1
  <2>3. g[T] = f[Pick(T)] + g[T \ {Pick(T)}]
    BY <1>5, <2>1 DEF Sums
  <2>4. h[T] = e[Pick(T)] + h[T \ {Pick(T)}]
    BY <1>5 DEF Sums
  <2>5. e[Pick(T)] = f[Pick(T)]
    BY <2>1
  <2> QED
    BY <2>2, <2>3, <2>4, <2>5
<1> QED
  BY <1>4, <1>5

LEMMA SumsType ==
  ASSUME NEW f, NEW S, IsFiniteSet(S), \A x \in S : f[x] \in Int,
         NEW g, Sums(g, f, S)
  PROVE  \A T \in SUBSET S : g[T] \in Int
<1> DEFINE B == {T \in SUBSET S : g[T] \notin Int}
<1>1. SUFFICES ASSUME B # {} PROVE FALSE
  OBVIOUS
<1>2. PICK T \in B : \A x \in T : T \ {x} \notin B
  <2> HIDE DEF B
  <2>1. B \in SUBSET SUBSET S
    BY DEF B
  <2> QED
    BY <1>1, <2>1, SmallestSubset
<1>3. CASE T = {}
  BY <1>3 DEF Sums
<1>4. CASE T # {}
  <2>1. Pick(T) \in T
    BY <1>4, Picked
  <2>2. g[T \ {Pick(T)}] \in Int /\ f[Pick(T)] \in Int
    BY <1>2, <2>1
  <2>3. g[T] = f[Pick(T)] + g[T \ {Pick(T)}]
    BY <1>4 DEF Sums
  <2> QED
    BY <1>2, <2>2, <2>3
<1> QED
  BY <1>3, <1>4

(* The order in which a fold takes the elements does not matter. *)
LEMMA SumsRemove ==
  ASSUME NEW f, NEW S, IsFiniteSet(S), \A x \in S : f[x] \in Int,
         NEW g, Sums(g, f, S)
  PROVE  \A T \in SUBSET S : \A x \in T : g[T] = f[x] + g[T \ {x}]
<1> DEFINE B == {T \in SUBSET S : \E x \in T : g[T] # f[x] + g[T \ {x}]}
<1>1. SUFFICES ASSUME B # {} PROVE FALSE
  OBVIOUS
<1>2. PICK T \in B : \A x \in T : T \ {x} \notin B
  <2> HIDE DEF B
  <2>1. B \in SUBSET SUBSET S
    BY DEF B
  <2> QED
    BY <1>1, <2>1, SmallestSubset
<1>3. PICK x \in T : g[T] # f[x] + g[T \ {x}]
  BY <1>2
<1> DEFINE y == Pick(T)
<1>4. y \in T
  BY <1>3, Picked
<1>5. g[T] = f[y] + g[T \ {y}]
  BY <1>3 DEF Sums
<1>6. x # y
  BY <1>3, <1>5
<1> HIDE DEF y
<1>7. g[T \ {y}] = f[x] + g[(T \ {y}) \ {x}]
  BY <1>2, <1>3, <1>4, <1>6
<1>8. g[T \ {x}] = f[y] + g[(T \ {x}) \ {y}]
  BY <1>2, <1>3, <1>4, <1>6
<1>9. (T \ {x}) \ {y} = (T \ {y}) \ {x}
  OBVIOUS
<1>10. f[x] \in Int /\ f[y] \in Int /\ g[(T \ {y}) \ {x}] \in Int
  BY <1>2, <1>3, <1>4, SumsType
<1> DEFINE z == g[(T \ {y}) \ {x}]
<1>11. g[T \ {x}] = f[y] + z
  BY <1>8, <1>9
<1>12. g[T] = f[y] + (f[x] + z)
  BY <1>5, <1>7
<1> HIDE DEF B, z
<1>13. f[y] + (f[x] + z) = f[x] + (f[y] + z)
  BY <1>10 DEF z
<1> QED
  BY <1>3, <1>11, <1>12, <1>13
-----------------------------------------------------------------------------
(* The sum over a finite set. *)

LEMMA SumOf ==
  ASSUME NEW f, NEW S, IsFiniteSet(S)
  PROVE  \E g : Sums(g, f, S) /\ SumFunctionOnSet(f, S) = g[S]
<1>1. \E g : Sums(g, f, S)
  BY SumsExist
<1> QED
  BY <1>1 DEF SumFunctionOnSet, FoldFunctionOnSet, MapThenFoldSet, Sums, Pick

LEMMA SumEmpty == ASSUME NEW f PROVE SumFunctionOnSet(f, {}) = 0
<1>1. PICK g : Sums(g, f, {}) /\ SumFunctionOnSet(f, {}) = g[{}]
  BY SumOf, FS_EmptySet
<1> QED
  BY <1>1 DEF Sums

LEMMA SumType ==
  ASSUME NEW f, NEW S, IsFiniteSet(S), \A x \in S : f[x] \in Int
  PROVE  SumFunctionOnSet(f, S) \in Int
<1>1. PICK g : Sums(g, f, S) /\ SumFunctionOnSet(f, S) = g[S]
  BY SumOf
<1> QED
  BY <1>1, SumsType

LEMMA SumSame ==
  ASSUME NEW f, NEW e, NEW S, IsFiniteSet(S), \A x \in S : e[x] = f[x]
  PROVE  SumFunctionOnSet(e, S) = SumFunctionOnSet(f, S)
<1>1. PICK g : Sums(g, f, S) /\ SumFunctionOnSet(f, S) = g[S]
  BY SumOf
<1>2. PICK h : Sums(h, e, S) /\ SumFunctionOnSet(e, S) = h[S]
  BY SumOf
<1> QED
  BY <1>1, <1>2, SumsAgree

LEMMA SumRemove ==
  ASSUME NEW f, NEW S, IsFiniteSet(S), \A x \in S : f[x] \in Int, NEW x \in S
  PROVE  SumFunctionOnSet(f, S) = f[x] + SumFunctionOnSet(f, S \ {x})
<1>1. PICK g : Sums(g, f, S) /\ SumFunctionOnSet(f, S) = g[S]
  BY SumOf
<1>2. IsFiniteSet(S \ {x})
  BY FS_RemoveElement
<1>3. PICK h : Sums(h, f, S \ {x}) /\ SumFunctionOnSet(f, S \ {x}) = h[S \ {x}]
  BY <1>2, SumOf
<1>4. g[S \ {x}] = h[S \ {x}]
  BY <1>1, <1>3, SumsAgree
<1>5. g[S] = f[x] + g[S \ {x}]
  BY <1>1, SumsRemove
<1> QED
  BY <1>1, <1>3, <1>4, <1>5

-----------------------------------------------------------------------------
(* What the store counts. *)

Writers == {"check", "store", "account"}

StoreTyped == InstancePart /\ StoreTypeOK

LEMMA StoreTypes ==
  ASSUME StoreTyped
  PROVE  /\ call \in [Calls -> CallTypes] /\ stage \in [Instances -> Stages]
         /\ table \in [Keys -> Nat] /\ current \in [Instances -> Int]
         /\ crossed \subseteq Instances /\ raced \in BOOLEAN
         /\ \A c \in Calls : call[c].num \in Nat /\ call[c].old \in Nat
         /\ MaxSize \in Nat /\ IsFiniteSet(Keys) /\ IsFiniteSet(Calls)
BY StoreAssumption DEF StoreTyped, InstancePart, InstancesTypeOK, StoreTypeOK, CallTypes

(* The size in use. *)
LEMMA UsedIs ==
  ASSUME table \in [Keys -> Nat]
  PROVE  Used = SumFunctionOnSet(table, Keys) /\ Used \in Int
<1>1. Used = SumFunctionOnSet(table, Keys)
  BY DEF Used, SumFunction
<1>2. IsFiniteSet(Keys) /\ \A k \in Keys : table[k] \in Int
  BY StoreAssumption
<1> QED
  BY <1>1, <1>2, SumType

(* A write changes it by the difference of the sizes. *)
LEMMA UsedChange ==
  ASSUME table \in [Keys -> Nat], NEW k \in Keys, NEW n \in Nat,
         table' = [table EXCEPT ![k] = n]
  PROVE  Used' = Used - table[k] + n
<1>1. table' \in [Keys -> Nat] /\ table'[k] = n
  OBVIOUS
<1>2. Used' = SumFunctionOnSet(table', Keys)
  BY <1>1 DEF Used, SumFunction
<1>3. IsFiniteSet(Keys) /\ IsFiniteSet(Keys \ {k})
  BY StoreAssumption, FS_RemoveElement
<1>4. \A y \in Keys : table[y] \in Int /\ table'[y] \in Int
  BY <1>1
<1>5. SumFunctionOnSet(table', Keys \ {k}) = SumFunctionOnSet(table, Keys \ {k})
  <2>1. \A y \in Keys \ {k} : table'[y] = table[y]
    OBVIOUS
  <2> QED
    BY <1>3, <2>1, SumSame
<1>6. SumFunctionOnSet(table, Keys \ {k}) \in Int
  BY <1>3, <1>4, SumType
<1>7. SumFunctionOnSet(table, Keys) = table[k] + SumFunctionOnSet(table, Keys \ {k})
  BY <1>3, <1>4, SumRemove
<1>8. SumFunctionOnSet(table', Keys) = table'[k] + SumFunctionOnSet(table', Keys \ {k})
  BY <1>3, <1>4, SumRemove
<1> QED
  BY <1>1, <1>2, <1>4, <1>5, <1>6, <1>7, <1>8, UsedIs

(* What is still to count, by the writes of the instance. *)
LEMMA PendingType ==
  ASSUME StoreTyped, NEW i
  PROVE  /\ Pending(i) \in Int /\ IsFiniteSet(Accounting(i)) /\ Accounting(i) \subseteq Calls
         /\ \A c \in Calls : Owed[c] = call[c].num - call[c].old /\ Owed[c] \in Int
<1>1. Accounting(i) \in SUBSET Calls /\ IsFiniteSet(Calls)
  BY StoreTypes DEF Accounting
<1>2. IsFiniteSet(Accounting(i))
  BY <1>1, FS_Subset
<1>3. \A c \in Calls : Owed[c] = call[c].num - call[c].old /\ Owed[c] \in Int
  BY StoreTypes DEF Owed
<1> QED
  BY <1>1, <1>2, <1>3, SumType DEF Pending

LEMMA PendingStands ==
  ASSUME StoreTyped, NEW i, \A c \in Calls :
           \/ call'[c] = call[c]
           \/ c \notin Accounting(i) /\ (call'[c].pc = "account" => call'[c].inst # i)
  PROVE  Pending(i)' = Pending(i)
<1>1. Accounting(i)' = Accounting(i)
  BY DEF Accounting
<1>2. \A c \in Accounting(i) : Owed'[c] = Owed[c]
  BY DEF Accounting, Owed
<1>3. SumFunctionOnSet(Owed', Accounting(i)) = SumFunctionOnSet(Owed, Accounting(i))
  BY <1>2, PendingType, SumSame
<1> QED
  BY <1>1, <1>3 DEF Pending

LEMMA PendingGrows ==
  ASSUME StoreTyped, NEW i, NEW c \in Calls, c \notin Accounting(i), c \in Accounting(i)',
         Owed'[c] \in Int, \A d \in Calls \ {c} : call'[d] = call[d]
  PROVE  Pending(i)' = Pending(i) + Owed'[c]
<1>1. Accounting(i)' = Accounting(i) \cup {c}
  BY DEF Accounting
<1>2. \A d \in Accounting(i) : Owed'[d] = Owed[d]
  BY DEF Accounting, Owed
<1>3. SumFunctionOnSet(Owed', Accounting(i)) = SumFunctionOnSet(Owed, Accounting(i))
  BY <1>2, PendingType, SumSame
<1>4. /\ IsFiniteSet(Accounting(i) \cup {c})
      /\ \A d \in Accounting(i) \cup {c} : Owed'[d] \in Int
      /\ (Accounting(i) \cup {c}) \ {c} = Accounting(i)
  <2>1. IsFiniteSet(Accounting(i) \cup {c})
    BY PendingType, FS_AddElement
  <2> QED
    BY <1>2, <2>1, PendingType
<1>5. SumFunctionOnSet(Owed', Accounting(i) \cup {c})
        = Owed'[c] + SumFunctionOnSet(Owed', Accounting(i))
  <2> DEFINE S == Accounting(i) \cup {c}
  <2>1. SumFunctionOnSet(Owed', S) = Owed'[c] + SumFunctionOnSet(Owed', S \ {c})
    BY <1>4, SumRemove
  <2> QED
    BY <1>4, <2>1
<1> QED
  BY <1>1, <1>3, <1>5, PendingType DEF Pending

LEMMA PendingShrinks ==
  ASSUME StoreTyped, NEW i, NEW c \in Calls, c \in Accounting(i), c \notin Accounting(i)',
         \A d \in Calls \ {c} : call'[d] = call[d]
  PROVE  Pending(i)' = Pending(i) - Owed[c]
<1>1. Accounting(i)' = Accounting(i) \ {c}
  BY DEF Accounting
<1>2. \A d \in Accounting(i) \ {c} : Owed'[d] = Owed[d]
  BY DEF Accounting, Owed
<1>3. IsFiniteSet(Accounting(i) \ {c}) /\ \A d \in Accounting(i) \ {c} : Owed[d] \in Int
  BY PendingType, FS_RemoveElement
<1>4. SumFunctionOnSet(Owed', Accounting(i) \ {c}) = SumFunctionOnSet(Owed, Accounting(i) \ {c})
  BY <1>2, <1>3, SumSame
<1>5. SumFunctionOnSet(Owed, Accounting(i)) = Owed[c] + SumFunctionOnSet(Owed, Accounting(i) \ {c})
  BY PendingType, SumRemove
<1>6. SumFunctionOnSet(Owed, Accounting(i) \ {c}) \in Int
  BY <1>3, SumType
<1> QED
  BY <1>1, <1>4, <1>5, <1>6, PendingType DEF Pending

LEMMA PendingNone ==
  ASSUME NEW i, \A c \in Calls : call[c].pc = "account" => call[c].inst # i
  PROVE  Pending(i) = 0
<1>1. Accounting(i) = {}
  BY DEF Accounting
<1> QED
  BY <1>1, SumEmpty DEF Pending

(* What the rest of the system may do while the store stands: calls of other *)
(* services, unloading.                                                      *)
StoreFrame ==
  /\ UNCHANGED <<table, crossed>> /\ (raced => raced')
  /\ \A c \in Calls :
       call'[c] = call[c] \/ (call[c].pc \notin Writers /\ call'[c].pc \notin Writers)

LEMMA StoreStands ==
  ASSUME StoreTyped, StoreInvariant, StoreFrame, UNCHANGED current,
         \A i \in Instances : stage[i] # "new" => stage'[i] # "new",
         \A i \in Instances : Open(i)' => Open(i)
  PROVE  StoreInvariant'
<1>1. \A c \in Calls : call'[c].pc \in Writers => call'[c] = call[c]
  BY DEF StoreFrame
<1>2. WritesPlaced'
  BY <1>1 DEF StoreInvariant, WritesPlaced, Writers
<1>3. \A c \in Calls : call[c].pc \in Writers => call[c].inst \in Instances
  BY DEF StoreInvariant, WritesPlaced, Writers
<1>4. table' = table /\ crossed' = crossed /\ Used' = Used /\ (raced => raced')
  BY DEF StoreFrame, Used
<1>5. WritersCrossed'
  BY <1>1, <1>4 DEF StoreInvariant, WritersCrossed, Writing, Writers
<1>6. OldRead'
  <2>1. ASSUME NEW c \in Calls, call'[c].pc \in {"check", "store"},
               Open(call[c].inst)', call'[c].inst \notin crossed, call'[c] = call[c]
        PROVE  call'[c].old = table[call'[c].name]
    BY <1>3, <2>1 DEF StoreInvariant, OldRead, Writers
  <2> QED
    BY <1>1, <1>4, <2>1 DEF OldRead, Writers, Open
<1>7. OneAdds'
  BY <1>1, <1>4 DEF StoreInvariant, OneAdds, Writers
<1>8. RoomLeft'
  <2>1. ASSUME ~raced', crossed' = {}, NEW c \in Calls, call'[c].pc = "store",
               Open(call[c].inst)', call'[c] = call[c]
        PROVE  Used + call'[c].num - call'[c].old <= MaxSize
    BY <1>3, <1>4, <2>1 DEF StoreInvariant, RoomLeft, Writers
  <2> QED
    BY <1>1, <1>4, <2>1 DEF RoomLeft, Writers, Open
<1>9. \A i \in Instances : Pending(i)' = Pending(i)
  <2>1. ASSUME NEW i \in Instances, NEW c \in Calls
        PROVE  \/ call'[c] = call[c]
               \/ c \notin Accounting(i) /\ (call'[c].pc = "account" => call'[c].inst # i)
    BY DEF StoreFrame, Accounting, Writers
  <2> QED
    BY <2>1, PendingStands
<1>10. StorageAccounted'
  BY <1>4, <1>9 DEF StoreInvariant, StorageAccounted
<1> QED
  BY <1>2, <1>5, <1>6, <1>7, <1>8, <1>10 DEF StoreInvariant

-----------------------------------------------------------------------------
(* The steps of a write. *)

(* A call of Set or Delete reads the size of the row: a writer it meets on    *)
(* the same key is noticed.                                                   *)
LEMMA ReadKeepsStore ==
  ASSUME StoreTyped, StoreInvariant, NEW c \in Calls, NEW i \in Instances, NEW k \in Keys,
         NEW size \in Nat, NEW pc \in {"check", "store"}, pc = "store" => size = 0,
         Read(c, i, k, pc, size)
  PROVE  StoreInvariant' /\ crossed' \subseteq Instances
<1> DEFINE r == [pc |-> pc, inst |-> i, name |-> k, num |-> size, old |-> table[k]]
           others == {d \in Calls : Writing(d, k)}
<1>1. /\ call[c].pc = "idle" /\ call' = [call EXCEPT ![c] = r]
      /\ crossed' = IF others = {} THEN crossed
                    ELSE crossed \cup {i} \cup {call[d].inst : d \in others}
      /\ UNCHANGED <<granted, stage, table, current, raced>>
      /\ stage[i] # "new"
  BY DEF Read, Enter, May, Running
<1>2. call'[c] = r /\ \A d \in Calls \ {c} : call'[d] = call[d]
  BY <1>1, StoreTypes
<1>3. r.pc = pc /\ r.inst = i /\ r.name = k /\ r.num = size /\ r.old = table[k]
  OBVIOUS
<1> HIDE DEF r
<1>4. /\ call'[c].pc = pc /\ call'[c].inst = i /\ call'[c].name = k
      /\ call'[c].num = size /\ call'[c].old = table[k]
  BY <1>2, <1>3
<1>5. crossed \subseteq crossed' /\ \A d \in others : {i, call[d].inst} \subseteq crossed'
  BY <1>1
<1>6. \A d \in others : d # c /\ d \in Calls /\ call[d].name = k /\ call[d].inst \in Instances
  BY <1>1 DEF Writing, StoreInvariant, WritesPlaced
<1>7. crossed' \subseteq Instances
  BY <1>1, <1>6, StoreTypes
<1>8. WritesPlaced'
  BY <1>1, <1>2, <1>4 DEF StoreInvariant, WritesPlaced
<1>9. WritersCrossed'
  <2> SUFFICES ASSUME NEW d \in Calls, NEW e \in Calls, d # e,
                      Writing(d, call[d].name)', Writing(e, call[d].name)'
               PROVE  call'[d].inst \in crossed'
    BY DEF WritersCrossed
  <2>1. CASE d = c
    <3>1. e \in others
      BY <1>2, <1>4, <2>1 DEF Writing
    <3> QED
      BY <1>4, <1>5, <2>1, <3>1
  <2>2. CASE e = c
    <3>1. d \in others /\ call'[d] = call[d]
      BY <1>2, <1>4, <2>2 DEF Writing
    <3> QED
      BY <1>5, <3>1
  <2>3. CASE d # c /\ e # c
    <3>1. call'[d] = call[d] /\ call'[e] = call[e]
      BY <1>2, <2>3
    <3> QED
      BY <1>5, <3>1 DEF StoreInvariant, WritersCrossed, Writing
  <2> QED
    BY <2>1, <2>2, <2>3
<1>10. OldRead'
  <2> SUFFICES ASSUME NEW d \in Calls, call'[d].pc \in {"check", "store"},
                      Open(call[d].inst)', call'[d].inst \notin crossed'
               PROVE  call'[d].old = table[call'[d].name]
    BY <1>1 DEF OldRead
  <2>1. CASE d = c
    BY <1>4, <2>1
  <2>2. CASE d # c
    <3>1. call'[d] = call[d] /\ Open(call[d].inst) /\ call[d].inst \notin crossed
      BY <1>1, <1>2, <1>5, <2>2 DEF Open
    <3> QED
      BY <3>1 DEF StoreInvariant, OldRead
  <2> QED
    BY <2>1, <2>2
<1>11. OneAdds'
  <2>1. ASSUME NEW d \in Calls, call'[d].pc = "store", call'[d].num # 0
        PROVE  d # c /\ call'[d] = call[d]
    BY <1>2, <1>4, <2>1
  <2> QED
    BY <1>1, <2>1 DEF StoreInvariant, OneAdds
<1>12. crossed' = {} => crossed = {}
  BY <1>5
<1>13. Used' = Used /\ Used \in Int
  BY <1>1, StoreTypes, UsedIs DEF Used
<1>14. RoomLeft'
  <2> SUFFICES ASSUME ~raced, crossed = {}, NEW d \in Calls, call'[d].pc = "store",
                      Open(call[d].inst)'
               PROVE  Used + call'[d].num - call'[d].old <= MaxSize
    BY <1>1, <1>12, <1>13 DEF RoomLeft
  <2>1. CASE d = c
    <3>1. Used <= MaxSize
      BY DEF StoreInvariant, StorageAccounted
    <3>2. size = 0 /\ table[k] \in Nat
      BY <1>4, <2>1, StoreTypes
    <3> QED
      BY <1>4, <1>13, <2>1, <3>1, <3>2, StoreTypes
  <2>2. CASE d # c
    <3>1. call'[d] = call[d] /\ Open(call[d].inst)
      BY <1>1, <1>2, <2>2 DEF Open
    <3> QED
      BY <3>1 DEF StoreInvariant, RoomLeft
  <2> QED
    BY <2>1, <2>2
<1>15. \A j \in Instances : Pending(j)' = Pending(j)
  <2>1. ASSUME NEW j \in Instances, NEW d \in Calls
        PROVE  \/ call'[d] = call[d]
               \/ d \notin Accounting(j) /\ (call'[d].pc = "account" => call'[d].inst # j)
    BY <1>1, <1>2, <1>4 DEF Accounting
  <2> QED
    BY <2>1, PendingStands
<1>16. StorageAccounted'
  <2>1. \A j \in Instances : Open(j)' = Open(j)
    BY <1>1 DEF Open
  <2> QED
    BY <1>1, <1>5, <1>12, <1>13, <1>15, <2>1 DEF StoreInvariant, StorageAccounted
<1> QED
  BY <1>7, <1>8, <1>9, <1>10, <1>11, <1>14, <1>16 DEF StoreInvariant

(* A write that is given up before it is made. *)
LEMMA GivenUpKeepsStore ==
  ASSUME StoreTyped, StoreInvariant, NEW c \in Calls, call[c].pc \in {"check", "store"},
         Leave(c), UNCHANGED <<stage, table, current, crossed>>, raced => raced'
  PROVE  StoreInvariant'
<1>1. call'[c].pc = "idle" /\ \A d \in Calls \ {c} : call'[d] = call[d]
  BY StoreTypes DEF Leave, Idle
<1>2. \A d \in Calls : call'[d].pc \in Writers => call'[d] = call[d]
  BY <1>1 DEF Writers
<1>3. Used' = Used
  BY DEF Used
<1>4. \A j \in Instances : Pending(j)' = Pending(j)
  <2>1. ASSUME NEW j \in Instances, NEW d \in Calls
        PROVE  \/ call'[d] = call[d]
               \/ d \notin Accounting(j) /\ (call'[d].pc = "account" => call'[d].inst # j)
    BY <1>1 DEF Accounting
  <2> QED
    BY <2>1, PendingStands
<1>5. WritesPlaced' /\ OneAdds' /\ WritersCrossed'
  BY <1>2 DEF StoreInvariant, WritesPlaced, OneAdds, WritersCrossed, Writing, Writers
<1>6. OldRead' /\ RoomLeft' /\ StorageAccounted'
  BY <1>2, <1>3, <1>4
  DEF StoreInvariant, OldRead, RoomLeft, StorageAccounted, Writers, Open
<1> QED
  BY <1>5, <1>6 DEF StoreInvariant

(* A write passes the check: when no other is between its check and its      *)
(* accounting, the count it is checked against is the size in use.           *)
LEMMA PassedKeepsStore ==
  ASSUME StoreTyped, StoreInvariant, NEW c \in Calls, Check(c), Total(c) <= MaxSize,
         GoOn(c, "store")
  PROVE  StoreInvariant'
<1> DEFINE i == call[c].inst
<1>1. /\ call[c].pc = "check" /\ UNCHANGED <<stage, table, current, crossed>>
      /\ raced' = (raced \/ \E d \in Calls \ {c} : call[d].pc \in {"store", "account"})
  BY DEF Check
<1>2. \A d \in Calls \ {c} : call'[d] = call[d]
  BY StoreTypes DEF GoOn
<1>3. /\ call'[c].pc = "store" /\ call'[c].inst = i /\ call'[c].name = call[c].name
      /\ call'[c].num = call[c].num /\ call'[c].old = call[c].old
  BY StoreTypes DEF GoOn, CallTypes
<1>4. \A d \in Calls : /\ call'[d].inst = call[d].inst /\ call'[d].name = call[d].name
                       /\ call'[d].num = call[d].num /\ call'[d].old = call[d].old
  BY <1>2, <1>3
<1>5. Used' = Used /\ Used \in Int
  BY <1>1, StoreTypes, UsedIs DEF Used
<1>6. \A j \in Instances : Pending(j)' = Pending(j)
  <2>1. ASSUME NEW j \in Instances, NEW d \in Calls
        PROVE  \/ call'[d] = call[d]
               \/ d \notin Accounting(j) /\ (call'[d].pc = "account" => call'[d].inst # j)
    BY <1>1, <1>2, <1>3 DEF Accounting
  <2> QED
    BY <2>1, PendingStands
<1>7. WritesPlaced'
  BY <1>1, <1>2, <1>3 DEF StoreInvariant, WritesPlaced
<1>8. \A d \in Calls : call'[d].pc \in {"check", "store"} => call[d].pc \in {"check", "store"}
  BY <1>1, <1>2
<1>9. WritersCrossed'
  BY <1>1, <1>4, <1>8 DEF StoreInvariant, WritersCrossed, Writing
<1>10. OldRead'
  BY <1>1, <1>4, <1>8 DEF StoreInvariant, OldRead, Open
<1>11. ASSUME ~raced'
       PROVE  ~raced /\ \A d \in Calls : d # c => call[d].pc \notin {"store", "account"}
  BY <1>1, <1>11
<1>12. \A d \in Calls : ~raced' /\ call'[d].pc = "store" => d = c
  BY <1>2, <1>11
<1>13. OneAdds'
  BY <1>12 DEF OneAdds
<1>14. RoomLeft'
  <2> SUFFICES ASSUME ~raced', crossed = {}, Open(i)
               PROVE  Used + call[c].num - call[c].old <= MaxSize
    BY <1>1, <1>3, <1>5, <1>12 DEF RoomLeft, Open
  <2>1. i \in Instances
    BY <1>1 DEF StoreInvariant, WritesPlaced
  <2>2. Pending(i) = 0
    BY <1>1, <1>11, PendingNone
  <2>3. current[i] + Pending(i) = Used /\ current[i] \in Int
    BY <2>1, StoreTypes DEF StoreInvariant, StorageAccounted
  <2> QED
    BY <2>2, <2>3 DEF Total
<1>15. StorageAccounted'
  <2>1. \A j \in Instances : Open(j)' = Open(j)
    BY <1>1 DEF Open
  <2> QED
    BY <1>1, <1>5, <1>6, <1>11, <2>1 DEF StoreInvariant, StorageAccounted
<1> QED
  BY <1>7, <1>9, <1>10, <1>13, <1>14, <1>15 DEF StoreInvariant

(* The row is written: an open instance that nobody crossed is the only one   *)
(* that is open, and the size it read is that of the row.                     *)
LEMMA StoreKeepsStore ==
  ASSUME StoreTyped, StoreInvariant, NEW c \in Calls, Store(c)
  PROVE  StoreInvariant' /\ crossed' \subseteq Instances
<1>0. PICK i \in Instances, k \in Keys, n \in Nat, o \in Nat :
         i = call[c].inst /\ k = call[c].name /\ n = call[c].num /\ o = call[c].old
  <2>1. call[c].inst \in Instances /\ call[c].name \in Keys
    BY DEF StoreInvariant, WritesPlaced, Store
  <2> QED
    BY <2>1, StoreTypes
<1>1. /\ call[c].pc = "store" /\ Open(i) /\ UNCHANGED <<stage, current, raced>>
      /\ table' = [table EXCEPT ![k] = n]
      /\ crossed' = crossed \cup {j \in Instances \ {i} : Open(j)}
      /\ GoOn(c, "account")
  BY <1>0 DEF Store
<1>2. \A d \in Calls \ {c} : call'[d] = call[d]
  BY <1>0, <1>1, StoreTypes DEF GoOn
<1>3. /\ call'[c].pc = "account" /\ call'[c].inst = i /\ call'[c].name = k
      /\ call'[c].num = n /\ call'[c].old = o
  BY <1>0, <1>1, StoreTypes DEF GoOn, CallTypes
<1>5. crossed \subseteq crossed' /\ crossed' \subseteq Instances
  BY <1>0, <1>1, StoreTypes
<1>6. Used' = Used - table[k] + n /\ Used \in Int /\ table[k] \in Nat
  BY <1>0, <1>1, StoreTypes, UsedIs, UsedChange
<1>7. i \notin crossed => table[k] = o
  BY <1>0, <1>1 DEF StoreInvariant, OldRead
<1>8. WritesPlaced'
  BY <1>1, <1>2, <1>3, <1>0 DEF StoreInvariant, WritesPlaced
<1>9. \A d \in Calls : call'[d].pc \in {"check", "store"} => d # c /\ call'[d] = call[d]
  BY <1>0, <1>2, <1>3
<1>10. WritersCrossed'
  BY <1>0, <1>5, <1>9 DEF StoreInvariant, WritersCrossed, Writing
<1>11. OldRead'
  <2> SUFFICES ASSUME NEW d \in Calls, call[d].pc \in {"check", "store"}, d # c,
                      Open(call[d].inst), call[d].inst \notin crossed
               PROVE  call[d].old = table'[call[d].name]
    BY <1>0, <1>1, <1>5, <1>9 DEF OldRead, Open
  <2>1. call[d].old = table[call[d].name]
    BY DEF StoreInvariant, OldRead
  <2>2. call[d].name # k
    BY <1>0, <1>1 DEF StoreInvariant, WritersCrossed, Writing
  <2> QED
    BY <1>0, <1>1, <2>1, <2>2, StoreTypes, <1>8, <1>9 DEF StoreInvariant, WritesPlaced
<1>12. OneAdds'
  BY <1>0, <1>1, <1>9 DEF StoreInvariant, OneAdds
<1>13. ASSUME ~raced, crossed' = {}
       PROVE  Used' = Used + n - o /\ Used + n - o <= MaxSize /\ Used <= MaxSize /\ crossed = {}
  <2>1. crossed = {}
    BY <1>0, <1>5, <1>13
  <2>2. Used + n - o <= MaxSize
    BY <1>0, <1>1, <1>13, <2>1 DEF StoreInvariant, RoomLeft
  <2>3. Used <= MaxSize
    BY <1>0, <1>13, <2>1 DEF StoreInvariant, StorageAccounted
  <2> QED
    BY <1>0, <1>6, <1>7, <2>1, <2>2, <2>3
<1>14. RoomLeft'
  <2> SUFFICES ASSUME ~raced, crossed' = {}, NEW d \in Calls, call[d].pc = "store", d # c,
                      Open(call[d].inst)
               PROVE  Used' + call[d].num - call[d].old <= MaxSize
    BY <1>0, <1>1, <1>9 DEF RoomLeft, Open
  <2>1. call[d].num \in Nat /\ call[d].old \in Nat /\ MaxSize \in Nat
    BY StoreTypes
  <2>2. CASE call[d].num = 0
    BY <1>0, <1>6, <1>13, <2>1, <2>2
  <2>3. CASE call[d].num # 0
    <3>1. n = 0
      BY <1>0, <1>1, <2>3 DEF StoreInvariant, OneAdds
    <3>2. Used + call[d].num - call[d].old <= MaxSize
      BY <1>0, <1>13 DEF StoreInvariant, RoomLeft
    <3> QED
      BY <1>0, <1>6, <1>13, <2>1, <3>1, <3>2
  <2> QED
    BY <2>2, <2>3
<1>15. Owed'[c] = n - o
  BY <1>0, <1>3 DEF Owed
<1>16. i \notin crossed => current[i] + Pending(i)' = Used'
  <2>1. Pending(i)' = Pending(i) + (n - o)
    <3>1. c \notin Accounting(i) /\ c \in Accounting(i)'
      BY <1>0, <1>1, <1>3 DEF Accounting
    <3> QED
      BY <1>2, <1>0, <1>15, <3>1, PendingGrows
  <2>2. Pending(i) \in Int /\ current[i] \in Int
    BY <1>0, PendingType, StoreTypes
  <2>3. i \notin crossed => current[i] + Pending(i) = Used
    BY <1>1, <1>0 DEF StoreInvariant, StorageAccounted
  <2> QED
    BY <1>0, <1>6, <1>7, <2>1, <2>2, <2>3
<1>17. StorageAccounted'
  <2>1. \A j \in Instances : Open(j)' = Open(j)
    BY <1>0, <1>1 DEF Open
  <2>2. \A j \in Instances : Open(j) /\ j \notin crossed' => j = i /\ i \notin crossed
    BY <1>0, <1>1
  <2>3. ~raced /\ crossed' = {} => Used' <= MaxSize
    BY <1>0, <1>13
  <2> QED
    BY <1>0, <1>1, <1>16, <2>1, <2>2, <2>3 DEF StorageAccounted
<1> QED
  BY <1>0, <1>5, <1>8, <1>10, <1>11, <1>12, <1>14, <1>17 DEF StoreInvariant

(* The count follows the row. *)
LEMMA AccountKeepsStore ==
  ASSUME StoreTyped, StoreInvariant, NEW c \in Calls, Account(c)
  PROVE  StoreInvariant' /\ current' \in [Instances -> Int]
<1>0. PICK i \in Instances : i = call[c].inst
  BY DEF StoreInvariant, WritesPlaced, Account
<1>1. /\ call[c].pc = "account" /\ current' = [current EXCEPT ![i] = Total(c)]
      /\ Leave(c) /\ UNCHANGED <<stage, table, crossed, raced>>
  BY <1>0 DEF Account
<1>2. call'[c].pc = "idle" /\ \A d \in Calls \ {c} : call'[d] = call[d]
  BY <1>1, StoreTypes DEF Leave, Idle
<1>3. \A d \in Calls : call'[d].pc \in Writers => call'[d] = call[d]
  BY <1>2 DEF Writers
<1>4. Used' = Used
  BY <1>1 DEF Used
<1>5. i \in Instances /\ current[i] \in Int /\ Total(c) = current[i] + Owed[c] /\ Owed[c] \in Int
  BY <1>0, StoreTypes, PendingType DEF Total
<1>6. current'[i] + Pending(i)' = current[i] + Pending(i)
  <2>1. Pending(i)' = Pending(i) - Owed[c]
    <3>1. c \in Accounting(i) /\ c \notin Accounting(i)'
      BY <1>0, <1>1, <1>2 DEF Accounting
    <3> QED
      BY <1>2, <3>1, PendingShrinks
  <2>2. current'[i] = current[i] + Owed[c] /\ Pending(i) \in Int
    BY <1>1, <1>5, StoreTypes, PendingType
  <2> QED
    BY <1>5, <2>1, <2>2
<1>7. ASSUME NEW j \in Instances, j # i
      PROVE  current'[j] = current[j] /\ Pending(j)' = Pending(j)
  <2>1. ASSUME NEW d \in Calls
        PROVE  \/ call'[d] = call[d]
               \/ d \notin Accounting(j) /\ (call'[d].pc = "account" => call'[d].inst # j)
    BY <1>0, <1>1, <1>2, <1>7 DEF Accounting
  <2> QED
    BY <1>1, <1>7, <2>1, PendingStands, StoreTypes
<1>8. current' \in [Instances -> Int]
  BY <1>1, <1>5, StoreTypes
<1>9. WritesPlaced' /\ OneAdds' /\ WritersCrossed'
  BY <1>1, <1>3 DEF StoreInvariant, WritesPlaced, OneAdds, WritersCrossed, Writing, Writers
<1>10. OldRead' /\ RoomLeft'
  BY <1>1, <1>3, <1>4 DEF StoreInvariant, OldRead, RoomLeft, Writers, Open
<1>11. StorageAccounted'
  <2>1. \A j \in Instances : Open(j)' = Open(j)
    BY <1>1 DEF Open
  <2>2. \A j \in Instances : current'[j] + Pending(j)' = current[j] + Pending(j)
    BY <1>6, <1>7
  <2> QED
    BY <1>1, <1>4, <2>1, <2>2 DEF StoreInvariant, StorageAccounted
<1> QED
  BY <1>8, <1>9, <1>10, <1>11 DEF StoreInvariant

-----------------------------------------------------------------------------
(* The store in the system. *)

(* A new instance counts what is there; it has no writes.                     *)
LEMMA LoadKeepsStore ==
  ASSUME StoreTyped, StoreInvariant, NEW i \in Instances, Load(i)
  PROVE  StoreInvariant' /\ current' \in [Instances -> Int]
<1>1. /\ stage[i] = "new" /\ stage' = [stage EXCEPT ![i] = "loaded"]
      /\ current' = [current EXCEPT ![i] = Used]
      /\ UNCHANGED <<granted, call, table, crossed, raced, writes>>
  BY DEF Load, LoadInstance, Move, OpenStore
<1>2. Used' = Used /\ Used \in Int
  BY <1>1, StoreTypes, UsedIs DEF Used
<1>3. \A c \in Calls : call[c].pc \in Writers => call[c].inst \in Instances /\ call[c].inst # i
  BY <1>1 DEF StoreInvariant, WritesPlaced, Writers
<1>4. \A j \in Instances \ {i} : /\ stage'[j] = stage[j] /\ (Open(j)' = Open(j))
                                 /\ current'[j] = current[j]
  BY <1>1, StoreTypes DEF Open
<1>5. current'[i] = Used /\ current' \in [Instances -> Int]
  BY <1>1, <1>2, StoreTypes
<1>6. \A j \in Instances : Pending(j)' = Pending(j)
  BY <1>1, PendingStands
<1>7. Pending(i) = 0
  BY <1>3, PendingNone DEF Writers
<1>8. WritesPlaced'
  BY <1>1, <1>3, <1>4 DEF StoreInvariant, WritesPlaced, Writers
<1>9. WritersCrossed' /\ OneAdds'
  BY <1>1 DEF StoreInvariant, WritersCrossed, Writing, OneAdds
<1>10. OldRead'
  <2> SUFFICES ASSUME NEW c \in Calls, call[c].pc \in {"check", "store"},
                      Open(call[c].inst)', call[c].inst \notin crossed
               PROVE  call[c].old = table[call[c].name]
    BY <1>1 DEF OldRead
  <2>1. Open(call[c].inst)
    BY <1>1, <1>3, StoreTypes DEF Open, Writers
  <2> QED
    BY <2>1 DEF StoreInvariant, OldRead
<1>11. RoomLeft'
  <2> SUFFICES ASSUME ~raced, crossed = {}, NEW c \in Calls, call[c].pc = "store",
                      Open(call[c].inst)'
               PROVE  Used + call[c].num - call[c].old <= MaxSize
    BY <1>1, <1>2 DEF RoomLeft
  <2>1. Open(call[c].inst)
    BY <1>1, <1>3, StoreTypes DEF Open, Writers
  <2> QED
    BY <2>1 DEF StoreInvariant, RoomLeft
<1>12. StorageAccounted'
  <2>1. ASSUME NEW j \in Instances, Open(j)', j \notin crossed
        PROVE  current'[j] + Pending(j)' = Used
    <3>1. CASE j = i
      BY <1>2, <1>5, <1>6, <1>7, <3>1
    <3>2. CASE j # i
      <4>1. Open(j) /\ current'[j] = current[j] /\ Pending(j)' = Pending(j)
        BY <1>4, <1>6, <2>1, <3>2
      <4> QED
        BY <2>1, <4>1 DEF StoreInvariant, StorageAccounted
    <3> QED
      BY <3>1, <3>2
  <2>2. ~raced /\ crossed = {} => Used <= MaxSize
    BY DEF StoreInvariant, StorageAccounted
  <2> QED
    BY <1>1, <1>2, <2>1, <2>2 DEF StorageAccounted
<1> QED
  BY <1>5, <1>8, <1>9, <1>10, <1>11, <1>12 DEF StoreInvariant

(* The part of the invariant that is the store's. *)
StorePart == StoreTypeOK /\ StoreInvariant

(* The other services leave the store as it is. *)
LEMMA OthersKeepStore ==
  ASSUME StoreTyped, StorePart, UNCHANGED storeVars, NEW pcs, CallsWithin(pcs),
         pcs \cap Writers = {},
         \A i \in Instances : stage[i] # "new" => stage'[i] # "new",
         \A i \in Instances : Open(i)' => Open(i)
  PROVE  StorePart'
<1>1. UNCHANGED <<table, current, crossed, raced, writes>>
  BY DEF storeVars
<1>2. StoreTypeOK'
  BY <1>1 DEF StorePart, StoreTypeOK
<1>3. StoreFrame
  BY <1>1 DEF StoreFrame, CallsWithin
<1>4. StoreInvariant'
  BY <1>1, <1>3, StoreStands DEF StorePart
<1> QED
  BY <1>2, <1>4 DEF StorePart

(* The store's own steps. *)
LEMMA StoreStepKeeps ==
  ASSUME StoreTyped, StorePart, StoreStep
  PROVE  StorePart'
<1>0. /\ StoreInvariant /\ writes \in 0..MaxWrites /\ MaxWrites \in Nat
      /\ InstancePart /\ StoreTypeOK
  BY StoreAssumption DEF StorePart, StoreTypeOK, StoreTyped
<1>1. table' \in [Keys -> Nat]
  BY <1>0, StoreStepMoves DEF InstancePart
<1>2. ASSUME NEW c \in Calls, NEW i \in Instances, NEW k \in Keys, NEW size \in Nat,
             NEW pc \in {"check", "store"}, pc = "store" => size = 0, Read(c, i, k, pc, size)
      PROVE  StorePart'
  <2>1. StoreInvariant' /\ crossed' \subseteq Instances
    BY <1>0, <1>2, ReadKeepsStore
  <2>2. writes' \in 0..MaxWrites /\ current' = current /\ raced' = raced
    BY <1>0, <1>2 DEF Read
  <2> QED
    BY <1>0, <1>1, <2>1, <2>2 DEF StorePart, StoreTypeOK
<1>3. ASSUME NEW c \in Calls, Check(c)
      PROVE  StorePart'
  <2>1. /\ call[c].pc = "check" /\ UNCHANGED <<granted, stage, table, current, crossed, writes>>
        /\ raced' \in BOOLEAN /\ (raced => raced')
    BY <1>0, <1>3 DEF Check, StoreTypeOK
  <2>2. StoreTypeOK'
    BY <1>0, <2>1 DEF StoreTypeOK
  <2>3. CASE Total(c) <= MaxSize /\ GoOn(c, "store")
    BY <1>0, <1>3, <2>2, <2>3, PassedKeepsStore DEF StorePart
  <2>4. CASE Leave(c)
    BY <1>0, <2>1, <2>2, <2>4, GivenUpKeepsStore DEF StorePart
  <2> QED
    BY <1>3, <2>3, <2>4 DEF Check
<1>4. ASSUME NEW c \in Calls, Store(c)
      PROVE  StorePart'
  <2>1. StoreInvariant' /\ crossed' \subseteq Instances
    BY <1>0, <1>4, StoreKeepsStore
  <2>2. UNCHANGED <<current, raced, writes>>
    BY <1>4 DEF Store
  <2> QED
    BY <1>0, <1>1, <2>1, <2>2 DEF StorePart, StoreTypeOK
<1>5. ASSUME NEW c \in Calls, StoreFails(c)
      PROVE  StorePart'
  <2>1. /\ call[c].pc = "store" /\ Leave(c)
        /\ UNCHANGED <<granted, stage, table, current, crossed, raced, writes>>
    BY <1>5 DEF StoreFails, storeVars
  <2>2. StoreTypeOK'
    BY <1>0, <2>1 DEF StoreTypeOK
  <2> QED
    BY <1>0, <2>1, <2>2, GivenUpKeepsStore DEF StorePart
<1>6. ASSUME NEW c \in Calls, Account(c)
      PROVE  StorePart'
  <2>1. StoreInvariant' /\ current' \in [Instances -> Int]
    BY <1>0, <1>6, AccountKeepsStore
  <2>2. UNCHANGED <<table, crossed, raced, writes>>
    BY <1>6 DEF Account
  <2> QED
    BY <1>0, <2>1, <2>2 DEF StorePart, StoreTypeOK
<1>7. ASSUME NEW i \in Instances, CloseStore(i)
      PROVE  StorePart'
  <2>1. /\ UNCHANGED storeVars /\ call' = call /\ stage[i] = "kvstore"
        /\ stage' = [stage EXCEPT ![i] = "compiled"]
    BY <1>7 DEF CloseStore, Move
  <2>2. CallsWithin({}) /\ {} \cap Writers = {}
    BY <2>1 DEF CallsWithin
  <2>3. \A j \in Instances : stage'[j] = (IF j = i THEN "compiled" ELSE stage[j])
    BY <2>1, StoreTypes
  <2>4. \A j \in Instances : stage[j] # "new" => stage'[j] # "new"
    BY <2>1, <2>3
  <2>5. \A j \in Instances : Open(j)' => Open(j)
    BY <2>1, <2>3 DEF Open
  <2> QED
    BY <2>1, <2>2, <2>4, <2>5, OthersKeepStore
<1>8. Sizes \subseteq Nat /\ 0 \in Nat
  BY StoreAssumption
<1>9. ASSUME NEW i \in Instances, NEW c \in Calls, NEW k \in Keys, NEW size \in Sizes,
             Set(c, i, k, size)
      PROVE  StorePart'
  <2>1. size \in Nat /\ Read(c, i, k, "check", size)
    BY <1>8, <1>9 DEF Set
  <2> QED
    BY <2>1, <1>2
<1>10. ASSUME NEW i \in Instances, NEW c \in Calls, NEW k \in Keys, Delete(c, i, k)
       PROVE  StorePart'
  <2>1. Read(c, i, k, "store", 0)
    BY <1>10 DEF Delete
  <2> QED
    BY <2>1, <1>2
<1> QED
  BY <1>3, <1>4, <1>5, <1>6, <1>7, <1>9, <1>10 DEF StoreStep

LEMMA StoreStarts == Init => StorePart
<1> SUFFICES ASSUME Init
             PROVE  StorePart
  OBVIOUS
<1>1. /\ table \in [Keys -> Sizes \cup {0}] /\ Used <= MaxSize
      /\ current = [i \in Instances |-> 0]
      /\ crossed = {} /\ raced = FALSE /\ writes = 0
      /\ stage = [i \in Instances |-> "new"] /\ call = [c \in Calls |-> Idle]
  BY DEF Init, StoreInit, InstancesInit
<1>2. StoreTypeOK
  <2>1. Sizes \cup {0} \subseteq Nat /\ MaxWrites \in Nat
    BY StoreAssumption
  <2>2. table \in [Keys -> Nat] /\ current \in [Instances -> Int]
    BY <1>1, <2>1
  <2>3. crossed \subseteq Instances /\ writes \in 0..MaxWrites
    BY <1>1, <2>1
  <2>4. raced \in BOOLEAN
    BY <1>1, Zenon
  <2> QED
    BY <2>2, <2>3, <2>4 DEF StoreTypeOK
<1>3. (\A c \in Calls : call[c].pc = "idle") /\ \A i \in Instances : ~Open(i)
  BY <1>1 DEF Idle, Open
<1>4. WritesPlaced /\ WritersCrossed /\ OldRead /\ OneAdds /\ RoomLeft
  BY <1>3 DEF WritesPlaced, WritersCrossed, Writing, OldRead, OneAdds, RoomLeft
<1>5. StorageAccounted
  BY <1>1, <1>3 DEF StorageAccounted
<1> QED
  BY <1>2, <1>4, <1>5 DEF StorePart, StoreInvariant

LEMMA StoreKeeps == IInv /\ StorePart /\ [Next]_vars => StorePart'
<1> SUFFICES ASSUME IInv, StorePart, [Next]_vars
             PROVE  StorePart'
  OBVIOUS
<1>0. InstancePart /\ SchedulerPart /\ WebSocketPart /\ StoreTyped /\ stage \in [Instances -> Stages]
  BY DEF IInv, StorePart, StoreTyped, InstancePart, InstancesTypeOK
<1>1. ASSUME NEW i \in Instances, Load(i)
      PROVE  StorePart'
  <2>1. StoreInvariant' /\ current' \in [Instances -> Int]
    BY <1>0, <1>1, LoadKeepsStore DEF StorePart
  <2>2. UNCHANGED <<table, crossed, raced, writes>>
    BY <1>1 DEF Load, OpenStore
  <2> QED
    BY <2>1, <2>2 DEF StorePart, StoreTypeOK
<1>2. ASSUME NEW i \in Instances, NEW from \in {"loaded", "compiled"},
             NEW to \in {ToScheduler, "gone"}, Move(i, from, to), UNCHANGED storeVars,
             from = "compiled" => to = "gone"
      PROVE  StorePart'
  <2>1. call' = call /\ stage[i] = from /\ stage' = [stage EXCEPT ![i] = to]
    BY <1>2 DEF Move
  <2>2. CallsWithin({}) /\ {} \cap Writers = {}
    BY <2>1 DEF CallsWithin
  <2>3. to # "new" /\ \A j \in Instances : stage'[j] = (IF j = i THEN to ELSE stage[j])
    BY <1>0, <1>2, <2>1 DEF ToScheduler, ToWebSocket, ToStore
  <2>4. \A j \in Instances : stage[j] # "new" => stage'[j] # "new"
    BY <2>3
  <2>5. ASSUME NEW j \in Instances, Open(j)'
        PROVE  Open(j)
    <3>1. CASE j = i
      <4>1. to # "gone"
        BY <2>3, <2>5, <3>1 DEF Open
      <4>2. from = "loaded"
        BY <1>2, <4>1
      <4> QED
        BY <2>1, <3>1, <4>2, LoadedWays DEF Open
    <3>2. CASE j # i
      BY <2>3, <2>5, <3>2 DEF Open
    <3> QED
      BY <3>1, <3>2
  <2> QED
    BY <1>0, <1>2, <2>2, <2>4, <2>5, OthersKeepStore
<1>3. CASE Lifecycle
  <2>1. ASSUME NEW i \in Instances, Unload(i) \/ CloseCompiled(i), UNCHANGED storeVars
        PROVE  StorePart'
    BY <1>2, <2>1 DEF Unload, CloseCompiled
  <2> QED
    BY <1>1, <1>3, <2>1 DEF Lifecycle
<1>4. CASE SchedulerStep /\ UNCHANGED <<webSocketVars, storeVars>>
  <2>1. UNCHANGED storeVars /\ table' = table
    BY <1>4 DEF storeVars
  <2>2. CallsWithin(SchedulerCalls) /\ SchedulerCalls \cap Writers = {}
    BY <1>0, <1>4, <2>1, SchedulerStepMoves DEF SchedulerCalls, Writers
  <2>3. \A j \in Instances :
          \/ stage'[j] = stage[j]
          \/ stage[j] = "scheduler" /\ stage'[j] = "stopping"
          \/ stage[j] = "stopping" /\ stage'[j] \in {"websocket", "kvstore", "compiled"}
    BY <1>0, <1>4, <2>1, SchedulerStepMoves DEF ToWebSocket, ToStore
  <2>4. \A j \in Instances : stage[j] # "new" => stage'[j] # "new"
    BY <2>3
  <2>5. \A j \in Instances : Open(j)' => Open(j)
    BY <1>0, <2>3 DEF Open
  <2> QED
    BY <1>0, <2>1, <2>2, <2>4, <2>5, OthersKeepStore
<1>5. CASE WebSocketStep /\ UNCHANGED <<schedulerVars, storeVars>>
  <2>1. UNCHANGED storeVars /\ table' = table
    BY <1>5 DEF storeVars
  <2>2. CallsWithin(WebSocketCalls) /\ WebSocketCalls \cap Writers = {}
    BY <1>0, <1>5, <2>1, WebSocketStepMoves DEF WebSocketCalls, Writers
  <2>3. \A j \in Instances :
          \/ stage'[j] = stage[j]
          \/ stage[j] = "websocket" /\ stage'[j] = "hanging up"
          \/ stage[j] = "hanging up" /\ stage'[j] \in {"kvstore", "compiled"}
    BY <1>0, <1>5, <2>1, WebSocketStepMoves DEF ToStore
  <2>4. \A j \in Instances : stage[j] # "new" => stage'[j] # "new"
    BY <2>3
  <2>5. \A j \in Instances : Open(j)' => Open(j)
    BY <1>0, <2>3 DEF Open
  <2> QED
    BY <1>0, <2>1, <2>2, <2>4, <2>5, OthersKeepStore
<1>6. CASE StoreStep /\ UNCHANGED <<schedulerVars, webSocketVars>>
  BY <1>0, <1>6, StoreStepKeeps
<1>7. CASE UNCHANGED vars
  <2>1. UNCHANGED storeVars /\ call' = call /\ stage' = stage
    BY <1>7 DEF vars, instanceVars
  <2>2. CallsWithin({}) /\ {} \cap Writers = {}
    BY <2>1 DEF CallsWithin
  <2>3. \A j \in Instances : (stage[j] # "new" => stage'[j] # "new") /\ (Open(j)' => Open(j))
    BY <2>1 DEF Open
  <2> QED
    BY <1>0, <2>1, <2>2, <2>3, OthersKeepStore
<1> QED
  BY <1>3, <1>4, <1>5, <1>6, <1>7 DEF Next

LEMMA StoreHolds == Spec => []StorePart
BY StoreStarts, StoreKeeps, Invariant, PTL DEF Spec

(* Every variable keeps its type: what a call has in hand, a map or a        *)
(* history names was made before, and a size is a number.                    *)
THEOREM TypeCorrect == Spec => []TypeOK
<1>1. IInv /\ StorePart => TypeOK
  BY DEF IInv, StorePart, InstancePart, SchedulerPart, WebSocketPart, TypeOK
<1> QED
  BY <1>1, Invariant, StoreHolds, PTL

(* The size an instance counts is the size its values take, but for what its *)
(* writes still have to count, as long as no two writers of a key and no     *)
(* writer of another instance crossed; and while moreover no check raced     *)
(* with a write the limit holds, however Set, Delete and the unloading       *)
(* interleave.                                                               *)
THEOREM SizesAccounted == Spec => []StorageAccounted
<1>1. StorePart => StorageAccounted
  BY DEF StorePart, StoreInvariant
<1> QED
  BY <1>1, StoreHolds, PTL
=============================================================================
