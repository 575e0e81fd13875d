---------------------------- MODULE HostScheduler ----------------------------
(***************************************************************************)
(* plugins/host_scheduler.go: schedules a plugin makes under names of its  *)
(* own. The service's map says which entry has a name; the timers and cron *)
(* entries that fire carry the name only, and look it up when they do.     *)
(***************************************************************************)
EXTENDS PluginInstances

CONSTANT MaxTimers     \* bound: schedules made

VARIABLES timers,      \* the timers and cron entries made, in order
          schedules,   \* per instance: the entry under each name, 0 for none
          stopping     \* per instance: what its Close has still to stop

schedulerVars == <<timers, schedules, stopping>>

ASSUME SchedulerAssumption == MaxTimers \in Nat

(* "fired" to "cleanup" is the goroutine of a timer, or one firing of a     *)
(* cron entry. unsafe is history: made when nothing could keep it, because  *)
(* Close had already taken the map, or while an earlier timer of the name   *)
(* was still to fire or at work.                                            *)
TimerTypes == [inst : Instances, name : Names, recurring : BOOLEAN, live : BOOLEAN,
               pc : {"waiting", "fired", "calling", "cleanup", "done"},
               found : 0..MaxTimers, unsafe : BOOLEAN]

Timers == DOMAIN timers

SchedulerInit ==
  /\ timers = <<>>
  /\ schedules = [i \in Instances |-> [n \in Names |-> 0]]
  /\ stopping = [i \in Instances |-> {}]

(* Close has not taken the map of instance i yet. *)
Kept(i) == stage[i] \in {"loaded", "scheduler"}

(* Timer t can still look its name up. *)
AtWork(t) == timers[t].live \/ timers[t].pc \in {"fired", "calling", "cleanup"}

Shares(t, i, n) == timers[t].inst = i /\ timers[t].name = n

(* ScheduleOneTime, ScheduleRecurring, under the lock. A name that is in    *)
(* use is an error.                                                         *)
Schedule(i, n, recurring) ==
  /\ May(i, "scheduler") /\ Len(timers) < MaxTimers
  /\ schedules[i][n] = 0
  /\ timers' = Append(timers,
       [inst |-> i, name |-> n, recurring |-> recurring, live |-> TRUE, pc |-> "waiting",
        found |-> 0, unsafe |-> ~Kept(i) \/ \E t \in Timers : Shares(t, i, n) /\ AtWork(t)])
  /\ schedules' = [schedules EXCEPT ![i][n] = Len(timers) + 1]
  /\ UNCHANGED <<instanceVars, stopping>>

(* CancelSchedule takes the entry out and stops its timer when it has left  *)
(* the lock.                                                                *)
Cancel(c, i, n) ==
  /\ May(i, "scheduler") /\ schedules[i][n] # 0
  /\ Enter(c, "cancel", i, n, schedules[i][n], 0)
  /\ schedules' = [schedules EXCEPT ![i][n] = 0]
  /\ UNCHANGED <<granted, stage, timers, stopping>>

Stopped(t) == timers' = [timers EXCEPT ![t].live = FALSE]

StopCancelled(c) ==
  /\ call[c].pc = "cancel"
  /\ Stopped(call[c].num)
  /\ Leave(c)
  /\ UNCHANGED <<granted, stage, schedules, stopping>>

(* A timer expires, once; a cron entry goes on. *)
Fire(t) ==
  /\ timers[t].live /\ timers[t].pc = "waiting"
  /\ timers' = [timers EXCEPT ![t].pc = "fired", ![t].live = timers[t].recurring]
  /\ UNCHANGED <<instanceVars, schedules, stopping>>

After(t) == IF timers[t].recurring THEN "waiting" ELSE "cleanup"

(* invokeCallback: the entry is looked up by name; its payload is the one   *)
(* the plugin gets.                                                         *)
LookUp(t) ==
  /\ timers[t].pc = "fired"
  /\ LET e == schedules[timers[t].inst][timers[t].name] IN
       timers' = [timers EXCEPT ![t].pc = IF e = 0 THEN After(t) ELSE "calling", ![t].found = e]
  /\ UNCHANGED <<instanceVars, schedules, stopping>>

(* The plugin's callback has returned, or failed, or there is no instance   *)
(* in the manager's map to call.                                            *)
Return(t) ==
  /\ timers[t].pc = "calling"
  /\ timers' = [timers EXCEPT ![t].pc = After(t)]
  /\ UNCHANGED <<instanceVars, schedules, stopping>>

(* What follows a one-time callback: the entry goes, by its name. *)
CleanUp(t) ==
  /\ timers[t].pc = "cleanup"
  /\ timers' = [timers EXCEPT ![t].pc = "done"]
  /\ schedules' = [schedules EXCEPT ![timers[t].inst][timers[t].name] = 0]
  /\ UNCHANGED <<instanceVars, stopping>>

Entries(map) == {map[n] : n \in Names} \ {0}

(* Mutant: Close leaves the cron entries to the scheduler. *)
TakeSchedulesBug(i) ==
  /\ Move(i, "scheduler", "stopping")
  /\ stopping' = [stopping EXCEPT ![i] = {t \in Entries(schedules[i]) : ~timers[t].recurring}]
  /\ schedules' = [schedules EXCEPT ![i] = [n \in Names |-> 0]]
  /\ UNCHANGED timers

(* Close: the map is replaced by an empty one, and what it held is stopped. *)
TakeSchedules(i) ==
  /\ Move(i, "scheduler", "stopping")
  /\ stopping' = [stopping EXCEPT ![i] = Entries(schedules[i])]
  /\ schedules' = [schedules EXCEPT ![i] = [n \in Names |-> 0]]
  /\ UNCHANGED timers

StopOne(i, t) ==
  /\ t \in stopping[i]
  /\ Stopped(t)
  /\ stopping' = [stopping EXCEPT ![i] = @ \ {t}]
  /\ UNCHANGED <<instanceVars, schedules>>

SchedulerClosed(i) ==
  /\ stopping[i] = {}
  /\ Move(i, "stopping", ToWebSocket)
  /\ UNCHANGED schedulerVars

SchedulerStep ==
  \/ \E i \in Instances :
       \/ \E n \in Names : \/ \E recurring \in BOOLEAN : Schedule(i, n, recurring)
                           \/ \E c \in Calls : Cancel(c, i, n)
       \/ \E t \in stopping[i] : StopOne(i, t)
       \/ TakeSchedules(i)
       \/ SchedulerClosed(i)
  \/ \E c \in Calls : StopCancelled(c)
  \/ \E t \in Timers : Fire(t) \/ LookUp(t) \/ Return(t) \/ CleanUp(t)

SchedulerTypeOK ==
  /\ timers \in Seq(TimerTypes) /\ Len(timers) <= MaxTimers
  /\ schedules \in [Instances -> [Names -> 0..Len(timers)]]
  /\ stopping \in [Instances -> SUBSET Timers]
  /\ \A c \in Calls : call[c].pc = "cancel" => call[c].num \in Timers

InHand(t) ==
  \/ \E c \in Calls : call[c].pc = "cancel" /\ call[c].num = t
  \/ t \in stopping[timers[t].inst]

(* A schedule that was made safely and can still fire is the one its name   *)
(* stands for, so that the plugin can cancel it and it is found when it     *)
(* fires; or it is in the hands of who stops it. None outlives the unload,   *)
(* and no callback is made for an entry other than the one that fired.      *)
SchedulesKept ==
  \A t \in Timers : LET r == timers[t] IN
    /\ r.live /\ ~r.unsafe =>
         InHand(t) \/ (schedules[r.inst][r.name] = t /\ Kept(r.inst))
    /\ r.found \notin {0, t} => timers[r.found].unsafe
=============================================================================
