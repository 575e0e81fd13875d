---------------------------- MODULE PluginManager ----------------------------
(***************************************************************************)
(* plugins/manager*.go for one plugin: its file in the plugins folder, its *)
(* row in the database, the instance in the manager's map, and the         *)
(* operations that keep the three together: requests of users, rescans,     *)
(* the file watcher, Start and Stop. Operations run in goroutines of their  *)
(* own and share nothing but the map's lock; each reads the row once and    *)
(* writes it back whole.                                                   *)
(***************************************************************************)
EXTENDS Integers, Sequences, FiniteSets

CONSTANTS Ops,          \* goroutines that operate on the plugin
          Builds,       \* contents a plugin's file may have
          Broken,       \* those whose manifest cannot be read
          Failing,      \* those that do not compile or whose manifest is refused then
          Gated,        \* those that ask for access to users (or libraries)
          InitRows,     \* rows an earlier process may have left
          AutoReload,   \* Plugins.AutoReload: the folder is watched
          MaxCalls,     \* bound: requests of users, and of Stop
          MaxChanges,   \* bound: changes of the file
          MaxFaults,    \* bound: database errors and restarts
          None          \* no file, no row

VARIABLES file,         \* what is at the plugin's path
          row,            \* the row of table plugin
          map,            \* the instance in m.plugins, 0 for none
          insts,          \* the instances made so far by this process
          op,             \* per goroutine: what it does and the row it has read
          loading,        \* the operations loadWg counts
          started,        \* Start: "no", "running" or "yes"
          stopper,        \* Stop: "no", "waiting" or "done"
          watching,       \* the watcher's loop runs
          armed,          \* a debounce timer is pending
          orphaned,       \* history: instances whose load failed after their services were made
          overwritten,    \* history: instances another load of the plugin took the place of
          overlapped,     \* history: two operations ran at the same time
          faulted,      \* history: the database failed
          missed,         \* history: a change nobody will look at
          used            \* bounds: how many calls, changes and faults

manager  == <<map, insts, loading, started, stopper, watching, armed>>
history  == <<orphaned, overwritten, overlapped, faulted, missed>>
vars == <<file, row, manager, op, history, used>>

Rows == [build : Builds \cup {None}, enabled : BOOLEAN, error : BOOLEAN, users : BOOLEAN]
NoRow == [build |-> None, enabled |-> FALSE, error |-> FALSE, users |-> FALSE]

ASSUME PluginAssumption ==
  /\ None \notin Builds
  /\ Broken \subseteq Builds /\ Failing \subseteq Builds /\ Gated \subseteq Builds
  /\ InitRows \subseteq {r \in Rows : r.build = None => r = NoRow}
  /\ AutoReload \in BOOLEAN
  /\ MaxCalls \in Nat /\ MaxChanges \in Nat /\ MaxFaults \in Nat

(* What an operation has still to do, in order. *)
Steps == {"unload", "load", "put", "delete"}

Kinds == {"enable", "disable", "update", "cleanup", "rescan", "start", "load", "event"}

Idle == [pc |-> "idle", kind |-> "enable", row |-> NoRow, seen |-> None,
         todo |-> <<>>, inst |-> 0]

Readable(b) == b # None /\ b \notin Broken

Init ==
  /\ file \in Builds \cup {None}
  /\ row \in InitRows
  /\ map = 0 /\ insts = <<>> /\ loading = {}
  /\ started = "no" /\ stopper = "no" /\ watching = FALSE /\ armed = FALSE
  /\ op = [g \in Ops |-> Idle]
  /\ orphaned = {} /\ overwritten = {} /\ overlapped = FALSE
  /\ faulted = FALSE /\ missed = FALSE
  /\ used = [calls |-> 0, changes |-> 0, faults |-> 0]

Count(what) == used' = [used EXCEPT ![what] = @ + 1]

(* A database error, within the bound. *)
Fault == used.faults < MaxFaults /\ Count("faults") /\ faulted' = TRUE

NoFault == UNCHANGED <<used, faulted>>

----------------------------------------------------------------------------
(* The program of an operation *)

Set(g, o) == op' = [op EXCEPT ![g] = o]

(* Go on with the steps of todo. Start has two rounds: what the sync does,  *)
(* and the loading of what is enabled.                                      *)
Run(g, r, todo) ==
  Set(g, IF todo # <<>> THEN [op[g] EXCEPT !.pc = "run", !.row = r, !.todo = todo, !.inst = 0]
         ELSE CASE op[g].kind = "start" -> [Idle EXCEPT !.pc = "enabled", !.kind = "load"]
                [] op[g].kind = "load" -> [Idle EXCEPT !.pc = "watch"]
                [] OTHER -> Idle)

Done(g) == Run(g, NoRow, <<>>)

Proceed(g) == Run(g, op[g].row, Tail(op[g].todo))

(* Mutant: what is loaded stays loaded. *)
UnloadIfBug(r, step) == <<step>>

(* unloadPlugin comes first where the row says that the plugin is enabled. *)
UnloadIf(r, step) == IF r.enabled THEN <<"unload", step>> ELSE <<step>>

Fresh(b) == [build |-> b, enabled |-> FALSE, error |-> FALSE, users |-> FALSE]

(* addPluginToDB, updatePluginInDB and the errors stored for a file that     *)
(* cannot be read: what a sync or an event does once it knows the row r and  *)
(* finds the file to differ.                                                *)
Adopt(g, r) ==
  IF Readable(file) /\ stopper = "no"
  THEN IF r.build = None THEN Run(g, Fresh(file), <<"put">>)
       ELSE Run(g, [r EXCEPT !.build = file, !.enabled = FALSE, !.error = FALSE],
                UnloadIf(r, "put"))
  ELSE IF r.build = None THEN Done(g)
       ELSE Run(g, [r EXCEPT !.enabled = FALSE, !.error = TRUE], UnloadIf(r, "put"))

(* removePluginFromDB, if there is a row. *)
Remove(g, r) ==
  IF r.build = None THEN Done(g) ELSE Run(g, r, UnloadIf(r, "delete"))

----------------------------------------------------------------------------
(* Operations begin *)

Busy == \E g \in Ops : op[g].pc # "idle"

Begin(g, kind, pc, seen) ==
  /\ op[g].pc = "idle"
  /\ overlapped' = (overlapped \/ Busy)
  /\ Set(g, [Idle EXCEPT !.pc = pc, !.kind = kind, !.seen = seen])

(* Requests are looked at from Start on, which makes the context and the     *)
(* cache that loading needs.                                                *)
Serving == started # "no"

(* EnablePlugin, DisablePlugin, the updates of settings, RescanPlugins. *)
Call(g) ==
  /\ Serving /\ used.calls < MaxCalls /\ Count("calls")
  /\ \/ \E k \in {"enable", "disable", "update"} : Begin(g, k, "get", None)
     \/ Begin(g, "rescan", "list", None)
  /\ UNCHANGED <<file, row, manager, orphaned, overwritten, faulted, missed>>

(* The plugin's last user is deleted: the row is changed in the same         *)
(* transaction, then UnloadDisabledPlugins looks for what was disabled.     *)
DeleteUser(g) ==
  /\ Serving /\ used.calls < MaxCalls /\ Count("calls")
  /\ row.users
  /\ row' = [row EXCEPT !.users = FALSE, !.enabled = @ /\ row.build \notin Gated]
  /\ Begin(g, "cleanup", "get", None)
  /\ UNCHANGED <<file, manager, orphaned, overwritten, faulted, missed>>

StartManager(g) ==
  /\ started = "no" /\ started' = "running"
  /\ Begin(g, "start", "list", None)
  /\ UNCHANGED <<file, row, map, insts, loading, stopper, watching, armed,
                 orphaned, overwritten, faulted, missed, used>>

(* The debounce timer fires: processPluginEvent looks at the file. *)
Fire(g) ==
  /\ armed /\ armed' = FALSE
  /\ stopper = "no"
  /\ Begin(g, "event", "react", file)
  /\ UNCHANGED <<file, row, map, insts, loading, started, stopper, watching,
                 orphaned, overwritten, faulted, missed, used>>

----------------------------------------------------------------------------
(* What an operation decides when it has read the row *)

At(g, pc) == op[g].pc = pc

Decides(g) ==
  /\ At(g, "get")
  /\ UNCHANGED <<file, row, manager, history, used>>

(* The manifest of the file, not of the row, says what is asked for. *)
GateClosed(users) == Readable(file) /\ file \in Gated /\ ~users

EnablePlugin(g) ==
  /\ Decides(g) /\ op[g].kind = "enable"
  /\ IF row.build = None \/ row.enabled \/ ~Readable(file) \/ GateClosed(row.users)
     THEN Done(g)
     ELSE Run(g, [row EXCEPT !.enabled = TRUE, !.error = FALSE], <<"load", "put">>)

DisablePlugin(g) ==
  /\ Decides(g) /\ op[g].kind = "disable"
  /\ IF row.enabled THEN Run(g, [row EXCEPT !.enabled = FALSE], <<"unload", "put">>)
     ELSE Done(g)

(* Users are granted or taken away; configuration and libraries go the same way. *)
UpdatePluginSettings(g) ==
  /\ Decides(g) /\ op[g].kind = "update"
  /\ \E u \in BOOLEAN :
       LET r == [row EXCEPT !.users = u] IN
       IF row.build = None THEN Done(g)
       ELSE IF ~row.enabled THEN Run(g, r, <<"put">>)
       ELSE IF GateClosed(u) THEN Run(g, [r EXCEPT !.enabled = FALSE], <<"unload", "put">>)
       ELSE Run(g, r, <<"put", "unload", "load">>)

UnloadDisabledPlugins(g) ==
  /\ Decides(g) /\ op[g].kind = "cleanup"
  /\ IF row.build # None /\ ~row.enabled THEN Run(g, row, <<"unload">>) ELSE Done(g)

(* syncPlugins: the folder, then the rows, then the file again. *)
ReadFolder(g) ==
  /\ At(g, "list")
  /\ Set(g, [op[g] EXCEPT !.pc = "rows", !.seen = file])
  /\ UNCHANGED <<file, row, manager, history, used>>

ReadRows(g) ==
  /\ At(g, "rows")
  /\ \/ Set(g, [op[g] EXCEPT !.pc = "compare", !.row = row]) /\ NoFault
     \/ Done(g) /\ Fault
  /\ UNCHANGED <<file, row, manager, orphaned, overwritten, overlapped, missed>>

(* A file that is listed and cannot be read keeps its row among those to be *)
(* removed.                                                                 *)
Compare(g) ==
  /\ At(g, "compare")
  /\ LET r == op[g].row IN
       IF op[g].seen = None \/ file = None THEN Remove(g, r)
       ELSE IF r.build = file THEN Done(g) ELSE Adopt(g, r)
  /\ UNCHANGED <<file, row, manager, history, used>>

(* Mutant: the file of a plugin that is not enabled is not looked at. *)
ReactBug(g) ==
  /\ At(g, "react")
  /\ NoFault
  /\ IF ~row.enabled THEN Done(g)
     ELSE IF op[g].seen = None THEN Remove(g, row) ELSE Adopt(g, row)
  /\ UNCHANGED <<file, row, manager, orphaned, overwritten, overlapped, missed>>

(* processPluginEvent after the look at the file. An error of the query is   *)
(* taken for a plugin that is not known.                                    *)
React(g) ==
  /\ At(g, "react")
  /\ \E known \in {row, NoRow} :
       /\ IF known = row THEN NoFault ELSE Fault
       /\ IF op[g].seen = None THEN Remove(g, known)
          ELSE IF known.build = op[g].seen THEN Done(g) ELSE Adopt(g, known)
  /\ UNCHANGED <<file, row, manager, orphaned, overwritten, overlapped, missed>>

Decide(g) ==
  EnablePlugin(g) \/ DisablePlugin(g) \/ UpdatePluginSettings(g) \/ UnloadDisabledPlugins(g)
  \/ ReadFolder(g) \/ ReadRows(g) \/ Compare(g) \/ React(g)

----------------------------------------------------------------------------
(* The steps of an operation *)

Due(g, step) == At(g, "run") /\ Head(op[g].todo) = step

(* Mutant: the instance is closed before it leaves the map. *)
UnloadBug(g) ==
  /\ Due(g, "unload")
  /\ IF map = 0 THEN Proceed(g) ELSE Set(g, [op[g] EXCEPT !.pc = "closing", !.inst = map])
  /\ UNCHANGED <<file, row, manager, history, used>>

(* unloadPlugin: out of the map under the lock, closed after it. *)
Unload(g) ==
  /\ Due(g, "unload")
  /\ map' = 0
  /\ IF map = 0 THEN Proceed(g) ELSE Set(g, [op[g] EXCEPT !.pc = "closing", !.inst = map])
  /\ UNCHANGED <<file, row, insts, loading, started, stopper, watching, armed, history, used>>

Close(g) ==
  /\ At(g, "closing")
  /\ insts' = [insts EXCEPT ![op[g].inst].open = FALSE]
  /\ Run(g, op[g].row, Tail(op[g].todo))
  /\ UNCHANGED <<file, row, map, loading, started, stopper, watching, armed, history, used>>

(* Mutant: the error is stored and the row stays enabled. *)
LoadFailsBug(g) == Run(g, [op[g].row EXCEPT !.error = TRUE], <<"put">>)

(* loadPluginWithConfig. Whoever asked for it stores the error. *)
LoadFails(g) == Run(g, [op[g].row EXCEPT !.enabled = FALSE, !.error = TRUE], <<"put">>)

CheckStopped(g) ==
  /\ Due(g, "load")
  /\ IF stopper = "no" THEN Set(g, [op[g] EXCEPT !.pc = "enter"]) ELSE LoadFails(g)
  /\ UNCHANGED <<file, row, manager, history, used>>

(* Mutant: stopped is looked at once, before loadWg.Add. *)
EnterBug(g) ==
  /\ At(g, "enter")
  /\ Set(g, [op[g] EXCEPT !.pc = "compile"]) /\ loading' = loading \cup {g}
  /\ UNCHANGED <<file, row, map, insts, started, stopper, watching, armed, history, used>>

(* loadWg.Add and the second look at stopped. *)
Enter(g) ==
  /\ At(g, "enter")
  /\ IF stopper = "no"
     THEN Set(g, [op[g] EXCEPT !.pc = "compile"]) /\ loading' = loading \cup {g}
     ELSE LoadFails(g) /\ UNCHANGED loading
  /\ UNCHANGED <<file, row, map, insts, started, stopper, watching, armed, history, used>>

(* Mutant: services that were never made are taken for open. *)
CompileBug(g) ==
  /\ At(g, "compile")
  /\ IF ~Readable(file) \/ file \in Failing
     THEN /\ LoadFails(g) /\ orphaned' = orphaned \cup {Len(insts) + 1}
          /\ loading' = loading \ {g} /\ UNCHANGED insts
     ELSE /\ insts' = Append(insts, [users |-> op[g].row.users, open |-> TRUE])
          /\ Set(g, [op[g] EXCEPT !.pc = "register", !.inst = Len(insts) + 1])
          /\ UNCHANGED <<orphaned, loading>>
  /\ UNCHANGED <<file, row, map, started, stopper, watching, armed,
                 overwritten, overlapped, faulted, missed, used>>

(* The package is opened, the services are made and the code is compiled; if *)
(* that fails the services made stay open.                                  *)
Compile(g) ==
  /\ At(g, "compile")
  /\ IF ~Readable(file)
     THEN LoadFails(g) /\ UNCHANGED <<insts, orphaned>>
     ELSE /\ insts' = Append(insts, [users |-> op[g].row.users, open |-> TRUE])
          /\ IF file \in Failing
             THEN LoadFails(g) /\ orphaned' = orphaned \cup {Len(insts) + 1}
             ELSE /\ Set(g, [op[g] EXCEPT !.pc = "register", !.inst = Len(insts) + 1])
                  /\ UNCHANGED orphaned
  /\ loading' = IF Readable(file) /\ file \notin Failing THEN loading ELSE loading \ {g}
  /\ UNCHANGED <<file, row, map, started, stopper, watching, armed,
                 overwritten, overlapped, faulted, missed, used>>

Register(g) ==
  /\ At(g, "register")
  /\ map' = op[g].inst
  /\ overwritten' = overwritten \cup ({map} \ {0})
  /\ Set(g, [op[g] EXCEPT !.pc = "init", !.inst = 0])
  /\ UNCHANGED <<file, row, insts, loading, started, stopper, watching, armed,
                 orphaned, overlapped, faulted, missed, used>>

(* callPluginInit on whatever the map holds now; nothing there is a panic,   *)
(* which the server or loadEnabledPlugins recovers from.                    *)
CallPluginInit(g) ==
  /\ At(g, "init")
  /\ loading' = loading \ {g}
  /\ IF map = 0 THEN Done(g) ELSE Proceed(g)
  /\ UNCHANGED <<file, row, map, insts, started, stopper, watching, armed, history, used>>

(* Put writes the whole row, a removed one too. An error ends the operation; *)
(* EnablePlugin unloads what it has loaded.                                 *)
Put(g) ==
  /\ Due(g, "put")
  /\ \/ row' = op[g].row /\ Proceed(g) /\ NoFault
     \/ /\ Fault /\ UNCHANGED row
        /\ IF op[g].kind = "enable" /\ op[g].row.enabled
           THEN Run(g, op[g].row, <<"unload">>) ELSE Done(g)
  /\ UNCHANGED <<file, manager, orphaned, overwritten, overlapped, missed>>

Delete(g) ==
  /\ Due(g, "delete")
  /\ \/ row' = NoRow /\ NoFault
     \/ Fault /\ UNCHANGED row
  /\ Proceed(g)
  /\ UNCHANGED <<file, manager, orphaned, overwritten, overlapped, missed>>

Work(g) ==
  Unload(g) \/ Close(g) \/ CheckStopped(g) \/ Enter(g) \/ Compile(g) \/ Register(g)
  \/ CallPluginInit(g) \/ Put(g) \/ Delete(g)

----------------------------------------------------------------------------
(* The second half of Start, Stop, restarts, and the disk *)

LoadEnabledPlugins(g) ==
  /\ At(g, "enabled")
  /\ IF row.enabled
     THEN Run(g, [row EXCEPT !.error = FALSE], IF row.error THEN <<"load", "put">> ELSE <<"load">>)
     ELSE Done(g)
  /\ UNCHANGED <<file, row, manager, history, used>>

StartWatcher(g) ==
  /\ At(g, "watch")
  /\ Set(g, Idle)
  /\ started' = "yes"
  /\ watching' = (AutoReload /\ stopper = "no")
  /\ UNCHANGED <<file, row, map, insts, loading, stopper, armed, history, used>>

Stop ==
  /\ used.calls < MaxCalls /\ Count("calls")
  /\ stopper = "no" /\ stopper' = "waiting"
  /\ watching' = FALSE /\ armed' = FALSE
  /\ UNCHANGED <<file, row, map, insts, loading, started, op, history>>

(* loadWg.Wait returns; everything in the map and the cache are closed. *)
StopEnds ==
  /\ stopper = "waiting" /\ loading = {}
  /\ stopper' = "done"
  /\ map' = 0
  /\ insts' = [i \in DOMAIN insts |-> IF i = map THEN [insts[i] EXCEPT !.open = FALSE] ELSE insts[i]]
  /\ UNCHANGED <<file, row, loading, started, watching, armed, op, history, used>>

Crash ==
  /\ used.faults < MaxFaults /\ Count("faults")
  /\ map' = 0 /\ insts' = <<>> /\ loading' = {}
  /\ started' = "no" /\ stopper' = "no" /\ watching' = FALSE /\ armed' = FALSE
  /\ op' = [g \in Ops |-> Idle]
  /\ orphaned' = {} /\ overwritten' = {} /\ overlapped' = FALSE
  /\ faulted' = FALSE /\ missed' = FALSE
  /\ UNCHANGED <<file, row>>

(* Start will still read the file as it is now. *)
SyncAhead ==
  \/ started = "no"
  \/ \E g \in Ops :
       /\ op[g].kind = "start"
       /\ At(g, "list") \/ (op[g].pc \in {"rows", "compare"} /\ op[g].seen # None)

(* A file is added, replaced or removed; the watcher arms its timer. *)
Change ==
  /\ used.changes < MaxChanges /\ Count("changes")
  /\ \E b \in (Builds \cup {None}) \ {file} : file' = b
  /\ armed' = (armed \/ watching)
  /\ missed' = (missed \/ ~(watching \/ SyncAhead))
  /\ UNCHANGED <<row, map, insts, loading, started, stopper, watching, op,
                 orphaned, overwritten, overlapped, faulted>>

----------------------------------------------------------------------------

Step(g) == Decide(g) \/ Work(g) \/ LoadEnabledPlugins(g) \/ StartWatcher(g)

Next ==
  \/ \E g \in Ops : Call(g) \/ DeleteUser(g) \/ StartManager(g) \/ Fire(g) \/ Step(g)
  \/ Stop \/ StopEnds \/ Crash \/ Change

Spec == Init /\ [][Next]_vars

(* Goroutines run on, the process calls Start, and timers fire. *)
FairSpec ==
  /\ Spec
  /\ \A g \in Ops : WF_vars(Step(g))
  /\ WF_vars(\E g \in Ops : StartManager(g))
  /\ WF_vars(\E g \in Ops : Fire(g))

----------------------------------------------------------------------------
(* Properties *)

OpType ==
  [pc : {"idle", "get", "list", "rows", "compare", "react", "run", "closing", "enter",
         "compile", "register", "init", "enabled", "watch"},
   kind : Kinds, row : Rows, seen : Builds \cup {None}, todo : Seq(Steps), inst : Nat]

(* Types: the fields of Manager (manager.go), the row (persistence/           *)
(* plugin_repository.go), the locals of the operations.                      *)
TypeOK ==
  /\ file \in Builds \cup {None}
  /\ row \in Rows
  /\ insts \in Seq([users : BOOLEAN, open : BOOLEAN])
  /\ map \in 0 .. Len(insts)
  /\ op \in [Ops -> OpType]
  /\ loading \subseteq Ops
  /\ started \in {"no", "running", "yes"} /\ stopper \in {"no", "waiting", "done"}
  /\ watching \in BOOLEAN /\ armed \in BOOLEAN
  /\ orphaned \subseteq 1 .. Len(insts) /\ overwritten \subseteq 1 .. Len(insts)
  /\ overlapped \in BOOLEAN /\ faulted \in BOOLEAN /\ missed \in BOOLEAN
  /\ used \in [{"calls", "changes", "faults"} -> Nat]

(* Whatever operations overlap, the instance a lookup finds in the map        *)
(* (LoadScrobbler, LoadMediaAgent, PluginNames) is not closed yet: it leaves  *)
(* the map before it is closed, and closed instances never come back          *)
(* (unloadPlugin, Stop).                                                      *)
MapNeverClosed == map # 0 => insts[map].open

(* No instance is lost track of: one that is open and not in the map is being *)
(* loaded or closed by somebody, was orphaned by a failed load, or was        *)
(* overwritten, which takes two operations at once or a failed write          *)
(* (loadPluginWithConfig does not look at what is in the map).                *)
OpenIsKnown ==
  /\ \A i \in 1 .. Len(insts) :
       insts[i].open =>
         i = map \/ i \in orphaned \cup overwritten \/ \E g \in Ops : op[g].inst = i
  /\ overwritten # {} => overlapped \/ faulted

(* After Stop has closed the compilation cache nothing is loaded any more     *)
(* and nothing is compiled: loadWg and the two looks at stopped suffice.      *)
StopIsFinal ==
  stopper = "done" =>
    map = 0 /\ \A g \in Ops : op[g].pc \notin {"compile", "register", "init"}

(* At rest the row tells whether the plugin is loaded and for whom: after any *)
(* sequence of calls, events and failed loads, one at a time, in a process    *)
(* that was not stopped and whose database did not fail. What an earlier      *)
(* process left behind, in the middle of whatever, does not matter.           *)
RowTellsMap ==
  (started = "yes" /\ stopper = "no" /\ ~Busy /\ ~overlapped /\ ~faulted) =>
    /\ row.enabled <=> map # 0
    /\ map # 0 => insts[map].users = row.users \/ row.build \notin Gated

(* With the watcher on, the row follows the file in the end.                  *)
Follows == row.build = file \/ file \in Broken

Excused == overlapped \/ faulted \/ missed \/ stopper # "no"

EventuallySynced ==
  AutoReload => \A b \in Builds \cup {None} :
    <>[](file = b /\ ~Excused) => <>[]Follows
=============================================================================
