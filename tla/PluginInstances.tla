--------------------------- MODULE PluginInstances ---------------------------
(***************************************************************************)
(* What the host services of a plugin have in common: the instances of the *)
(* plugin, one after the other in the manager's map, each with services of *)
(* its own; the way an instance is unloaded (manager.go, unloadPlugin),     *)
(* which closes its services one by one; and the calls of host functions    *)
(* under way. Plugin code runs until the compiled plugin is closed, and a   *)
(* host function that was entered runs to its end after that.               *)
(***************************************************************************)
EXTENDS Integers, Sequences, FiniteSets

CONSTANTS Calls,       \* goroutines in a host function
          Names,       \* ids of schedules and connections
          Keys,        \* keys of the store
          Manifests,   \* sets of services a plugin may have permission for
          MaxLoads,    \* bound: instances of the plugin
          None         \* no name, no key

VARIABLES granted,     \* the services in the plugin's manifest
          stage,       \* per instance: how far it is loaded or unloaded
          call         \* per goroutine: place, instance, name, and its locals

instanceVars == <<granted, stage, call>>

Services == {"scheduler", "websocket", "kvstore"}

ASSUME InstancesAssumption ==
  /\ Manifests \subseteq SUBSET Services
  /\ MaxLoads \in Nat
  /\ None \notin Names \cup Keys

Instances == 1..MaxLoads

(* An instance in the map is "loaded". The others are the places of         *)
(* unloadPlugin: before the Close of a service and in the middle of it.     *)
Stages == {"new", "loaded", "scheduler", "stopping", "websocket", "hanging up",
           "kvstore", "compiled", "gone"}

Idle == [pc |-> "idle", inst |-> 0, name |-> None, num |-> 0, old |-> 0]

CallTypes == [pc : {"idle", "cancel", "dial", "close", "check", "store", "account"},
              inst : 0..MaxLoads, name : Names \cup Keys \cup {None}, num : Nat, old : Nat]

InstancesInit ==
  /\ granted \in Manifests
  /\ stage = [i \in Instances |-> "new"]
  /\ call = [c \in Calls |-> Idle]

InstancesTypeOK ==
  /\ granted \in SUBSET Services
  /\ stage \in [Instances -> Stages]
  /\ call \in [Calls -> CallTypes]

(* Plugin code of the instance may run: the call of its init function, of   *)
(* its capabilities, and callbacks.                                         *)
Running(i) == stage[i] \notin {"new", "gone"}

(* A callback looks the plugin up in the manager's map: it reaches the       *)
(* instance that is there, be it a newer one, or none.                      *)
InMap == \E i \in Instances : stage[i] = "loaded"

(* A host function of service s is called by instance i. *)
May(i, s) == s \in granted /\ Running(i)

Enter(c, pc, i, n, num, old) ==
  /\ call[c].pc = "idle"
  /\ call' = [call EXCEPT ![c] = [pc |-> pc, inst |-> i, name |-> n, num |-> num, old |-> old]]

GoOn(c, pc) == call' = [call EXCEPT ![c].pc = pc]

Leave(c) == call' = [call EXCEPT ![c] = Idle]

Move(i, from, to) ==
  /\ stage[i] = from
  /\ stage' = [stage EXCEPT ![i] = to]
  /\ UNCHANGED <<granted, call>>

(* loadPluginWithConfig: new services and an entry in the map, when the     *)
(* entry of the instance before it is gone.                                 *)
LoadInstance(i) ==
  /\ \A j \in Instances : /\ j < i => stage[j] \notin {"new", "loaded"}
                          /\ j > i => stage[j] = "new"
  /\ Move(i, "new", "loaded")

(* The closers of the services that were made, in the order of hostServices. *)
ToStore == IF "kvstore" \in granted THEN "kvstore" ELSE "compiled"
ToWebSocket == IF "websocket" \in granted THEN "websocket" ELSE ToStore
ToScheduler == IF "scheduler" \in granted THEN "scheduler" ELSE ToWebSocket

(* unloadPlugin: the entry leaves the map, the closers follow. *)
Unload(i) == Move(i, "loaded", ToScheduler)

(* The last step of unloadPlugin: no plugin code of the instance runs on.   *)
CloseCompiled(i) == Move(i, "compiled", "gone")
=============================================================================
