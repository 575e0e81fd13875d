----------------------------- MODULE HostServices -----------------------------
(* The services of a plugin that keep state, over its loads and unloads.    *)
EXTENDS HostScheduler, HostWebSocket, HostKVStore

vars == <<instanceVars, schedulerVars, webSocketVars, storeVars>>

Init == InstancesInit /\ SchedulerInit /\ WebSocketInit /\ StoreInit

(* The services are made, the store reads its size, and the instance enters  *)
(* the map: one step. A write of the older instance in between is one after  *)
(* it (crossed); only callbacks find the new instance that much earlier.     *)
Load(i) == LoadInstance(i) /\ OpenStore(i) /\ UNCHANGED <<schedulerVars, webSocketVars>>

Lifecycle ==
  \E i \in Instances :
    \/ Load(i)
    \/ /\ Unload(i) \/ CloseCompiled(i)
       /\ UNCHANGED <<schedulerVars, webSocketVars, storeVars>>

Next ==
  \/ Lifecycle
  \/ SchedulerStep /\ UNCHANGED <<webSocketVars, storeVars>>
  \/ WebSocketStep /\ UNCHANGED <<schedulerVars, storeVars>>
  \/ StoreStep /\ UNCHANGED <<schedulerVars, webSocketVars>>

Spec == Init /\ [][Next]_vars

(* Every variable keeps its type; what a call has in hand was made before. *)
TypeOK == InstancesTypeOK /\ SchedulerTypeOK /\ WebSocketTypeOK /\ StoreTypeOK
=============================================================================
