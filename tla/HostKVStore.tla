----------------------------- MODULE HostKVStore -----------------------------
(***************************************************************************)
(* plugins/host_kvstore.go: the key-value store of a plugin, a table that  *)
(* outlives its instances, and the total size each instance counts for     *)
(* itself from the sizes it reads before it writes.                         *)
(***************************************************************************)
EXTENDS PluginInstances, Functions

CONSTANTS Sizes,       \* sizes of values
          MaxSize,     \* the manifest's limit
          MaxWrites    \* bound: calls of Set and Delete

VARIABLES table,       \* the size of the value under each key, 0 for no row
          current,     \* per instance: currentSize
          crossed,     \* history: instances for which two writers of a key, or
                       \* writers of another instance, have crossed
          raced,       \* history: a size was checked while another write was under way
          writes       \* bound: how many calls

storeVars == <<table, current, crossed, raced, writes>>

ASSUME StoreAssumption ==
  /\ Sizes \subseteq Nat \ {0} /\ MaxSize \in Nat /\ MaxWrites \in Nat
  /\ IsFiniteSet(Keys) /\ IsFiniteSet(Calls)

(* SELECT SUM(size) *)
Used == SumFunction(table)

StoreInit ==
  /\ table \in [Keys -> Sizes \cup {0}] /\ Used <= MaxSize
  /\ "kvstore" \notin granted => table = [k \in Keys |-> 0]
  /\ current = [i \in Instances |-> 0]
  /\ crossed = {} /\ raced = FALSE /\ writes = 0

(* The database is closed by the Close of the service. *)
Open(i) == stage[i] \in Stages \ {"new", "compiled", "gone"}

(* newKVStoreService *)
OpenStore(i) ==
  /\ current' = [current EXCEPT ![i] = Used]
  /\ UNCHANGED <<table, crossed, raced, writes>>

Writing(c, k) == call[c].name = k /\ call[c].pc \in {"check", "store"}

(* The size of the row is read: from here on another writer of the key is  *)
(* in the way.                                                              *)
Read(c, i, k, pc, size) ==
  /\ May(i, "kvstore") /\ Open(i)
  /\ writes < MaxWrites /\ writes' = writes + 1
  /\ Enter(c, pc, i, k, size, table[k])
  /\ LET others == {d \in Calls : Writing(d, k)} IN
       crossed' = IF others = {} THEN crossed
                  ELSE crossed \cup {i} \cup {call[d].inst : d \in others}
  /\ UNCHANGED <<granted, stage, table, current, raced>>

Set(c, i, k, size) == Read(c, i, k, "check", size)

(* Delete, if there is a row. *)
Delete(c, i, k) == table[k] # 0 /\ Read(c, i, k, "store", 0)

(* Mutant: the value that was there is not taken off. *)
TotalBug(c) == current[call[c].inst] + call[c].num

(* The size after the write, by the count. *)
Total(c) == current[call[c].inst] + call[c].num - call[c].old

(* The limit is checked against the total counted so far. *)
Check(c) ==
  /\ call[c].pc = "check"
  /\ \/ Total(c) <= MaxSize /\ GoOn(c, "store")
     \/ Total(c) > MaxSize /\ Leave(c)
  /\ raced' = (raced \/ \E d \in Calls \ {c} : call[d].pc \in {"store", "account"})
  /\ UNCHANGED <<granted, stage, table, current, crossed, writes>>

(* The row is written or deleted. An instance next to this one does not     *)
(* count it.                                                                *)
Store(c) ==
  /\ call[c].pc = "store" /\ Open(call[c].inst)
  /\ table' = [table EXCEPT ![call[c].name] = call[c].num]
  /\ crossed' = crossed \cup {i \in Instances \ {call[c].inst} : Open(i)}
  /\ GoOn(c, "account")
  /\ UNCHANGED <<granted, stage, current, raced, writes>>

(* A database error; also when it was closed in the meantime. *)
StoreFails(c) ==
  /\ call[c].pc = "store"
  /\ Leave(c)
  /\ UNCHANGED <<granted, stage, storeVars>>

(* currentSize follows. *)
Account(c) ==
  /\ call[c].pc = "account"
  /\ current' = [current EXCEPT ![call[c].inst] = Total(c)]
  /\ Leave(c)
  /\ UNCHANGED <<granted, stage, table, crossed, raced, writes>>

(* Close *)
CloseStore(i) == Move(i, "kvstore", "compiled") /\ UNCHANGED storeVars

StoreStep ==
  \/ \E i \in Instances :
       \/ \E c \in Calls, k \in Keys : \/ \E size \in Sizes : Set(c, i, k, size)
                                       \/ Delete(c, i, k)
       \/ CloseStore(i)
  \/ \E c \in Calls : Check(c) \/ Store(c) \/ StoreFails(c) \/ Account(c)

StoreTypeOK ==
  /\ table \in [Keys -> Nat]
  /\ current \in [Instances -> Int]
  /\ crossed \subseteq Instances
  /\ raced \in BOOLEAN
  /\ writes \in 0..MaxWrites

(* What a write adds, and the writes that instance i has still to count. *)
Owed == [c \in Calls |-> call[c].num - call[c].old]
Accounting(i) == {c \in Calls : call[c].pc = "account" /\ call[c].inst = i}
Pending(i) == SumFunctionOnSet(Owed, Accounting(i))

(* The size an instance counts is the size its values take, but for writes  *)
(* it is still to count, however Set and Delete of different keys            *)
(* interleave; and while no check raced with a write and no writers crossed, *)
(* the limit holds.                                                          *)
StorageAccounted ==
  /\ \A i \in Instances : Open(i) /\ i \notin crossed => current[i] + Pending(i) = Used
  /\ ~raced /\ crossed = {} => Used <= MaxSize

----------------------------------------------------------------------------
(* Why StorageAccounted holds: the inductive invariant of its proof.         *)

(* A write belongs to an instance that was loaded, and to a key.             *)
WritesPlaced ==
  \A c \in Calls : call[c].pc \in {"check", "store", "account"} =>
    /\ call[c].inst \in Instances /\ stage[call[c].inst] # "new"
    /\ call[c].name \in Keys

(* Two writers of a key are noticed. *)
WritersCrossed ==
  \A c, d \in Calls : c # d /\ Writing(c, call[c].name) /\ Writing(d, call[c].name) =>
    call[c].inst \in crossed

(* The size a writer has read is the size of the row still. *)
OldRead ==
  \A c \in Calls :
    /\ call[c].pc \in {"check", "store"}
    /\ Open(call[c].inst) /\ call[c].inst \notin crossed
    => call[c].old = table[call[c].name]

(* Of the writes that may add to the store one at a time has passed the     *)
(* check, and there is room for it whatever is deleted meanwhile.            *)
OneAdds ==
  ~raced => \A c, d \in Calls :
    /\ call[c].pc = "store" /\ call[c].num # 0
    /\ call[d].pc = "store" /\ call[d].num # 0
    => c = d

RoomLeft ==
  ~raced /\ crossed = {} => \A c \in Calls :
    call[c].pc = "store" /\ Open(call[c].inst) => Used + call[c].num - call[c].old <= MaxSize

StoreInvariant == WritesPlaced /\ WritersCrossed /\ OldRead /\ OneAdds /\ RoomLeft
                    /\ StorageAccounted
=============================================================================
