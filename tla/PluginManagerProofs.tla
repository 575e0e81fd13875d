------------------------- MODULE PluginManagerProofs -------------------------
(***************************************************************************)
(* What TLAPS proves of PluginManager for every set of operations, builds   *)
(* and bounds.                                                             *)
(***************************************************************************)
EXTENDS PluginManager, SequenceTheorems, TLAPS

(* The row an operation has read, and what a step may leave in op.          *)
LEMMA NoRowIsRow == NoRow \in Rows
BY DEF NoRow, Rows

LEMMA FreshIsRow ==
  ASSUME NEW b \in Builds PROVE Fresh(b) \in Rows
BY DEF Fresh, Rows

LEMMA ChangedRow ==
  ASSUME NEW r \in Rows, NEW e \in BOOLEAN, NEW x \in BOOLEAN, NEW u \in BOOLEAN,
         NEW b \in Builds \cup {None}
  PROVE  /\ [r EXCEPT !.enabled = e] \in Rows
         /\ [r EXCEPT !.error = x] \in Rows
         /\ [r EXCEPT !.users = u] \in Rows
         /\ [r EXCEPT !.enabled = e, !.error = x] \in Rows
         /\ [r EXCEPT !.build = b, !.enabled = e, !.error = x] \in Rows
         /\ [r EXCEPT !.users = u, !.enabled = e] \in Rows
         /\ [[r EXCEPT !.users = u] EXCEPT !.enabled = e] \in Rows
BY DEF Rows

LEMMA RowFields ==
  ASSUME NEW r \in Rows
  PROVE  r.build \in Builds \cup {None} /\ r.enabled \in BOOLEAN /\ r.error \in BOOLEAN
         /\ r.users \in BOOLEAN
BY DEF Rows

LEMMA IdleIsOp == Idle \in OpType /\ Idle.inst = 0 /\ Idle.pc = "idle"
BY NoRowIsRow DEF Idle, OpType, Kinds

LEMMA OpFields ==
  ASSUME NEW o \in OpType
  PROVE  o.row \in Rows /\ o.todo \in Seq(Steps) /\ o.inst \in Nat
         /\ o.seen \in Builds \cup {None} /\ o.kind \in Kinds
BY DEF OpType

(* The steps of todo. *)
LEMMA Programs ==
  /\ <<>> \in Seq(Steps) /\ <<"put">> \in Seq(Steps) /\ <<"unload">> \in Seq(Steps)
  /\ <<"delete">> \in Seq(Steps) /\ <<"load">> \in Seq(Steps)
  /\ <<"load", "put">> \in Seq(Steps) /\ <<"unload", "put">> \in Seq(Steps)
  /\ <<"put", "unload", "load">> \in Seq(Steps)
<1>1. "put" \in Steps /\ "unload" \in Steps /\ "delete" \in Steps /\ "load" \in Steps
  BY DEF Steps
<1> DEFINE S == Steps
<1>2. "put" \in S /\ "unload" \in S /\ "delete" \in S /\ "load" \in S
  BY <1>1
<1> HIDE DEF S
<1>3. /\ <<>> \in Seq(S) /\ <<"put">> \in Seq(S) /\ <<"unload">> \in Seq(S)
      /\ <<"delete">> \in Seq(S) /\ <<"load">> \in Seq(S)
      /\ <<"load", "put">> \in Seq(S) /\ <<"unload", "put">> \in Seq(S)
      /\ <<"put", "unload", "load">> \in Seq(S)
  BY <1>2
<1> QED BY <1>3 DEF S

LEMMA UnloadIfSteps ==
  ASSUME NEW r \in Rows, NEW step \in {"put", "delete"}
  PROVE  UnloadIf(r, step) \in Seq(Steps)
<1> DEFINE S == Steps
<1>1. "unload" \in S /\ step \in S
  BY DEF Steps
<1> HIDE DEF S
<1>2. <<"unload", step>> \in Seq(S) /\ <<step>> \in Seq(S)
  BY <1>1
<1> QED BY <1>2 DEF UnloadIf, S

LEMMA TailSteps ==
  ASSUME NEW todo \in Seq(Steps), Head(todo) \in Steps \/ todo # <<>>
  PROVE  todo # <<>> => Tail(todo) \in Seq(Steps)
<1> DEFINE S == Steps
<1>1. todo \in Seq(S)
  OBVIOUS
<1> HIDE DEF S
<1>2. todo # <<>> => Tail(todo) \in Seq(S)
  BY <1>1
<1> QED BY <1>2 DEF S

(* Whatever Run is called with, the operation runs on, or is idle, or turns  *)
(* to the second half of Start; it holds no instance, and nobody else moves. *)
RunPcs == {"run", "enabled", "watch", "idle"}

LEMMA RunTypes ==
  ASSUME op \in [Ops -> OpType], NEW g \in Ops, NEW r \in Rows, NEW todo \in Seq(Steps),
         Run(g, r, todo)
  PROVE  /\ op' \in [Ops -> OpType]
         /\ op'[g].inst = 0 /\ op'[g].pc \in RunPcs
         /\ op'[g].pc = "run" => op'[g].todo # <<>>
         /\ \A h \in Ops \ {g} : op'[h] = op[h]
<1>1. op[g] \in OpType
  OBVIOUS
<1>2. [op[g] EXCEPT !.pc = "run", !.row = r, !.todo = todo, !.inst = 0] \in OpType
  BY <1>1 DEF OpType
<1>3. [Idle EXCEPT !.pc = "enabled", !.kind = "load"] \in OpType
      /\ [Idle EXCEPT !.pc = "watch"] \in OpType
  BY IdleIsOp DEF OpType, Kinds
<1> DEFINE o == IF todo # <<>> THEN [op[g] EXCEPT !.pc = "run", !.row = r, !.todo = todo, !.inst = 0]
                ELSE CASE op[g].kind = "start" -> [Idle EXCEPT !.pc = "enabled", !.kind = "load"]
                       [] op[g].kind = "load" -> [Idle EXCEPT !.pc = "watch"]
                       [] OTHER -> Idle
<1>4. op' = [op EXCEPT ![g] = o]
  BY DEF Run, Set
<1>5. o \in OpType /\ o.inst = 0 /\ o.pc \in RunPcs /\ (o.pc = "run" => o.todo # <<>>)
  <2>1. CASE todo # <<>>
    BY <1>1, <1>2, <2>1 DEF OpType, RunPcs
  <2>2. CASE todo = <<>> /\ op[g].kind = "start"
    BY <1>3, <2>2, IdleIsOp DEF OpType, RunPcs
  <2>3. CASE todo = <<>> /\ op[g].kind = "load"
    BY <1>3, <2>3, IdleIsOp DEF OpType, RunPcs
  <2>4. CASE todo = <<>> /\ op[g].kind \notin {"start", "load"}
    BY <2>4, IdleIsOp DEF RunPcs
  <2> QED BY <2>1, <2>2, <2>3, <2>4
<1> HIDE DEF o
<1> QED BY <1>4, <1>5

LEMMA SetTypes ==
  ASSUME op \in [Ops -> OpType], NEW g \in Ops, NEW o \in OpType, Set(g, o)
  PROVE  /\ op' \in [Ops -> OpType] /\ op'[g] = o
         /\ \A h \in Ops \ {g} : op'[h] = op[h]
BY DEF Set

----------------------------------------------------------------------------
(* Types *)

(* The programs that begin when the row or the file has been looked at.      *)
LEMMA AdoptTypes ==
  ASSUME TypeOK, NEW g \in Ops, NEW r \in Rows, Adopt(g, r) \/ Remove(g, r)
  PROVE  /\ op' \in [Ops -> OpType]
         /\ op'[g].inst = 0 /\ op'[g].pc \in RunPcs
         /\ op'[g].pc = "run" => op'[g].todo # <<>>
         /\ \A h \in Ops \ {g} : op'[h] = op[h]
<1>1. op \in [Ops -> OpType] /\ file \in Builds \cup {None}
  BY DEF TypeOK
<1>2. ASSUME NEW s \in Rows, NEW todo \in Seq(Steps), Run(g, s, todo)
      PROVE  /\ op' \in [Ops -> OpType]
             /\ op'[g].inst = 0 /\ op'[g].pc \in RunPcs
             /\ op'[g].pc = "run" => op'[g].todo # <<>>
             /\ \A h \in Ops \ {g} : op'[h] = op[h]
  BY <1>1, <1>2, RunTypes
<1>3. CASE Done(g)
  BY <1>2, <1>3, NoRowIsRow, Programs DEF Done
<1>4. UnloadIf(r, "put") \in Seq(Steps) /\ UnloadIf(r, "delete") \in Seq(Steps)
  BY UnloadIfSteps, Programs
<1>5. [r EXCEPT !.build = file, !.enabled = FALSE, !.error = FALSE] \in Rows
      /\ [r EXCEPT !.enabled = FALSE, !.error = TRUE] \in Rows
  BY <1>1, ChangedRow
<1>6. CASE Adopt(g, r)
  <2>1. CASE Readable(file) /\ stopper = "no" /\ r.build = None
    <3>1. Fresh(file) \in Rows
      BY <1>1, <2>1, FreshIsRow DEF Readable
    <3>2. Run(g, Fresh(file), <<"put">>)
      BY <1>6, <2>1 DEF Adopt
    <3> QED BY <1>2, <3>1, <3>2, Programs
  <2>2. CASE Readable(file) /\ stopper = "no" /\ r.build # None
    <3>1. Run(g, [r EXCEPT !.build = file, !.enabled = FALSE, !.error = FALSE],
              UnloadIf(r, "put"))
      BY <1>6, <2>2 DEF Adopt
    <3> QED BY <1>2, <1>4, <1>5, <3>1
  <2>3. CASE ~(Readable(file) /\ stopper = "no")
    <3>1. Done(g) \/ Run(g, [r EXCEPT !.enabled = FALSE, !.error = TRUE], UnloadIf(r, "put"))
      BY <1>6, <2>3 DEF Adopt
    <3> QED BY <1>2, <1>3, <1>4, <1>5, <3>1
  <2> QED BY <2>1, <2>2, <2>3
<1>7. CASE Remove(g, r)
  <2>1. Done(g) \/ Run(g, r, UnloadIf(r, "delete"))
    BY <1>7 DEF Remove
  <2> QED BY <1>2, <1>3, <1>4, <2>1
<1> QED BY <1>6, <1>7

(* An operation goes from one place to another where it holds no instance    *)
(* and loads nothing.                                                       *)
Holding == {"register", "closing"}

Loading == {"compile", "register", "init"}

Midway == {"run", "closing", "enter", "compile", "register", "init"}

PlainPcs == {"idle", "get", "list", "rows", "compare", "react", "run", "enter", "enabled", "watch"}

Moves(g) ==
  /\ op' \in [Ops -> OpType]
  /\ op'[g].inst = 0 /\ op'[g].pc \in PlainPcs
  /\ op'[g].pc \in Midway => op'[g].todo # <<>>
  /\ \A h \in Ops \ {g} : op'[h] = op[h]

EmptyHanded == \A g \in Ops : op[g].pc \notin Holding => op[g].inst = 0

LEMMA RunMoves ==
  ASSUME TypeOK, NEW g \in Ops, NEW r \in Rows, NEW todo \in Seq(Steps), Run(g, r, todo)
  PROVE  Moves(g)
BY RunTypes DEF TypeOK, Moves, RunPcs, PlainPcs, Midway

LEMMA DoneMoves ==
  ASSUME TypeOK, NEW g \in Ops, Done(g)
  PROVE  Moves(g)
BY RunMoves, NoRowIsRow, Programs DEF Done

LEMMA ProceedMoves ==
  ASSUME TypeOK, NEW g \in Ops, op[g].todo # <<>>, Proceed(g)
  PROVE  Moves(g)
<1>1. op[g] \in OpType
  BY DEF TypeOK
<1>2. op[g].row \in Rows /\ Tail(op[g].todo) \in Seq(Steps)
  BY <1>1, OpFields, TailSteps
<1> QED BY <1>2, RunMoves DEF Proceed

LEMMA LoadFailsMoves ==
  ASSUME TypeOK, NEW g \in Ops, LoadFails(g)
  PROVE  Moves(g)
<1>1. op[g] \in OpType
  BY DEF TypeOK
<1>2. [op[g].row EXCEPT !.enabled = FALSE, !.error = TRUE] \in Rows
  BY <1>1, OpFields, ChangedRow
<1> QED BY <1>2, RunMoves, Programs DEF LoadFails

LEMMA BeginMoves ==
  ASSUME TypeOK, NEW g \in Ops, NEW kind \in Kinds, NEW pc \in {"get", "list", "react"},
         NEW seen \in Builds \cup {None}, Begin(g, kind, pc, seen)
  PROVE  Moves(g) /\ op[g].pc = "idle" /\ overlapped' \in BOOLEAN
<1>1. [Idle EXCEPT !.pc = pc, !.kind = kind, !.seen = seen] \in OpType
  BY IdleIsOp DEF OpType
<1>2. [Idle EXCEPT !.pc = pc, !.kind = kind, !.seen = seen].inst = 0
      /\ [Idle EXCEPT !.pc = pc, !.kind = kind, !.seen = seen].pc = pc
  BY IdleIsOp DEF Idle
<1>3. Set(g, [Idle EXCEPT !.pc = pc, !.kind = kind, !.seen = seen])
  BY DEF Begin
<1>4. op \in [Ops -> OpType]
  BY DEF TypeOK
<1>5. Moves(g)
  BY <1>1, <1>2, <1>3, <1>4, SetTypes DEF Moves, PlainPcs, Midway
<1> QED BY <1>5 DEF Begin, TypeOK

(* What an operation decides when it has read the row. *)
LEMMA DecideMoves ==
  ASSUME TypeOK, EmptyHanded, NEW g \in Ops, Decide(g)
  PROVE  /\ Moves(g) /\ op[g].pc \in PlainPcs
         /\ UNCHANGED <<file, row, manager, orphaned, overwritten, overlapped, missed>>
<1>1. op[g] \in OpType /\ row \in Rows /\ file \in Builds \cup {None}
  BY DEF TypeOK
<1>2. op[g].row \in Rows
  BY <1>1, OpFields
<1>3. ASSUME NEW r \in Rows, NEW todo \in Seq(Steps), Run(g, r, todo)
      PROVE  Moves(g)
  BY <1>3, RunMoves
<1>4. ASSUME Done(g) PROVE Moves(g)
  BY <1>4, DoneMoves
<1>5. ASSUME NEW r \in Rows, Adopt(g, r) \/ Remove(g, r) PROVE Moves(g)
  BY <1>5, AdoptTypes DEF Moves, RunPcs, PlainPcs, Midway
<1>6. ASSUME NEW pc \in {"rows", "compare"}, NEW r \in Rows, NEW b \in Builds \cup {None},
             op[g].inst = 0, Set(g, [op[g] EXCEPT !.pc = pc, !.row = r, !.seen = b])
      PROVE  Moves(g)
  <2>1. [op[g] EXCEPT !.pc = pc, !.row = r, !.seen = b] \in OpType
    BY <1>1, <1>6 DEF OpType
  <2>2. [op[g] EXCEPT !.pc = pc, !.row = r, !.seen = b].inst = 0
        /\ [op[g] EXCEPT !.pc = pc, !.row = r, !.seen = b].pc = pc
    BY <1>1, <1>6 DEF OpType
  <2> QED BY <1>6, <2>1, <2>2, SetTypes DEF Moves, PlainPcs, Midway, TypeOK
<1>7. CASE EnablePlugin(g)
  <2>1. Done(g) \/ Run(g, [row EXCEPT !.enabled = TRUE, !.error = FALSE], <<"load", "put">>)
    BY <1>7 DEF EnablePlugin
  <2>2. Moves(g)
    BY <1>1, <1>3, <1>4, <2>1, ChangedRow, Programs
  <2> QED BY <1>7, <2>2 DEF EnablePlugin, Decides, At, PlainPcs, history
<1>8. CASE DisablePlugin(g)
  <2>1. Done(g) \/ Run(g, [row EXCEPT !.enabled = FALSE], <<"unload", "put">>)
    BY <1>8 DEF DisablePlugin
  <2>2. Moves(g)
    BY <1>1, <1>3, <1>4, <2>1, ChangedRow, Programs
  <2> QED BY <1>8, <2>2 DEF DisablePlugin, Decides, At, PlainPcs, history
<1>9. CASE UpdatePluginSettings(g)
  <2>1. PICK u \in BOOLEAN :
          \/ Done(g) \/ Run(g, [row EXCEPT !.users = u], <<"put">>)
          \/ Run(g, [[row EXCEPT !.users = u] EXCEPT !.enabled = FALSE], <<"unload", "put">>)
          \/ Run(g, [row EXCEPT !.users = u], <<"put", "unload", "load">>)
    BY <1>9 DEF UpdatePluginSettings
  <2>2. [row EXCEPT !.users = u] \in Rows
        /\ [[row EXCEPT !.users = u] EXCEPT !.enabled = FALSE] \in Rows
    BY <1>1, ChangedRow
  <2>3. Moves(g)
    BY <1>3, <1>4, <2>1, <2>2, Programs
  <2> QED BY <1>9, <2>3 DEF UpdatePluginSettings, Decides, At, PlainPcs, history
<1>10. CASE UnloadDisabledPlugins(g)
  <2>1. Done(g) \/ Run(g, row, <<"unload">>)
    BY <1>10 DEF UnloadDisabledPlugins
  <2>2. Moves(g)
    BY <1>1, <1>3, <1>4, <2>1, Programs
  <2> QED BY <1>10, <2>2 DEF UnloadDisabledPlugins, Decides, At, PlainPcs, history
<1>11. CASE ReadFolder(g)
  <2>1. op[g].pc = "list" /\ op[g].inst = 0
    BY <1>11 DEF ReadFolder, At, EmptyHanded, Holding
  <2>2. Set(g, [op[g] EXCEPT !.pc = "rows", !.seen = file])
    BY <1>11 DEF ReadFolder
  <2>3. [op[g] EXCEPT !.pc = "rows", !.seen = file]
          = [op[g] EXCEPT !.pc = "rows", !.row = op[g].row, !.seen = file]
    BY <1>1 DEF OpType
  <2>4. Moves(g)
    BY <1>1, <1>2, <1>6, <2>1, <2>2, <2>3
  <2> QED BY <1>11, <2>4 DEF ReadFolder, At, PlainPcs, history
<1>12. CASE ReadRows(g)
  <2>1. op[g].pc = "rows" /\ op[g].inst = 0
    BY <1>12 DEF ReadRows, At, EmptyHanded, Holding
  <2>2. Set(g, [op[g] EXCEPT !.pc = "compare", !.row = row]) \/ Done(g)
    BY <1>12 DEF ReadRows
  <2>3. [op[g] EXCEPT !.pc = "compare", !.row = row]
          = [op[g] EXCEPT !.pc = "compare", !.row = row, !.seen = op[g].seen]
        /\ op[g].seen \in Builds \cup {None}
    BY <1>1 DEF OpType
  <2>4. Moves(g)
    BY <1>1, <1>4, <1>6, <2>1, <2>2, <2>3
  <2> QED BY <1>12, <2>4 DEF ReadRows, At, PlainPcs
<1>13. CASE Compare(g)
  <2>1. Remove(g, op[g].row) \/ Done(g) \/ Adopt(g, op[g].row)
    BY <1>13 DEF Compare
  <2>2. Moves(g)
    BY <1>2, <1>4, <1>5, <2>1
  <2> QED BY <1>13, <2>2 DEF Compare, At, PlainPcs, history
<1>14. CASE React(g)
  <2>1. PICK known \in {row, NoRow} : Remove(g, known) \/ Done(g) \/ Adopt(g, known)
    BY <1>14 DEF React
  <2>2. known \in Rows
    BY <1>1, <2>1, NoRowIsRow
  <2>3. Moves(g)
    BY <1>4, <1>5, <2>1, <2>2
  <2> QED BY <1>14, <2>3 DEF React, At, PlainPcs
<1> QED BY <1>7, <1>8, <1>9, <1>10, <1>11, <1>12, <1>13, <1>14 DEF Decide

----------------------------------------------------------------------------
(* Who holds which instance *)

(* An operation that registers or closes an instance has it to itself, and it *)
(* is not in the map; one that is being registered is open, as is the map's.  *)
Owned ==
  /\ EmptyHanded
  /\ \A g \in Ops : op[g].pc \in Holding =>
       op[g].inst \in 1 .. Len(insts) /\ op[g].inst # map
  /\ \A g, h \in Ops :
       op[g].pc \in Holding /\ op[h].pc \in Holding /\ op[g].inst = op[h].inst => g = h
  /\ \A g \in Ops : op[g].pc = "register" => insts[op[g].inst].open
  /\ MapNeverClosed

Known ==
  \A i \in 1 .. Len(insts) :
    insts[i].open => i = map \/ i \in orphaned \cup overwritten \/ \E g \in Ops : op[g].inst = i

(* loadWg counts the operations between its Add and its Done. *)
Counted ==
  /\ \A g \in Ops : op[g].pc \in Loading <=> g \in loading
  /\ stopper = "done" => loading = {} /\ map = 0

(* In the middle of a program there is a step left. *)
Programmed == \A g \in Ops : op[g].pc \in Midway => op[g].todo # <<>>

IInv == TypeOK /\ Owned /\ Known /\ Counted /\ Programmed

(* A plain move changes nothing of this, as long as the rest stays. *)
LEMMA PlainStep ==
  ASSUME IInv, NEW g \in Ops, op[g].pc \in PlainPcs, Moves(g),
         UNCHANGED <<insts, map, loading, stopper, orphaned, overwritten>>
  PROVE  (Owned /\ Known /\ Counted /\ Programmed)'
<1>1. op[g].pc \notin Holding /\ op[g].pc \notin Loading /\ op'[g].pc \notin Holding
      /\ op'[g].pc \notin Loading /\ op'[g].pc # "register"
  BY DEF Moves, PlainPcs, Midway, Holding, Loading
<1>2. op[g].inst = 0 /\ op'[g].inst = 0
  BY <1>1 DEF IInv, Owned, EmptyHanded, Moves
<1>3. ASSUME NEW h \in Ops, op'[h].pc \in Holding \/ op'[h].pc = "register"
      PROVE  h # g /\ op'[h] = op[h]
  BY <1>1, <1>3 DEF Moves
<1>4. Owned'
  <2>1. EmptyHanded'
    BY <1>2 DEF IInv, Owned, EmptyHanded, Moves
  <2>2. ASSUME NEW h \in Ops, op'[h].pc \in Holding
        PROVE  op'[h].inst \in 1 .. Len(insts') /\ op'[h].inst # map'
    BY <1>3, <2>2 DEF IInv, Owned
  <2>3. ASSUME NEW h \in Ops, NEW k \in Ops, op'[h].pc \in Holding, op'[k].pc \in Holding,
               op'[h].inst = op'[k].inst
        PROVE  h = k
    BY <1>3, <2>3 DEF IInv, Owned
  <2>4. ASSUME NEW h \in Ops, op'[h].pc = "register"
        PROVE  insts'[op'[h].inst].open
    BY <1>3, <2>4 DEF IInv, Owned
  <2>5. MapNeverClosed'
    BY DEF IInv, Owned, MapNeverClosed
  <2> QED BY <2>1, <2>2, <2>3, <2>4, <2>5 DEF Owned
<1>5. Known'
  <2> SUFFICES ASSUME NEW i \in 1 .. Len(insts), insts[i].open,
                      i # map, i \notin orphaned \cup overwritten
               PROVE  \E h \in Ops : op'[h].inst = i
    BY DEF Known
  <2>1. PICK h \in Ops : op[h].inst = i
    BY DEF IInv, Known
  <2>2. h # g
    BY <1>2, <2>1
  <2> QED BY <2>1, <2>2 DEF Moves
<1>6. Counted'
  BY <1>1 DEF IInv, Counted, Moves
<1>7. Programmed'
  BY DEF IInv, Programmed, Moves
<1> QED BY <1>4, <1>5, <1>6, <1>7

(* What a step does to what the invariant looks at besides op. *)
LEMMA UsedTypes ==
  ASSUME TypeOK, NEW what \in {"calls", "changes", "faults"}, Count(what) \/ UNCHANGED used
  PROVE  used' \in [{"calls", "changes", "faults"} -> Nat]
BY DEF TypeOK, Count

(* The steps that neither make, close, load nor register an instance. *)
LEMMA PlainTypes ==
  ASSUME TypeOK, NEW g \in Ops, Moves(g),
         UNCHANGED <<file, insts, map, loading, stopper, orphaned, overwritten, missed>>,
         row' \in Rows, started' \in {"no", "running", "yes"},
         watching' \in BOOLEAN, armed' \in BOOLEAN, overlapped' \in BOOLEAN,
         faulted' \in BOOLEAN, used' \in [{"calls", "changes", "faults"} -> Nat]
  PROVE  TypeOK'
BY DEF TypeOK, Moves

LEMMA RequestStep ==
  ASSUME IInv, NEW g \in Ops, Call(g) \/ DeleteUser(g) \/ StartManager(g) \/ Fire(g)
  PROVE  IInv'
<1>1. TypeOK
  BY DEF IInv
<1>2. Moves(g) /\ op[g].pc = "idle" /\ overlapped' \in BOOLEAN
  <2>1. CASE Call(g)
    <3>1. \E k \in Kinds, pc \in {"get", "list", "react"}, b \in Builds \cup {None} :
            Begin(g, k, pc, b)
      BY <2>1 DEF Call, Kinds
    <3> QED BY <1>1, <3>1, BeginMoves
  <2>2. CASE DeleteUser(g)
    BY <1>1, <2>2, BeginMoves DEF DeleteUser, Kinds
  <2>3. CASE StartManager(g)
    BY <1>1, <2>3, BeginMoves DEF StartManager, Kinds
  <2>4. CASE Fire(g)
    BY <1>1, <2>4, BeginMoves DEF Fire, Kinds, TypeOK
  <2> QED BY <2>1, <2>2, <2>3, <2>4
<1>3. UNCHANGED <<file, insts, map, loading, stopper, orphaned, overwritten, missed, faulted>>
  BY DEF Call, DeleteUser, StartManager, Fire, manager
<1>4. row' \in Rows
  <2>1. CASE DeleteUser(g)
    <3>1. row \in Rows /\ (row.enabled /\ row.build \notin Gated) \in BOOLEAN
      BY <1>1, RowFields DEF TypeOK
    <3>2. row' = [row EXCEPT !.users = FALSE, !.enabled = row.enabled /\ row.build \notin Gated]
      BY <2>1 DEF DeleteUser
    <3> QED BY <3>1, <3>2, ChangedRow
  <2>2. CASE UNCHANGED row
    BY <1>1, <2>2 DEF TypeOK
  <2> QED BY <2>1, <2>2 DEF Call, StartManager, Fire
<1>5. used' \in [{"calls", "changes", "faults"} -> Nat]
  BY <1>1, UsedTypes DEF Call, DeleteUser, StartManager, Fire
<1>6. started' \in {"no", "running", "yes"} /\ watching' \in BOOLEAN /\ armed' \in BOOLEAN
  BY <1>1 DEF TypeOK, Call, DeleteUser, StartManager, Fire, manager
<1>7. TypeOK'
  <2>1. faulted' \in BOOLEAN
    BY <1>1, <1>3 DEF TypeOK
  <2> QED BY <1>1, <1>2, <1>3, <1>4, <1>5, <1>6, <2>1, PlainTypes
<1> QED BY <1>2, <1>3, <1>7, PlainStep DEF IInv, PlainPcs

LEMMA DecideStep ==
  ASSUME IInv, NEW g \in Ops, Decide(g)
  PROVE  IInv'
<1>1. TypeOK /\ EmptyHanded
  BY DEF IInv, Owned
<1>2. /\ Moves(g) /\ op[g].pc \in PlainPcs
      /\ UNCHANGED <<file, row, manager, orphaned, overwritten, overlapped, missed>>
  BY <1>1, DecideMoves
<1>3. used' \in [{"calls", "changes", "faults"} -> Nat] /\ faulted' \in BOOLEAN
  <2>1. \/ UNCHANGED <<used, faulted>>
        \/ Fault
    BY DEF Decide, EnablePlugin, DisablePlugin, UpdatePluginSettings, UnloadDisabledPlugins,
           ReadFolder, ReadRows, Compare, React, Decides, NoFault, history
  <2>2. CASE Fault
    BY <1>1, <2>2, UsedTypes DEF Fault
  <2>3. CASE UNCHANGED <<used, faulted>>
    BY <1>1, <2>3 DEF TypeOK
  <2> QED BY <2>1, <2>2, <2>3
<1>4. TypeOK'
  BY <1>1, <1>2, <1>3, PlainTypes DEF manager, TypeOK
<1> QED BY <1>2, <1>4, PlainStep DEF IInv, manager

(* The steps of Start that are not those of the operations it runs. *)
LEMMA StartStep ==
  ASSUME IInv, NEW g \in Ops, LoadEnabledPlugins(g) \/ StartWatcher(g)
  PROVE  IInv'
<1>1. TypeOK
  BY DEF IInv
<1>2. Moves(g) /\ op[g].pc \in PlainPcs
  <2>1. CASE LoadEnabledPlugins(g)
    <3>1. [row EXCEPT !.error = FALSE] \in Rows
      BY <1>1, ChangedRow DEF TypeOK
    <3>2. \/ Run(g, [row EXCEPT !.error = FALSE], <<"load", "put">>)
          \/ Run(g, [row EXCEPT !.error = FALSE], <<"load">>)
          \/ Done(g)
      BY <2>1 DEF LoadEnabledPlugins
    <3> QED BY <1>1, <2>1, <3>1, <3>2, RunMoves, DoneMoves, Programs
            DEF LoadEnabledPlugins, At, PlainPcs
  <2>2. CASE StartWatcher(g)
    <3>1. Set(g, Idle) /\ op[g].pc = "watch" /\ op \in [Ops -> OpType]
      BY <1>1, <2>2 DEF StartWatcher, At, TypeOK
    <3> QED BY <3>1, IdleIsOp, SetTypes DEF Moves, PlainPcs, Midway
  <2> QED BY <2>1, <2>2
<1>3. /\ UNCHANGED <<file, row, insts, map, loading, stopper, armed, history, used>>
      /\ started' \in {"no", "running", "yes"} /\ watching' \in BOOLEAN
  BY <1>1, PluginAssumption DEF TypeOK, LoadEnabledPlugins, StartWatcher, manager
<1>4. TypeOK'
  BY <1>1, <1>2, <1>3, PlainTypes DEF TypeOK, history
<1> QED BY <1>2, <1>3, <1>4, PlainStep DEF IInv, history

(* The rest of a program that has begun. *)
LEMMA RestOfProgram ==
  ASSUME TypeOK, Programmed, NEW g \in Ops, op[g].pc \in Midway
  PROVE  Tail(op[g].todo) \in Seq(Steps)
BY OpFields, TailSteps DEF TypeOK, Programmed

LEMMA CheckStoppedStep ==
  ASSUME IInv, NEW g \in Ops, CheckStopped(g)
  PROVE  IInv'
<1>1. TypeOK /\ op[g] \in OpType /\ op \in [Ops -> OpType]
  BY DEF IInv, TypeOK
<1>2. op[g].pc = "run" /\ op[g].inst = 0
  BY DEF IInv, Owned, EmptyHanded, Holding, CheckStopped, Due, At
<1>3. Moves(g)
  <2>1. CASE LoadFails(g)
    BY <1>1, <2>1, LoadFailsMoves
  <2>2. CASE Set(g, [op[g] EXCEPT !.pc = "enter"])
    <3>1. [op[g] EXCEPT !.pc = "enter"] \in OpType
          /\ [op[g] EXCEPT !.pc = "enter"].inst = 0 /\ [op[g] EXCEPT !.pc = "enter"].pc = "enter"
          /\ [op[g] EXCEPT !.pc = "enter"].todo # <<>>
      BY <1>1, <1>2 DEF OpType, IInv, Programmed, Midway
    <3> QED BY <1>1, <2>2, <3>1, SetTypes DEF Moves, PlainPcs, Midway
  <2> QED BY <2>1, <2>2 DEF CheckStopped
<1>4. UNCHANGED <<file, row, manager, history, used>>
  BY DEF CheckStopped
<1>5. TypeOK'
  BY <1>1, <1>3, <1>4, PlainTypes DEF TypeOK, manager, history
<1> QED BY <1>2, <1>3, <1>4, <1>5, PlainStep DEF IInv, PlainPcs, manager, history

LEMMA PutStep ==
  ASSUME IInv, NEW g \in Ops, Put(g) \/ Delete(g)
  PROVE  IInv'
<1>1. TypeOK /\ op[g] \in OpType /\ op[g].row \in Rows
  BY OpFields DEF IInv, TypeOK
<1>2. op[g].pc = "run"
  BY DEF Put, Delete, Due, At
<1>3. /\ UNCHANGED <<file, manager, orphaned, overwritten, overlapped, missed>>
      /\ Fault \/ NoFault
      /\ row' = row \/ row' = op[g].row \/ row' = NoRow
      /\ \/ Run(g, op[g].row, <<"unload">>) \/ Done(g)
         \/ Run(g, op[g].row, Tail(op[g].todo))
  BY DEF Put, Delete, Proceed
<1>4. Tail(op[g].todo) \in Seq(Steps)
  BY <1>1, <1>2, RestOfProgram DEF IInv, Midway
<1>5. Moves(g)
  BY <1>1, <1>3, <1>4, RunMoves, DoneMoves, Programs
<1>6. used' \in [{"calls", "changes", "faults"} -> Nat] /\ faulted' \in BOOLEAN
  <2>1. CASE Fault
    BY <1>1, <2>1, UsedTypes DEF Fault
  <2>2. CASE NoFault
    BY <1>1, <2>2 DEF TypeOK, NoFault
  <2> QED BY <1>3, <2>1, <2>2
<1>7. row' \in Rows
  BY <1>1, <1>3, NoRowIsRow DEF TypeOK
<1>8. TypeOK'
  BY <1>1, <1>3, <1>5, <1>6, <1>7, PlainTypes DEF TypeOK, manager
<1> QED BY <1>2, <1>3, <1>5, <1>8, PlainStep DEF IInv, PlainPcs, manager

----------------------------------------------------------------------------
(* The steps that make, load, register and close instances *)

(* An operation takes an instance: it is the first to hold it. *)
LEMMA Take ==
  ASSUME TypeOK, NEW g \in Ops, NEW pc \in Holding, NEW i \in Nat,
         op[g].todo # <<>>, Set(g, [op[g] EXCEPT !.pc = pc, !.inst = i])
  PROVE  /\ op' \in [Ops -> OpType]
         /\ op'[g].pc = pc /\ op'[g].inst = i /\ op'[g].todo # <<>>
         /\ \A h \in Ops \ {g} : op'[h] = op[h]
<1>1. op[g] \in OpType /\ op \in [Ops -> OpType]
  BY DEF TypeOK
<1>2. /\ [op[g] EXCEPT !.pc = pc, !.inst = i] \in OpType
      /\ [op[g] EXCEPT !.pc = pc, !.inst = i].pc = pc
      /\ [op[g] EXCEPT !.pc = pc, !.inst = i].inst = i
      /\ [op[g] EXCEPT !.pc = pc, !.inst = i].todo # <<>>
  BY <1>1 DEF OpType, Holding
<1> QED BY <1>1, <1>2, SetTypes

LEMMA UnloadStep ==
  ASSUME IInv, NEW g \in Ops, Unload(g)
  PROVE  IInv'
<1>1. TypeOK /\ op[g].pc = "run" /\ op[g].todo # <<>>
  BY DEF IInv, Unload, Due, At, Programmed, Midway
<1>2. CASE map = 0
  <2>1. Moves(g)
    BY <1>1, <1>2, ProceedMoves DEF Unload
  <2>2. /\ UNCHANGED <<file, row, insts, map, loading, started, stopper, watching, armed,
                       history, used>>
    BY <1>2 DEF Unload
  <2>3. TypeOK'
    BY <1>1, <2>1, <2>2, PlainTypes DEF TypeOK, history
  <2> QED BY <1>1, <2>1, <2>2, <2>3, PlainStep DEF IInv, PlainPcs, history
<1>3. CASE map # 0
  <2>1. Set(g, [op[g] EXCEPT !.pc = "closing", !.inst = map])
    BY <1>3 DEF Unload
  <2>2. map \in 1 .. Len(insts) /\ map \in Nat /\ insts \in Seq([users : BOOLEAN, open : BOOLEAN])
    BY <1>1, <1>3 DEF TypeOK
  <2>3. /\ op' \in [Ops -> OpType]
        /\ op'[g].pc = "closing" /\ op'[g].inst = map /\ op'[g].todo # <<>>
        /\ \A h \in Ops \ {g} : op'[h] = op[h]
    BY <1>1, <2>1, <2>2, Take DEF Holding
  <2>4. map' = 0 /\ UNCHANGED <<file, row, insts, loading, started, stopper, watching, armed,
                                history, used>>
    BY DEF Unload
  <2>5. TypeOK'
    BY <1>1, <2>2, <2>3, <2>4 DEF TypeOK, history
  <2>6. Owned'
    <3>1. EmptyHanded'
      BY <2>3 DEF IInv, Owned, EmptyHanded, Holding
    <3>2. ASSUME NEW h \in Ops, op'[h].pc \in Holding
          PROVE  op'[h].inst \in 1 .. Len(insts') /\ op'[h].inst # map'
      BY <2>2, <2>3, <2>4, <3>2 DEF IInv, Owned
    <3>3. ASSUME NEW h \in Ops, NEW k \in Ops, op'[h].pc \in Holding, op'[k].pc \in Holding,
                 op'[h].inst = op'[k].inst
          PROVE  h = k
      BY <2>3, <3>3 DEF IInv, Owned
    <3>4. ASSUME NEW h \in Ops, op'[h].pc = "register"
          PROVE  insts'[op'[h].inst].open
      BY <2>3, <2>4, <3>4 DEF IInv, Owned
    <3> QED BY <2>4, <3>1, <3>2, <3>3, <3>4 DEF Owned, MapNeverClosed
  <2>7. Known'
    <3> SUFFICES ASSUME NEW i \in 1 .. Len(insts), insts[i].open,
                        i \notin orphaned \cup overwritten
                 PROVE  \E h \in Ops : op'[h].inst = i
      BY <2>4 DEF Known, history
    <3>1. CASE i = map
      BY <2>3, <3>1
    <3>2. CASE i # map
      <4>1. PICK h \in Ops : op[h].inst = i
        BY <3>2 DEF IInv, Known
      <4>2. op[g].inst = 0
        BY <1>1 DEF IInv, Owned, EmptyHanded, Holding
      <4>3. h # g
        BY <4>1, <4>2
      <4> QED BY <2>3, <4>1, <4>3
    <3> QED BY <3>1, <3>2
  <2>8. Counted'
    BY <1>1, <2>3, <2>4 DEF IInv, Counted, Loading
  <2>9. Programmed'
    BY <2>3 DEF IInv, Programmed
  <2> QED BY <2>5, <2>6, <2>7, <2>8, <2>9 DEF IInv
<1> QED BY <1>2, <1>3

(* insts after one of its elements was closed. *)
LEMMA Closed ==
  ASSUME insts \in Seq([users : BOOLEAN, open : BOOLEAN]), NEW i \in 1 .. Len(insts),
         insts' = [insts EXCEPT ![i].open = FALSE]
  PROVE  /\ insts' \in Seq([users : BOOLEAN, open : BOOLEAN]) /\ Len(insts') = Len(insts)
         /\ ~insts'[i].open
         /\ \A j \in 1 .. Len(insts) : j # i => insts'[j] = insts[j]
<1> DEFINE S == [users : BOOLEAN, open : BOOLEAN]
           x == [insts[i] EXCEPT !.open = FALSE]
<1>1. insts \in Seq(S) /\ insts' = [insts EXCEPT ![i] = x]
  OBVIOUS
<1> HIDE DEF S, x
<1>2. insts[i] \in S
  BY <1>1
<1>3. x \in S /\ ~x.open
  BY <1>2 DEF S, x
<1>4. /\ [insts EXCEPT ![i] = x] \in Seq(S)
      /\ Len([insts EXCEPT ![i] = x]) = Len(insts)
      /\ \A j \in 1 .. Len(insts) : [insts EXCEPT ![i] = x][j] = IF j = i THEN x ELSE insts[j]
  <2>1. insts \in Seq(S) /\ x \in S
    BY <1>1, <1>3
  <2> QED BY <2>1, ExceptSeq
<1>5. insts' \in Seq(S) /\ Len(insts') = Len(insts) /\ insts'[i] = x
      /\ \A j \in 1 .. Len(insts) : j # i => insts'[j] = insts[j]
  BY <1>1, <1>4
<1> QED BY <1>3, <1>5 DEF S

LEMMA CloseStep ==
  ASSUME IInv, NEW g \in Ops, Close(g)
  PROVE  IInv'
<1>1. TypeOK /\ op[g].pc = "closing" /\ op[g].todo # <<>> /\ op[g] \in OpType
  BY DEF IInv, Close, At, Programmed, Midway, TypeOK
<1> DEFINE i == op[g].inst
<1>2. i \in 1 .. Len(insts) /\ i # map
  BY <1>1 DEF IInv, Owned, Holding
<1>3. insts \in Seq([users : BOOLEAN, open : BOOLEAN])
  BY <1>1 DEF TypeOK
<1>4. insts' = [insts EXCEPT ![i].open = FALSE]
  BY DEF Close
<1>5. Moves(g)
  BY <1>1, ProceedMoves DEF Close, Proceed
<1>6. UNCHANGED <<file, row, map, loading, started, stopper, watching, armed, history, used>>
  BY DEF Close
<1> HIDE DEF i
<1>7. /\ insts' \in Seq([users : BOOLEAN, open : BOOLEAN]) /\ Len(insts') = Len(insts)
      /\ ~insts'[i].open
      /\ \A j \in 1 .. Len(insts) : j # i => insts'[j] = insts[j]
  BY <1>2, <1>3, <1>4, Closed
<1>8. TypeOK'
  BY <1>1, <1>5, <1>6, <1>7 DEF TypeOK, Moves, history
<1>9. op'[g].pc \notin Holding /\ op'[g].pc \notin Loading /\ op'[g].inst = 0
  BY <1>5 DEF Moves, PlainPcs, Holding, Loading
<1>10. Owned'
  <2>1. EmptyHanded'
    BY <1>5, <1>9 DEF IInv, Owned, EmptyHanded, Moves
  <2>2. ASSUME NEW h \in Ops, op'[h].pc \in Holding
        PROVE  /\ h # g /\ op'[h] = op[h] /\ op[h].inst # i
               /\ op'[h].inst \in 1 .. Len(insts') /\ op'[h].inst # map'
    <3>1. h # g /\ op'[h] = op[h]
      BY <1>5, <1>9, <2>2 DEF Moves
    <3>2. op[h].inst # i
      BY <1>1, <2>2, <3>1 DEF IInv, Owned, Holding, i
    <3> QED BY <1>6, <1>7, <2>2, <3>1, <3>2 DEF IInv, Owned
  <2>3. ASSUME NEW h \in Ops, NEW k \in Ops, op'[h].pc \in Holding, op'[k].pc \in Holding,
               op'[h].inst = op'[k].inst
        PROVE  h = k
    BY <2>2, <2>3 DEF IInv, Owned
  <2>4. ASSUME NEW h \in Ops, op'[h].pc = "register"
        PROVE  insts'[op'[h].inst].open
    <3>1. op'[h].pc \in Holding
      BY <2>4 DEF Holding
    <3>2. op'[h] = op[h] /\ op[h].inst # i /\ op[h].inst \in 1 .. Len(insts)
      BY <1>7, <2>2, <3>1
    <3>3. insts[op[h].inst].open
      BY <2>4, <3>2 DEF IInv, Owned
    <3> QED BY <1>7, <3>2, <3>3
  <2>5. MapNeverClosed'
    <3>1. map \in 0 .. Len(insts) /\ (map # 0 => insts[map].open)
      BY <1>1 DEF IInv, Owned, MapNeverClosed, TypeOK
    <3>2. map # 0 => insts'[map].open
      BY <1>2, <1>3, <1>7, <3>1
    <3> QED BY <1>6, <3>2 DEF MapNeverClosed
  <2> QED BY <2>1, <2>2, <2>3, <2>4, <2>5 DEF Owned
<1>11. Known'
  <2> SUFFICES ASSUME NEW j \in 1 .. Len(insts), insts'[j].open,
                      j # map, j \notin orphaned \cup overwritten
               PROVE  \E h \in Ops : op'[h].inst = j
    BY <1>6, <1>7 DEF Known, history
  <2>1. j # i /\ insts[j].open
    BY <1>7
  <2>2. PICK h \in Ops : op[h].inst = j
    BY <2>1 DEF IInv, Known
  <2>3. h # g
    BY <2>1, <2>2 DEF i
  <2> QED BY <1>5, <2>2, <2>3 DEF Moves
<1>12. Counted'
  BY <1>1, <1>5, <1>6, <1>9 DEF IInv, Counted, Moves, Loading
<1>13. Programmed'
  BY <1>5 DEF IInv, Programmed, Moves
<1> QED BY <1>8, <1>10, <1>11, <1>12, <1>13 DEF IInv

LEMMA EnterStep ==
  ASSUME IInv, NEW g \in Ops, Enter(g)
  PROVE  IInv'
<1>1. /\ TypeOK /\ op[g].pc = "enter" /\ op[g].todo # <<>> /\ op[g] \in OpType
      /\ op \in [Ops -> OpType] /\ op[g].inst = 0
  BY DEF IInv, Enter, At, Programmed, Midway, TypeOK, Owned, EmptyHanded, Holding
<1>2. UNCHANGED <<file, row, map, insts, started, stopper, watching, armed, history, used>>
  BY DEF Enter
<1>3. CASE stopper = "no"
  <2>1. Set(g, [op[g] EXCEPT !.pc = "compile"]) /\ loading' = loading \cup {g}
    BY <1>3 DEF Enter
  <2>2. /\ [op[g] EXCEPT !.pc = "compile"] \in OpType
        /\ [op[g] EXCEPT !.pc = "compile"].pc = "compile"
        /\ [op[g] EXCEPT !.pc = "compile"].inst = 0
        /\ [op[g] EXCEPT !.pc = "compile"].todo # <<>>
    BY <1>1 DEF OpType
  <2>3. /\ op' \in [Ops -> OpType]
        /\ op'[g].pc = "compile" /\ op'[g].inst = 0 /\ op'[g].todo # <<>>
        /\ \A h \in Ops \ {g} : op'[h] = op[h]
    BY <1>1, <2>1, <2>2, SetTypes
  <2>4. TypeOK'
    BY <1>1, <1>2, <2>1, <2>3 DEF TypeOK, history
  <2>5. Owned'
    <3>1. EmptyHanded'
      BY <2>3 DEF IInv, Owned, EmptyHanded
    <3>2. ASSUME NEW h \in Ops, op'[h].pc \in Holding
          PROVE  h # g /\ op'[h] = op[h]
      BY <2>3, <3>2 DEF Holding
    <3>3. ASSUME NEW h \in Ops, op'[h].pc \in Holding
          PROVE  op'[h].inst \in 1 .. Len(insts') /\ op'[h].inst # map'
      BY <1>2, <3>2, <3>3 DEF IInv, Owned
    <3>4. ASSUME NEW h \in Ops, NEW k \in Ops, op'[h].pc \in Holding, op'[k].pc \in Holding,
                 op'[h].inst = op'[k].inst
          PROVE  h = k
      BY <3>2, <3>4 DEF IInv, Owned
    <3>5. ASSUME NEW h \in Ops, op'[h].pc = "register"
          PROVE  insts'[op'[h].inst].open
      BY <1>2, <3>2, <3>5 DEF IInv, Owned, Holding
    <3>6. MapNeverClosed'
      BY <1>2 DEF IInv, Owned, MapNeverClosed
    <3> QED BY <3>1, <3>3, <3>4, <3>5, <3>6 DEF Owned
  <2>6. Known'
    <3> SUFFICES ASSUME NEW i \in 1 .. Len(insts), insts[i].open,
                        i # map, i \notin orphaned \cup overwritten
                 PROVE  \E h \in Ops : op'[h].inst = i
      BY <1>2 DEF Known, history
    <3>1. PICK h \in Ops : op[h].inst = i
      BY DEF IInv, Known
    <3>2. h # g
      BY <1>1, <3>1
    <3> QED BY <2>3, <3>1, <3>2
  <2>7. Counted'
    BY <1>2, <1>3, <2>1, <2>3 DEF IInv, Counted, Loading
  <2>8. Programmed'
    BY <2>3 DEF IInv, Programmed
  <2> QED BY <2>4, <2>5, <2>6, <2>7, <2>8 DEF IInv
<1>4. CASE stopper # "no"
  <2>1. Moves(g) /\ UNCHANGED loading
    BY <1>1, <1>4, LoadFailsMoves DEF Enter
  <2>2. TypeOK'
    BY <1>1, <1>2, <2>1, PlainTypes DEF TypeOK, history
  <2> QED BY <1>1, <1>2, <2>1, <2>2, PlainStep DEF IInv, PlainPcs, history
<1> QED BY <1>3, <1>4

(* The load that ends, well or not: loadWg.Done. *)
LEMMA LoadedStep ==
  ASSUME IInv, NEW g \in Ops, op[g].pc \in {"compile", "init"}, Moves(g),
         loading' = loading \ {g},
         UNCHANGED <<map, insts, stopper, orphaned, overwritten>>
  PROVE  (Owned /\ Known /\ Counted /\ Programmed)'
<1>1. op[g].pc \notin Holding /\ op'[g].pc \notin Holding /\ op'[g].pc \notin Loading
      /\ op'[g].inst = 0
  BY DEF Moves, PlainPcs, Holding, Loading
<1>2. op[g].inst = 0
  BY <1>1 DEF IInv, Owned, EmptyHanded
<1>3. ASSUME NEW h \in Ops, op'[h].pc \in Holding
      PROVE  h # g /\ op'[h] = op[h]
  BY <1>1, <1>3 DEF Moves
<1>4. Owned'
  <2>1. EmptyHanded'
    BY <1>1 DEF IInv, Owned, EmptyHanded, Moves
  <2>2. ASSUME NEW h \in Ops, op'[h].pc \in Holding
        PROVE  op'[h].inst \in 1 .. Len(insts') /\ op'[h].inst # map'
    BY <1>3, <2>2 DEF IInv, Owned
  <2>3. ASSUME NEW h \in Ops, NEW k \in Ops, op'[h].pc \in Holding, op'[k].pc \in Holding,
               op'[h].inst = op'[k].inst
        PROVE  h = k
    BY <1>3, <2>3 DEF IInv, Owned
  <2>4. ASSUME NEW h \in Ops, op'[h].pc = "register"
        PROVE  insts'[op'[h].inst].open
    BY <1>3, <2>4 DEF IInv, Owned, Holding
  <2>5. MapNeverClosed'
    BY DEF IInv, Owned, MapNeverClosed
  <2> QED BY <2>1, <2>2, <2>3, <2>4, <2>5 DEF Owned
<1>5. Known'
  <2> SUFFICES ASSUME NEW i \in 1 .. Len(insts), insts[i].open,
                      i # map, i \notin orphaned \cup overwritten
               PROVE  \E h \in Ops : op'[h].inst = i
    BY DEF Known
  <2>1. PICK h \in Ops : op[h].inst = i
    BY DEF IInv, Known
  <2>2. h # g
    BY <1>2, <2>1
  <2> QED BY <2>1, <2>2 DEF Moves
<1>6. Counted'
  BY <1>1 DEF IInv, Counted, Moves
<1>7. Programmed'
  BY DEF IInv, Programmed, Moves
<1> QED BY <1>4, <1>5, <1>6, <1>7

LEMMA InitStep ==
  ASSUME IInv, NEW g \in Ops, CallPluginInit(g)
  PROVE  IInv'
<1>1. TypeOK /\ op[g].pc = "init" /\ op[g].todo # <<>>
  BY DEF IInv, CallPluginInit, At, Programmed, Midway
<1>2. Moves(g)
  BY <1>1, DoneMoves, ProceedMoves DEF CallPluginInit
<1>3. /\ loading' = loading \ {g}
      /\ UNCHANGED <<file, row, map, insts, started, stopper, watching, armed, history, used>>
  BY DEF CallPluginInit
<1>4. TypeOK'
  BY <1>1, <1>2, <1>3 DEF TypeOK, Moves, history
<1> QED BY <1>1, <1>2, <1>3, <1>4, LoadedStep DEF IInv, history

LEMMA RegisterStep ==
  ASSUME IInv, NEW g \in Ops, Register(g)
  PROVE  IInv'
<1>1. /\ TypeOK /\ op[g].pc = "register" /\ op[g].todo # <<>> /\ op[g] \in OpType
      /\ op \in [Ops -> OpType]
  BY DEF IInv, Register, At, Programmed, Midway, TypeOK
<1> DEFINE i == op[g].inst
<1>2. i \in 1 .. Len(insts) /\ i # map /\ insts[i].open
  BY <1>1 DEF IInv, Owned, Holding
<1>3. insts \in Seq([users : BOOLEAN, open : BOOLEAN])
  BY <1>1 DEF TypeOK
<1>4. Set(g, [op[g] EXCEPT !.pc = "init", !.inst = 0])
  BY DEF Register
<1>5. /\ [op[g] EXCEPT !.pc = "init", !.inst = 0] \in OpType
      /\ [op[g] EXCEPT !.pc = "init", !.inst = 0].pc = "init"
      /\ [op[g] EXCEPT !.pc = "init", !.inst = 0].inst = 0
      /\ [op[g] EXCEPT !.pc = "init", !.inst = 0].todo # <<>>
  BY <1>1 DEF OpType
<1>6. /\ op' \in [Ops -> OpType]
      /\ op'[g].pc = "init" /\ op'[g].inst = 0 /\ op'[g].todo # <<>>
      /\ \A h \in Ops \ {g} : op'[h] = op[h]
  BY <1>1, <1>4, <1>5, SetTypes
<1>7. /\ map' = i /\ overwritten' = overwritten \cup ({map} \ {0})
      /\ UNCHANGED <<file, row, insts, loading, started, stopper, watching, armed,
                     orphaned, overlapped, faulted, missed, used>>
  BY DEF Register
<1> HIDE DEF i
<1>8. TypeOK'
  <2>1. map' \in 0 .. Len(insts)
    BY <1>2, <1>3, <1>7
  <2>2. overwritten' \subseteq 1 .. Len(insts)
    BY <1>1, <1>7 DEF TypeOK
  <2> QED BY <1>1, <1>6, <1>7, <2>1, <2>2 DEF TypeOK
<1>9. ASSUME NEW h \in Ops, op'[h].pc \in Holding
      PROVE  h # g /\ op'[h] = op[h] /\ op[h].inst # i
  <2>1. h # g /\ op'[h] = op[h]
    BY <1>6, <1>9 DEF Holding
  <2>2. op[h].inst # i
    BY <1>1, <1>9, <2>1 DEF IInv, Owned, Holding, i
  <2> QED BY <2>1, <2>2
<1>10. Owned'
  <2>1. EmptyHanded'
    BY <1>6 DEF IInv, Owned, EmptyHanded
  <2>2. ASSUME NEW h \in Ops, op'[h].pc \in Holding
        PROVE  op'[h].inst \in 1 .. Len(insts') /\ op'[h].inst # map'
    BY <1>7, <1>9, <2>2 DEF IInv, Owned
  <2>3. ASSUME NEW h \in Ops, NEW k \in Ops, op'[h].pc \in Holding, op'[k].pc \in Holding,
               op'[h].inst = op'[k].inst
        PROVE  h = k
    BY <1>9, <2>3 DEF IInv, Owned
  <2>4. ASSUME NEW h \in Ops, op'[h].pc = "register"
        PROVE  insts'[op'[h].inst].open
    BY <1>7, <1>9, <2>4 DEF IInv, Owned, Holding
  <2>5. MapNeverClosed'
    BY <1>2, <1>7 DEF MapNeverClosed
  <2> QED BY <2>1, <2>2, <2>3, <2>4, <2>5 DEF Owned
<1>11. Known'
  <2> SUFFICES ASSUME NEW j \in 1 .. Len(insts), insts[j].open,
                      j # i, j \notin orphaned \cup overwritten'
               PROVE  \E h \in Ops : op'[h].inst = j
    BY <1>7 DEF Known
  <2>1. j # map /\ j \notin overwritten
    BY <1>3, <1>7
  <2>2. PICK h \in Ops : op[h].inst = j
    BY <2>1 DEF IInv, Known
  <2>3. h # g
    BY <2>2 DEF i
  <2> QED BY <1>6, <2>2, <2>3
<1>12. Counted'
  <2>1. stopper # "done"
    BY <1>1 DEF IInv, Counted, Loading
  <2> QED BY <1>1, <1>6, <1>7, <2>1 DEF IInv, Counted, Loading
<1>13. Programmed'
  BY <1>6 DEF IInv, Programmed
<1> QED BY <1>8, <1>10, <1>11, <1>12, <1>13 DEF IInv

(* A new instance is open and leaves the others alone. *)
LEMMA Grown ==
  ASSUME insts \in Seq([users : BOOLEAN, open : BOOLEAN]), NEW u \in BOOLEAN,
         insts' = Append(insts, [users |-> u, open |-> TRUE])
  PROVE  /\ insts' \in Seq([users : BOOLEAN, open : BOOLEAN])
         /\ Len(insts) \in Nat /\ Len(insts') = Len(insts) + 1
         /\ insts'[Len(insts) + 1].open
         /\ \A j \in 1 .. Len(insts) : insts'[j] = insts[j]
<1> DEFINE S == [users : BOOLEAN, open : BOOLEAN]
           x == [users |-> u, open |-> TRUE]
<1>1. insts \in Seq(S) /\ insts' = Append(insts, x)
  OBVIOUS
<1>2. x \in S /\ x.open
  OBVIOUS
<1> HIDE DEF S, x
<1>3. insts' \in Seq(S) /\ Len(insts) \in Nat /\ Len(insts') = Len(insts) + 1
      /\ insts'[Len(insts) + 1] = x /\ \A j \in 1 .. Len(insts) : insts'[j] = insts[j]
  BY <1>1, <1>2
<1> QED BY <1>2, <1>3 DEF S

LEMMA CompileStep ==
  ASSUME IInv, NEW g \in Ops, Compile(g)
  PROVE  IInv'
<1>1. /\ TypeOK /\ op[g].pc = "compile" /\ op[g].todo # <<>> /\ op[g] \in OpType
      /\ op \in [Ops -> OpType] /\ op[g].inst = 0
  BY DEF IInv, Compile, At, Programmed, Midway, TypeOK, Owned, EmptyHanded, Holding
<1>2. UNCHANGED <<file, row, map, started, stopper, watching, armed,
                  overwritten, overlapped, faulted, missed, used>>
  BY DEF Compile
<1>3. CASE ~Readable(file)
  <2>1. Moves(g)
    BY <1>1, <1>3, LoadFailsMoves DEF Compile
  <2>2. loading' = loading \ {g} /\ UNCHANGED <<insts, orphaned>>
    BY <1>3 DEF Compile
  <2>3. TypeOK'
    BY <1>1, <1>2, <2>1, <2>2 DEF TypeOK, Moves
  <2> QED BY <1>1, <1>2, <2>1, <2>2, <2>3, LoadedStep DEF IInv
<1>4. CASE Readable(file)
  <2> DEFINE n == Len(insts) + 1
  <2>1. insts' = Append(insts, [users |-> op[g].row.users, open |-> TRUE])
    BY <1>4 DEF Compile
  <2>2. op[g].row.users \in BOOLEAN
    BY <1>1, OpFields, RowFields
  <2>3. /\ insts' \in Seq([users : BOOLEAN, open : BOOLEAN])
        /\ Len(insts) \in Nat /\ Len(insts') = n
        /\ insts'[n].open
        /\ \A j \in 1 .. Len(insts) : insts'[j] = insts[j]
    BY <1>1, <2>1, <2>2, Grown DEF TypeOK
  <2>4. /\ op' \in [Ops -> OpType]
        /\ \A h \in Ops \ {g} : op'[h] = op[h]
        /\ op'[g].pc \in Midway => op'[g].todo # <<>>
        /\ \/ /\ orphaned' = orphaned \cup {n} /\ loading' = loading \ {g}
              /\ op'[g].pc \in PlainPcs /\ op'[g].inst = 0
           \/ /\ UNCHANGED <<orphaned, loading>>
              /\ op'[g].pc = "register" /\ op'[g].inst = n
    <3>1. CASE file \in Failing
      <4>1. LoadFails(g) /\ orphaned' = orphaned \cup {n} /\ loading' = loading \ {g}
        BY <1>4, <3>1 DEF Compile
      <4>2. Moves(g)
        BY <1>1, <4>1, LoadFailsMoves
      <4> QED BY <4>1, <4>2 DEF Moves
    <3>2. CASE file \notin Failing
      <4>1. Set(g, [op[g] EXCEPT !.pc = "register", !.inst = n]) /\ UNCHANGED <<orphaned, loading>>
        BY <1>4, <3>2 DEF Compile
      <4>2. n \in Nat
        BY <2>3
      <4>3. /\ op' \in [Ops -> OpType] /\ op'[g].pc = "register" /\ op'[g].inst = n
            /\ op'[g].todo # <<>> /\ \A h \in Ops \ {g} : op'[h] = op[h]
        BY <1>1, <4>1, <4>2, Take DEF Holding
      <4> QED BY <4>1, <4>3
    <3> QED BY <3>1, <3>2
  <2> HIDE DEF n
  <2>5. n = Len(insts) + 1 /\ n \notin 1 .. Len(insts) /\ n # map
        /\ map \in 0 .. Len(insts) /\ 1 .. Len(insts') = (1 .. Len(insts)) \cup {n}
    BY <1>1, <2>3 DEF TypeOK, n
  <2>6. TypeOK'
    <3>1. map' \in 0 .. Len(insts')
      BY <1>2, <2>3, <2>5
    <3>2. orphaned' \subseteq 1 .. Len(insts') /\ overwritten' \subseteq 1 .. Len(insts')
      BY <1>1, <1>2, <2>4, <2>5 DEF TypeOK
    <3>3. loading' \subseteq Ops
      BY <1>1, <2>4 DEF TypeOK
    <3> QED BY <1>1, <1>2, <2>3, <2>4, <3>1, <3>2, <3>3 DEF TypeOK
  <2>7. ASSUME NEW h \in Ops, h # g, op'[h].pc \in Holding
        PROVE  op'[h] = op[h] /\ op[h].inst \in 1 .. Len(insts) /\ op[h].inst # map
               /\ op[h].inst # n
    BY <2>4, <2>5, <2>7 DEF IInv, Owned
  <2>8. op'[g].pc \in Holding => op'[g].pc = "register" /\ op'[g].inst = n
    BY <2>4 DEF PlainPcs, Holding
  <2>9. Owned'
    <3>1. EmptyHanded'
      BY <2>4 DEF IInv, Owned, EmptyHanded, Holding
    <3>2. ASSUME NEW h \in Ops, op'[h].pc \in Holding
          PROVE  op'[h].inst \in 1 .. Len(insts') /\ op'[h].inst # map'
      BY <1>2, <2>5, <2>7, <2>8, <3>2
    <3>3. ASSUME NEW h \in Ops, NEW k \in Ops, op'[h].pc \in Holding, op'[k].pc \in Holding,
                 op'[h].inst = op'[k].inst
          PROVE  h = k
      <4>1. CASE h # g /\ k # g
        BY <2>7, <3>3, <4>1 DEF IInv, Owned
      <4>2. CASE h = g \/ k = g
        BY <2>7, <2>8, <3>3, <4>2
      <4> QED BY <4>1, <4>2
    <3>4. ASSUME NEW h \in Ops, op'[h].pc = "register"
          PROVE  insts'[op'[h].inst].open
      <4>1. CASE h = g
        BY <2>3, <2>8, <3>4, <4>1 DEF Holding
      <4>2. CASE h # g
        <5>1. op'[h].pc \in Holding
          BY <3>4 DEF Holding
        <5>2. op'[h] = op[h] /\ op[h].inst \in 1 .. Len(insts)
          BY <2>7, <4>2, <5>1
        <5>3. insts[op[h].inst].open
          BY <3>4, <5>2 DEF IInv, Owned
        <5> QED BY <2>3, <5>2, <5>3
      <4> QED BY <4>1, <4>2
    <3>5. MapNeverClosed'
      BY <1>2, <2>3, <2>5 DEF IInv, Owned, MapNeverClosed
    <3> QED BY <3>1, <3>2, <3>3, <3>4, <3>5 DEF Owned
  <2>10. Known'
    <3> SUFFICES ASSUME NEW j \in 1 .. Len(insts'), insts'[j].open,
                        j # map, j \notin orphaned' \cup overwritten
                 PROVE  \E h \in Ops : op'[h].inst = j
      BY <1>2 DEF Known
    <3>1. CASE j = n
      BY <2>4, <3>1
    <3>2. CASE j # n
      <4>1. j \in 1 .. Len(insts) /\ insts[j].open /\ j \notin orphaned
        BY <2>3, <2>4, <2>5, <3>2
      <4>2. PICK h \in Ops : op[h].inst = j
        BY <4>1 DEF IInv, Known
      <4>3. h # g
        BY <1>1, <4>1, <4>2
      <4> QED BY <2>4, <4>2, <4>3
    <3> QED BY <3>1, <3>2
  <2>11. Counted'
    <3>1. stopper # "done"
      BY <1>1 DEF IInv, Counted, Loading
    <3>2. ASSUME NEW h \in Ops PROVE op'[h].pc \in Loading <=> h \in loading'
      BY <1>1, <2>4 DEF IInv, Counted, Loading, PlainPcs
    <3> QED BY <1>2, <3>1, <3>2 DEF Counted
  <2>12. Programmed'
    BY <2>4 DEF IInv, Programmed
  <2> QED BY <2>6, <2>9, <2>10, <2>11, <2>12 DEF IInv
<1> QED BY <1>3, <1>4

LEMMA StopEndsStep ==
  ASSUME IInv, StopEnds
  PROVE  IInv'
<1>1. TypeOK /\ insts \in Seq([users : BOOLEAN, open : BOOLEAN])
  BY DEF IInv, TypeOK
<1>2. /\ loading = {} /\ stopper' = "done" /\ map' = 0
      /\ insts' = [i \in DOMAIN insts |-> IF i = map THEN [insts[i] EXCEPT !.open = FALSE]
                                         ELSE insts[i]]
      /\ UNCHANGED <<file, row, loading, started, watching, armed, op, history, used>>
  BY DEF StopEnds
<1>3. /\ insts' \in Seq([users : BOOLEAN, open : BOOLEAN]) /\ Len(insts') = Len(insts)
      /\ \A j \in 1 .. Len(insts) : j # map => insts'[j] = insts[j]
      /\ map # 0 => ~insts'[map].open
  <2> DEFINE S == [users : BOOLEAN, open : BOOLEAN]
             f(i) == IF i = map THEN [insts[i] EXCEPT !.open = FALSE] ELSE insts[i]
  <2>1. insts \in Seq(S) /\ insts' = [i \in DOMAIN insts |-> f(i)]
    BY <1>1, <1>2
  <2>2. ASSUME NEW x \in S PROVE [x EXCEPT !.open = FALSE] \in S /\ ~[x EXCEPT !.open = FALSE].open
    OBVIOUS
  <2> HIDE DEF S
  <2>3. ASSUME NEW i \in 1 .. Len(insts) PROVE insts[i] \in S
    BY <2>1
  <2>4. ASSUME NEW i \in 1 .. Len(insts)
        PROVE  f(i) \in S /\ (i # map => f(i) = insts[i]) /\ (i = map => ~f(i).open)
    BY <2>2, <2>3
  <2> HIDE DEF f
  <2>5. DOMAIN insts = 1 .. Len(insts) /\ Len(insts) \in Nat
    BY <2>1
  <2>6. insts' = [i \in 1 .. Len(insts) |-> f(i)]
    BY <2>1, <2>5
  <2>7. insts' \in [1 .. Len(insts) -> S]
    BY <2>4, <2>6
  <2>8. insts' \in Seq(S) /\ Len(insts') = Len(insts)
    BY <2>5, <2>7
  <2>9. map \in 0 .. Len(insts)
    BY <1>1 DEF TypeOK
  <2>10. map # 0 => map \in 1 .. Len(insts)
    BY <2>5, <2>9
  <2> QED BY <2>4, <2>6, <2>8, <2>10 DEF S
<1>4. TypeOK'
  BY <1>1, <1>2, <1>3 DEF TypeOK, history
<1>5. Owned'
  <2>1. EmptyHanded'
    BY <1>2 DEF IInv, Owned, EmptyHanded
  <2>2. ASSUME NEW h \in Ops, op'[h].pc \in Holding
        PROVE  op'[h].inst \in 1 .. Len(insts') /\ op'[h].inst # map'
    BY <1>2, <1>3, <2>2 DEF IInv, Owned
  <2>3. ASSUME NEW h \in Ops, NEW k \in Ops, op'[h].pc \in Holding, op'[k].pc \in Holding,
               op'[h].inst = op'[k].inst
        PROVE  h = k
    BY <1>2, <2>3 DEF IInv, Owned
  <2>4. ASSUME NEW h \in Ops, op'[h].pc = "register"
        PROVE  insts'[op'[h].inst].open
    BY <1>2, <2>4 DEF IInv, Counted, Loading
  <2> QED BY <1>2, <2>1, <2>2, <2>3, <2>4 DEF Owned, MapNeverClosed
<1>6. Known'
  <2> SUFFICES ASSUME NEW j \in 1 .. Len(insts), insts'[j].open,
                      j \notin orphaned \cup overwritten
               PROVE  \E h \in Ops : op'[h].inst = j
    BY <1>2, <1>3 DEF Known, history
  <2>1. j # map
    BY <1>3
  <2>2. insts[j].open
    BY <1>3, <2>1
  <2> QED BY <1>2, <2>1, <2>2 DEF IInv, Known
<1>7. Counted' /\ Programmed'
  BY <1>2 DEF IInv, Counted, Programmed
<1> QED BY <1>4, <1>5, <1>6, <1>7 DEF IInv

LEMMA CrashStep ==
  ASSUME IInv, Crash
  PROVE  IInv'
<1>1. TypeOK /\ row \in Rows /\ file \in Builds \cup {None}
  BY DEF IInv, TypeOK
<1>2. /\ map' = 0 /\ insts' = <<>> /\ loading' = {}
      /\ started' = "no" /\ stopper' = "no" /\ watching' = FALSE /\ armed' = FALSE
      /\ op' = [g \in Ops |-> Idle]
      /\ orphaned' = {} /\ overwritten' = {} /\ overlapped' = FALSE
      /\ faulted' = FALSE /\ missed' = FALSE
      /\ UNCHANGED <<file, row>>
  BY DEF Crash
<1>3. used' \in [{"calls", "changes", "faults"} -> Nat]
  BY <1>1, UsedTypes DEF Crash
<1>4. insts' \in Seq([users : BOOLEAN, open : BOOLEAN]) /\ Len(insts') = 0
  BY <1>2
<1>5. op' \in [Ops -> OpType] /\ \A g \in Ops : op'[g] = Idle
  BY <1>2, IdleIsOp
<1>6. TypeOK'
  <2>1. map' \in 0 .. Len(insts') /\ orphaned' \subseteq 1 .. Len(insts')
        /\ overwritten' \subseteq 1 .. Len(insts')
    BY <1>2, <1>4
  <2> QED BY <1>1, <1>2, <1>3, <1>4, <1>5, <2>1 DEF TypeOK
<1>7. Idle.pc \notin Holding /\ Idle.pc \notin Loading /\ Idle.pc \notin Midway /\ Idle.inst = 0
      /\ Idle.pc # "register"
  BY IdleIsOp DEF Holding, Loading, Midway
<1>8. Owned' /\ Known' /\ Counted' /\ Programmed'
  BY <1>2, <1>4, <1>5, <1>7 DEF Owned, EmptyHanded, MapNeverClosed, Known, Counted, Programmed
<1> QED BY <1>6, <1>8 DEF IInv

(* Nothing but the file, the timers, the bounds and Stop's first step. *)
LEMMA OutsideStep ==
  ASSUME IInv, Change \/ Stop \/ UNCHANGED vars
  PROVE  IInv'
<1>1. TypeOK
  BY DEF IInv
<1>2. /\ UNCHANGED <<row, map, insts, loading, started, op, orphaned, overwritten,
                     overlapped, faulted>>
      /\ stopper' = stopper \/ stopper' = "waiting"
  BY DEF Change, Stop, vars, manager, history
<1>3. used' \in [{"calls", "changes", "faults"} -> Nat]
  BY <1>1, UsedTypes DEF Change, Stop, vars
<1>4. file' \in Builds \cup {None} /\ watching' \in BOOLEAN /\ armed' \in BOOLEAN
      /\ missed' \in BOOLEAN
  BY <1>1 DEF TypeOK, Change, Stop, vars, manager, history
<1>5. TypeOK'
  BY <1>1, <1>2, <1>3, <1>4 DEF TypeOK
<1>6. Owned' /\ Known' /\ Counted' /\ Programmed'
  BY <1>2 DEF IInv, Owned, EmptyHanded, MapNeverClosed, Known, Counted, Programmed
<1> QED BY <1>5, <1>6 DEF IInv

LEMMA InitInv == Init => IInv
<1> SUFFICES ASSUME Init PROVE IInv
  OBVIOUS
<1>1. insts \in Seq([users : BOOLEAN, open : BOOLEAN]) /\ Len(insts) = 0
  BY DEF Init
<1>2. op \in [Ops -> OpType] /\ \A g \in Ops : op[g] = Idle
  BY IdleIsOp DEF Init
<1>3. row \in Rows
  BY PluginAssumption DEF Init
<1>4. TypeOK
  <2>1. map \in 0 .. Len(insts) /\ orphaned \subseteq 1 .. Len(insts)
        /\ overwritten \subseteq 1 .. Len(insts)
    BY <1>1 DEF Init
  <2>2. used \in [{"calls", "changes", "faults"} -> Nat]
    BY DEF Init
  <2> QED BY <1>1, <1>2, <1>3, <2>1, <2>2 DEF Init, TypeOK
<1>5. Idle.pc \notin Holding /\ Idle.pc \notin Loading /\ Idle.pc \notin Midway /\ Idle.inst = 0
      /\ Idle.pc # "register"
  BY IdleIsOp DEF Holding, Loading, Midway
<1>6. Owned /\ Known /\ Counted /\ Programmed
  BY <1>1, <1>2, <1>5 DEF Init, Owned, EmptyHanded, MapNeverClosed, Known, Counted, Programmed
<1> QED BY <1>4, <1>6 DEF IInv

LEMMA NextInv == IInv /\ [Next]_vars => IInv'
<1> SUFFICES ASSUME IInv, [Next]_vars PROVE IInv'
  OBVIOUS
<1>1. ASSUME NEW g \in Ops, Call(g) \/ DeleteUser(g) \/ StartManager(g) \/ Fire(g)
      PROVE  IInv'
  BY <1>1, RequestStep
<1>2. ASSUME NEW g \in Ops, Step(g)
      PROVE  IInv'
  BY <1>2, DecideStep, StartStep, UnloadStep, CloseStep, CheckStoppedStep, EnterStep,
     CompileStep, RegisterStep, InitStep, PutStep DEF Step, Work
<1>3. CASE StopEnds
  BY <1>3, StopEndsStep
<1>4. CASE Crash
  BY <1>4, CrashStep
<1>5. CASE Change \/ Stop \/ UNCHANGED vars
  BY <1>5, OutsideStep
<1> QED BY <1>1, <1>2, <1>3, <1>4, <1>5 DEF Next

(* The inductive invariant holds in every state. *)
THEOREM Inductive == Spec => []IInv
<1>1. Init => IInv
  BY InitInv
<1>2. IInv /\ [Next]_vars => IInv'
  BY NextInv
<1> QED BY <1>1, <1>2, PTL DEF Spec

(* The fields of Manager, the row and the locals of the operations keep       *)
(* their types.                                                             *)
THEOREM TypeCorrect == Spec => []TypeOK
<1>1. IInv => TypeOK
  BY DEF IInv
<1> QED BY <1>1, Inductive, PTL

(* A lookup in the map never finds an instance that was closed, however       *)
(* operations overlap: the one that closes it has taken it out of the map and *)
(* nobody else holds it.                                                    *)
THEOREM LookupsFindOpen == Spec => []MapNeverClosed
<1>1. IInv => MapNeverClosed
  BY DEF IInv, Owned
<1> QED BY <1>1, Inductive, PTL

(* When Stop has closed the compilation cache no load is under way and none   *)
(* will put an instance into the map: the second look at stopped comes after  *)
(* loadWg.Add.                                                              *)
THEOREM StopEndsLoading == Spec => []StopIsFinal
<1>1. IInv => StopIsFinal
  BY DEF IInv, Counted, StopIsFinal, Loading
<1> QED BY <1>1, Inductive, PTL

----------------------------------------------------------------------------
(* One operation at a time *)

(* A row that is not there is neither enabled nor for anybody. *)
RowSound(r) == r.build = None => ~r.enabled /\ ~r.users

Sound == RowSound(row) /\ \A g \in Ops : RowSound(op[g].row)

(* The row r and the map tell the same. *)
Agreement(r) ==
  /\ ~r.enabled => map = 0
  /\ r.enabled /\ stopper = "no" => map # 0
  /\ map # 0 => insts[map].users = r.users \/ r.build \notin Gated

Starting(g) == op[g].pc = "watch" \/ (op[g].pc # "idle" /\ op[g].kind \in {"start", "load"})

(* What is left of a program, and what it takes for granted of the row and    *)
(* the map as they are now.                                                 *)
Lefts ==
  {<<"unload", "put">>, <<"put">>, <<"load", "put">>, <<"load">>, <<"unload">>, <<"delete">>,
   <<"put", "unload", "load">>, <<"unload", "load">>, <<"unload", "delete">>}

Fit(r, t) ==
  /\ t \in Lefts
  /\ t = <<"unload", "put">> => ~r.enabled
  /\ t = <<"put">> => Agreement(r)
  /\ t \in {<<"load", "put">>, <<"put", "unload", "load">>} => r.enabled
  /\ t \in {<<"load">>, <<"unload", "load">>} => r.enabled /\ row.enabled /\ r.users = row.users
  /\ t = <<"unload">> => ~row.enabled
  /\ t = <<"delete">> => map = 0

Syncs == {<<"unload", "put">>, <<"put">>, <<"unload", "delete">>, <<"delete">>}

Ready(g) ==
  LET o == op[g] IN
  /\ o.pc \in Midway /\ o.kind = "start" => o.todo \in Syncs
  /\ o.pc # "idle" /\ o.kind = "start" => map = 0
  /\ o.pc = "get" =>
       /\ o.kind \notin {"start", "load"}
       /\ o.kind # "cleanup" \/ row.enabled => Agreement(row)
       /\ o.kind = "cleanup" => row.build # None
  /\ o.pc \in {"list", "rows", "compare", "react"} =>
       o.kind # "load" /\ (o.kind # "start" => Agreement(row))
  /\ o.pc = "compare" => o.row = row
  /\ o.pc \in Midway => Fit(o.row, o.todo)
  /\ o.pc = "run" /\ Head(o.todo) = "load" => map = 0
  /\ o.pc = "closing" => map = 0 /\ Head(o.todo) = "unload"
  /\ o.pc \in {"enter", "compile", "register"} => map = 0 /\ Head(o.todo) = "load"
  /\ o.pc = "register" => insts[o.inst].users = o.row.users
  /\ o.pc = "init" => map # 0 /\ insts[map].users = o.row.users /\ Head(o.todo) = "load"
  /\ o.pc = "enabled" => o.kind = "load" /\ map = 0
  /\ o.pc = "watch" => Agreement(row)

Quiet ==
  ~overlapped /\ ~faulted =>
    /\ \A g, h \in Ops : op[g].pc # "idle" /\ op[h].pc # "idle" => g = h
    /\ \A g \in Ops : op[g].pc # "idle" => (started = "running" <=> Starting(g))
    /\ started = "running" => Busy
    /\ \A g \in Ops : Ready(g)
    /\ started = "yes" /\ ~Busy => Agreement(row)
    /\ overwritten = {}

(* Before Start nothing goes on. *)
Booting ==
  /\ started = "no" => map = 0 /\ ~Busy
  /\ watching \/ armed => started = "yes"

QInv == IInv /\ Sound /\ Booting /\ Quiet

LEMMA RunSound ==
  ASSUME TypeOK, Sound, NEW g \in Ops, NEW r \in Rows, RowSound(r), NEW todo \in Seq(Steps),
         Run(g, r, todo)
  PROVE  \A h \in Ops : RowSound(op'[h].row)
<1>1. op \in [Ops -> OpType] /\ op[g] \in OpType
  BY DEF TypeOK
<1>2. RowSound(Idle.row)
  BY DEF Idle, NoRow, RowSound
<1>3. /\ [op[g] EXCEPT !.pc = "run", !.row = r, !.todo = todo, !.inst = 0].row = r
      /\ [Idle EXCEPT !.pc = "enabled", !.kind = "load"].row = Idle.row
      /\ [Idle EXCEPT !.pc = "watch"].row = Idle.row
  BY <1>1, IdleIsOp DEF OpType
<1> DEFINE o == IF todo # <<>> THEN [op[g] EXCEPT !.pc = "run", !.row = r, !.todo = todo, !.inst = 0]
                ELSE CASE op[g].kind = "start" -> [Idle EXCEPT !.pc = "enabled", !.kind = "load"]
                       [] op[g].kind = "load" -> [Idle EXCEPT !.pc = "watch"]
                       [] OTHER -> Idle
<1>4. op' = [op EXCEPT ![g] = o]
  BY DEF Run, Set
<1>5. o.row = r \/ o.row = Idle.row
  BY <1>3
<1> HIDE DEF o
<1>6. RowSound(o.row)
  BY <1>2, <1>5
<1>7. op'[g] = o /\ \A h \in Ops \ {g} : op'[h] = op[h]
  BY <1>1, <1>4
<1> QED BY <1>6, <1>7 DEF Sound

LEMMA AdoptSound ==
  ASSUME TypeOK, Sound, NEW g \in Ops, NEW r \in Rows, RowSound(r), Adopt(g, r) \/ Remove(g, r)
  PROVE  \A h \in Ops : RowSound(op'[h].row)
<1>1. file \in Builds \cup {None} /\ RowSound(NoRow)
  BY DEF TypeOK, RowSound, NoRow
<1>2. ASSUME NEW s \in Rows, RowSound(s), NEW todo \in Seq(Steps), Run(g, s, todo)
      PROVE  \A h \in Ops : RowSound(op'[h].row)
  BY <1>2, RunSound
<1>3. CASE Done(g)
  BY <1>1, <1>2, <1>3, NoRowIsRow, Programs DEF Done
<1>4. UnloadIf(r, "put") \in Seq(Steps) /\ UnloadIf(r, "delete") \in Seq(Steps)
  BY UnloadIfSteps, Programs
<1>5. [r EXCEPT !.build = file, !.enabled = FALSE, !.error = FALSE] \in Rows
      /\ [r EXCEPT !.enabled = FALSE, !.error = TRUE] \in Rows
  BY <1>1, ChangedRow
<1>6. (file # None => RowSound([r EXCEPT !.build = file, !.enabled = FALSE, !.error = FALSE]))
      /\ RowSound([r EXCEPT !.enabled = FALSE, !.error = TRUE])
  <2>1. [r EXCEPT !.build = file, !.enabled = FALSE, !.error = FALSE].build = file
        /\ [r EXCEPT !.enabled = FALSE, !.error = TRUE].build = r.build
        /\ [r EXCEPT !.enabled = FALSE, !.error = TRUE].enabled = FALSE
        /\ [r EXCEPT !.enabled = FALSE, !.error = TRUE].users = r.users
    BY DEF Rows
  <2> QED BY <2>1 DEF RowSound
<1>7. CASE Adopt(g, r)
  <2>1. CASE Readable(file) /\ stopper = "no" /\ r.build = None
    <3>1. Fresh(file) \in Rows /\ RowSound(Fresh(file))
      BY <1>1, <2>1, FreshIsRow DEF Readable, Fresh, RowSound
    <3>2. Run(g, Fresh(file), <<"put">>)
      BY <1>7, <2>1 DEF Adopt
    <3> QED BY <1>2, <3>1, <3>2, Programs
  <2>2. CASE Readable(file) /\ stopper = "no" /\ r.build # None
    <3>1. Run(g, [r EXCEPT !.build = file, !.enabled = FALSE, !.error = FALSE],
              UnloadIf(r, "put"))
      BY <1>7, <2>2 DEF Adopt
    <3> QED BY <1>2, <1>4, <1>5, <1>6, <2>2, <3>1 DEF Readable
  <2>3. CASE ~(Readable(file) /\ stopper = "no")
    <3>1. Done(g) \/ Run(g, [r EXCEPT !.enabled = FALSE, !.error = TRUE], UnloadIf(r, "put"))
      BY <1>7, <2>3 DEF Adopt
    <3> QED BY <1>2, <1>3, <1>4, <1>5, <1>6, <3>1
  <2> QED BY <2>1, <2>2, <2>3
<1>8. CASE Remove(g, r)
  <2>1. Done(g) \/ Run(g, r, UnloadIf(r, "delete"))
    BY <1>8 DEF Remove
  <2> QED BY <1>2, <1>3, <1>4, <2>1
<1> QED BY <1>7, <1>8

(* A step that leaves the rows operations have read alone, or makes one idle. *)
LEMMA SetSound ==
  ASSUME TypeOK, Sound, NEW g \in Ops, NEW o, Set(g, o), RowSound(o.row)
  PROVE  \A h \in Ops : RowSound(op'[h].row)
<1>1. op'[g] = o /\ \A h \in Ops \ {g} : op'[h] = op[h]
  BY DEF Set, TypeOK
<1> QED BY <1>1 DEF Sound

LEMMA DecideSound ==
  ASSUME TypeOK, Sound, EmptyHanded, NEW g \in Ops, Decide(g)
  PROVE  Sound'
<1>1. op[g] \in OpType /\ row \in Rows /\ file \in Builds \cup {None} /\ op[g].row \in Rows
  BY OpFields DEF TypeOK
<1>2. RowSound(row) /\ RowSound(op[g].row) /\ RowSound(NoRow)
  BY DEF Sound, RowSound, NoRow
<1>3. UNCHANGED row
  BY DecideMoves
<1>4. ASSUME NEW r \in Rows, RowSound(r), NEW todo \in Seq(Steps), Run(g, r, todo)
      PROVE  \A h \in Ops : RowSound(op'[h].row)
  BY <1>4, RunSound
<1>5. ASSUME Done(g) PROVE \A h \in Ops : RowSound(op'[h].row)
  BY <1>2, <1>4, <1>5, NoRowIsRow, Programs DEF Done
<1>6. ASSUME NEW r \in Rows, RowSound(r), Adopt(g, r) \/ Remove(g, r)
      PROVE  \A h \in Ops : RowSound(op'[h].row)
  BY <1>6, AdoptSound
<1>7. \A h \in Ops : RowSound(op'[h].row)
  <2>1. CASE EnablePlugin(g)
    <3>1. Done(g) \/ (row.build # None
                     /\ Run(g, [row EXCEPT !.enabled = TRUE, !.error = FALSE], <<"load", "put">>))
      BY <2>1 DEF EnablePlugin
    <3>2. row.build # None => RowSound([row EXCEPT !.enabled = TRUE, !.error = FALSE])
      BY <1>1 DEF Rows, RowSound
    <3> QED BY <1>1, <1>4, <1>5, <3>1, <3>2, ChangedRow, Programs
  <2>2. CASE DisablePlugin(g)
    <3>1. Done(g) \/ Run(g, [row EXCEPT !.enabled = FALSE], <<"unload", "put">>)
      BY <2>2 DEF DisablePlugin
    <3>2. RowSound([row EXCEPT !.enabled = FALSE])
      <4>1. [row EXCEPT !.enabled = FALSE].build = row.build
            /\ [row EXCEPT !.enabled = FALSE].users = row.users
            /\ [row EXCEPT !.enabled = FALSE].enabled = FALSE
        BY <1>1 DEF Rows
      <4> QED BY <1>2, <4>1 DEF RowSound
    <3> QED BY <1>1, <1>4, <1>5, <3>1, <3>2, ChangedRow, Programs
  <2>3. CASE UpdatePluginSettings(g)
    <3>1. PICK u \in BOOLEAN :
            \/ Done(g)
            \/ row.build # None /\ Run(g, [row EXCEPT !.users = u], <<"put">>)
            \/ /\ row.build # None
               /\ Run(g, [[row EXCEPT !.users = u] EXCEPT !.enabled = FALSE], <<"unload", "put">>)
            \/ row.build # None /\ Run(g, [row EXCEPT !.users = u], <<"put", "unload", "load">>)
      BY <2>3 DEF UpdatePluginSettings
    <3>2. [row EXCEPT !.users = u] \in Rows
          /\ [[row EXCEPT !.users = u] EXCEPT !.enabled = FALSE] \in Rows
      BY <1>1, ChangedRow
    <3>3. row.build # None =>
            /\ RowSound([row EXCEPT !.users = u])
            /\ RowSound([[row EXCEPT !.users = u] EXCEPT !.enabled = FALSE])
      BY <1>1 DEF Rows, RowSound
    <3> QED BY <1>4, <1>5, <3>1, <3>2, <3>3, Programs
  <2>4. CASE UnloadDisabledPlugins(g)
    <3>1. Done(g) \/ Run(g, row, <<"unload">>)
      BY <2>4 DEF UnloadDisabledPlugins
    <3> QED BY <1>1, <1>2, <1>4, <1>5, <3>1, Programs
  <2>5. CASE ReadFolder(g)
    <3>1. Set(g, [op[g] EXCEPT !.pc = "rows", !.seen = file])
          /\ [op[g] EXCEPT !.pc = "rows", !.seen = file].row = op[g].row
      BY <1>1, <2>5 DEF ReadFolder, OpType
    <3> QED BY <1>2, <3>1, SetSound
  <2>6. CASE ReadRows(g)
    <3>1. [op[g] EXCEPT !.pc = "compare", !.row = row].row = row
      BY <1>1 DEF OpType
    <3>2. Done(g) \/ Set(g, [op[g] EXCEPT !.pc = "compare", !.row = row])
      BY <2>6 DEF ReadRows
    <3> QED BY <1>2, <1>5, <3>1, <3>2, SetSound
  <2>7. CASE Compare(g)
    <3>1. Remove(g, op[g].row) \/ Done(g) \/ Adopt(g, op[g].row)
      BY <2>7 DEF Compare
    <3> QED BY <1>1, <1>2, <1>5, <1>6, <3>1
  <2>8. CASE React(g)
    <3>1. PICK known \in {row, NoRow} : Remove(g, known) \/ Done(g) \/ Adopt(g, known)
      BY <2>8 DEF React
    <3>2. known \in Rows /\ RowSound(known)
      BY <1>1, <1>2, <3>1, NoRowIsRow
    <3> QED BY <1>5, <1>6, <3>1, <3>2
  <2> QED BY <2>1, <2>2, <2>3, <2>4, <2>5, <2>6, <2>7, <2>8 DEF Decide
<1> QED BY <1>2, <1>3, <1>7 DEF Sound

LEMMA WorkSound ==
  ASSUME IInv, Sound, NEW g \in Ops, Work(g) \/ LoadEnabledPlugins(g) \/ StartWatcher(g)
  PROVE  Sound'
<1>1. TypeOK /\ op[g] \in OpType /\ row \in Rows /\ op[g].row \in Rows
  BY OpFields DEF IInv, TypeOK
<1>2. RowSound(row) /\ RowSound(op[g].row) /\ RowSound(NoRow) /\ RowSound(Idle.row)
  BY DEF Sound, RowSound, NoRow, Idle
<1>3. ASSUME NEW r \in Rows, RowSound(r), NEW todo \in Seq(Steps), Run(g, r, todo)
      PROVE  \A h \in Ops : RowSound(op'[h].row)
  BY <1>1, <1>3, RunSound
<1>4. ASSUME Done(g) PROVE \A h \in Ops : RowSound(op'[h].row)
  BY <1>2, <1>3, <1>4, NoRowIsRow, Programs DEF Done
<1>5. ASSUME op[g].pc \in Midway, Proceed(g) PROVE \A h \in Ops : RowSound(op'[h].row)
  <2>1. Tail(op[g].todo) \in Seq(Steps)
    BY <1>5, RestOfProgram DEF IInv
  <2> QED BY <1>1, <1>2, <1>3, <1>5, <2>1 DEF Proceed
<1>6. ASSUME LoadFails(g) PROVE \A h \in Ops : RowSound(op'[h].row)
  <2>1. RowSound([op[g].row EXCEPT !.enabled = FALSE, !.error = TRUE])
    <3>1. [op[g].row EXCEPT !.enabled = FALSE, !.error = TRUE].build = op[g].row.build
          /\ [op[g].row EXCEPT !.enabled = FALSE, !.error = TRUE].users = op[g].row.users
          /\ [op[g].row EXCEPT !.enabled = FALSE, !.error = TRUE].enabled = FALSE
      BY <1>1 DEF Rows
    <3> QED BY <1>2, <3>1 DEF RowSound
  <2> QED BY <1>1, <1>3, <1>6, <2>1, ChangedRow, Programs DEF LoadFails
<1>7. ASSUME NEW pc, NEW i, Set(g, [op[g] EXCEPT !.pc = pc, !.inst = i]) \/ Set(g, [op[g] EXCEPT !.pc = pc])
      PROVE  \A h \in Ops : RowSound(op'[h].row)
  <2>1. [op[g] EXCEPT !.pc = pc, !.inst = i].row = op[g].row /\ [op[g] EXCEPT !.pc = pc].row = op[g].row
    BY <1>1 DEF OpType
  <2> QED BY <1>1, <1>2, <1>7, <2>1, SetSound
<1>8. (\A h \in Ops : RowSound(op'[h].row)) /\ RowSound(row')
  <2>1. CASE Unload(g) \/ Close(g)
    <3>1. op[g].pc \in Midway /\ UNCHANGED row
      BY <2>1 DEF Unload, Close, Due, At, Midway
    <3>2. Proceed(g) \/ Set(g, [op[g] EXCEPT !.pc = "closing", !.inst = map])
      BY <2>1 DEF Unload, Close, Proceed
    <3> QED BY <1>2, <1>5, <1>7, <3>1, <3>2
  <2>2. CASE CheckStopped(g) \/ Enter(g)
    <3>1. LoadFails(g) \/ Set(g, [op[g] EXCEPT !.pc = "enter"]) \/ Set(g, [op[g] EXCEPT !.pc = "compile"])
      BY <2>2 DEF CheckStopped, Enter
    <3> QED BY <1>2, <1>6, <1>7, <2>2, <3>1 DEF CheckStopped, Enter
  <2>3. CASE Compile(g) \/ Register(g)
    <3>1. \/ LoadFails(g)
          \/ Set(g, [op[g] EXCEPT !.pc = "register", !.inst = Len(insts) + 1])
          \/ Set(g, [op[g] EXCEPT !.pc = "init", !.inst = 0])
      BY <2>3 DEF Compile, Register
    <3> QED BY <1>2, <1>6, <1>7, <2>3, <3>1 DEF Compile, Register
  <2>4. CASE CallPluginInit(g)
    <3>1. op[g].pc \in Midway /\ (Done(g) \/ Proceed(g)) /\ UNCHANGED row
      BY <2>4 DEF CallPluginInit, At, Midway
    <3> QED BY <1>2, <1>4, <1>5, <3>1
  <2>5. CASE Put(g) \/ Delete(g)
    <3>1. /\ op[g].pc \in Midway
          /\ Done(g) \/ Proceed(g) \/ Run(g, op[g].row, <<"unload">>)
          /\ row' = row \/ row' = op[g].row \/ row' = NoRow
      BY <2>5 DEF Put, Delete, Due, At, Midway
    <3> QED BY <1>1, <1>2, <1>3, <1>4, <1>5, <3>1, Programs
  <2>6. CASE LoadEnabledPlugins(g)
    <3>1. RowSound([row EXCEPT !.error = FALSE]) /\ [row EXCEPT !.error = FALSE] \in Rows
      <4>1. [row EXCEPT !.error = FALSE].build = row.build
            /\ [row EXCEPT !.error = FALSE].enabled = row.enabled
            /\ [row EXCEPT !.error = FALSE].users = row.users
        BY <1>1 DEF Rows
      <4>2. [row EXCEPT !.error = FALSE] \in Rows
        BY <1>1, ChangedRow
      <4> QED BY <1>2, <4>1, <4>2 DEF RowSound
    <3>2. \/ Run(g, [row EXCEPT !.error = FALSE], <<"load", "put">>)
          \/ Run(g, [row EXCEPT !.error = FALSE], <<"load">>)
          \/ Done(g)
      BY <2>6 DEF LoadEnabledPlugins
    <3> QED BY <1>2, <1>3, <1>4, <2>6, <3>1, <3>2, Programs DEF LoadEnabledPlugins
  <2>7. CASE StartWatcher(g)
    BY <1>1, <1>2, <2>7, SetSound DEF StartWatcher
  <2> QED BY <2>1, <2>2, <2>3, <2>4, <2>5, <2>6, <2>7 DEF Work
<1> QED BY <1>8 DEF Sound

LEMMA NextSound ==
  ASSUME IInv, Sound, [Next]_vars
  PROVE  Sound'
<1>1. ASSUME NEW g \in Ops, Call(g) \/ DeleteUser(g) \/ StartManager(g) \/ Fire(g)
      PROVE  Sound'
  <2>1. PICK k, pc, b : Set(g, [Idle EXCEPT !.pc = pc, !.kind = k, !.seen = b])
    BY <1>1 DEF Call, DeleteUser, StartManager, Fire, Begin
  <2>2. [Idle EXCEPT !.pc = pc, !.kind = k, !.seen = b].row = NoRow
    BY DEF Idle
  <2>3. RowSound(NoRow)
    BY DEF RowSound, NoRow
  <2>4. \A h \in Ops : RowSound(op'[h].row)
    BY <2>1, <2>2, <2>3, SetSound DEF IInv
  <2>5. RowSound(row')
    <3>1. row \in Rows /\ RowSound(row)
      BY DEF IInv, TypeOK, Sound
    <3>2. CASE UNCHANGED row
      BY <3>1, <3>2
    <3>3. CASE DeleteUser(g)
      <4>1. row' = [row EXCEPT !.users = FALSE, !.enabled = row.enabled /\ row.build \notin Gated]
        BY <3>3 DEF DeleteUser
      <4>2. /\ row'.build = row.build /\ row'.users = FALSE
            /\ row'.enabled = (row.enabled /\ row.build \notin Gated)
        BY <3>1, <4>1 DEF Rows
      <4>3. row'.enabled => row.enabled
        BY <4>2
      <4> QED BY <3>1, <4>2, <4>3 DEF RowSound
    <3> QED BY <1>1, <3>2, <3>3 DEF Call, StartManager, Fire
  <2> QED BY <2>4, <2>5 DEF Sound
<1>2. ASSUME NEW g \in Ops, Step(g)
      PROVE  Sound'
  BY <1>2, WorkSound, DecideSound DEF Step, IInv, Owned
<1>3. CASE StopEnds \/ Change \/ Stop \/ UNCHANGED vars
  BY <1>3 DEF StopEnds, Change, Stop, vars, Sound
<1>4. CASE Crash
  BY <1>4 DEF Crash, Sound, Idle, RowSound, NoRow
<1> QED BY <1>1, <1>2, <1>3, <1>4 DEF Next

LEMMA NextBooting ==
  ASSUME IInv, Booting, [Next]_vars
  PROVE  Booting'
<1>1. ASSUME NEW g \in Ops, Call(g) \/ DeleteUser(g) \/ Fire(g)
      PROVE  Booting'
  <2>1. started # "no" /\ UNCHANGED <<started, watching>> /\ (armed' => armed)
    BY <1>1 DEF Call, DeleteUser, Fire, Serving, manager, Booting, IInv, TypeOK
  <2> QED BY <2>1 DEF Booting
<1>2. ASSUME NEW g \in Ops, StartManager(g)
      PROVE  Booting'
  BY <1>2 DEF StartManager, Booting
<1>3. ASSUME NEW g \in Ops, Step(g)
      PROVE  Booting'
  <2>1. op[g].pc # "idle"
    BY <1>3 DEF Step, Decide, Work, LoadEnabledPlugins, StartWatcher, EnablePlugin, DisablePlugin,
       UpdatePluginSettings, UnloadDisabledPlugins, ReadFolder, ReadRows, Compare, React, Decides,
       Unload, Close, CheckStopped, Enter, Compile, Register, CallPluginInit, Put, Delete, Due, At
  <2>2. started # "no"
    BY <2>1 DEF Booting, Busy
  <2>3. started' = "yes" \/ UNCHANGED <<started, watching, armed>>
    <3>1. CASE Decide(g)
      BY <3>1, DecideMoves DEF manager, IInv, Owned
    <3>2. CASE Work(g)
      BY <3>2 DEF Work, Unload, Close, CheckStopped, Enter, Compile, Register, CallPluginInit,
         Put, Delete, manager
    <3>3. CASE LoadEnabledPlugins(g) \/ StartWatcher(g)
      BY <3>3 DEF LoadEnabledPlugins, StartWatcher, manager
    <3> QED BY <1>3, <3>1, <3>2, <3>3 DEF Step
  <2> QED BY <2>2, <2>3 DEF Booting
<1>4. CASE Stop \/ StopEnds \/ Change \/ UNCHANGED vars
  <2>1. /\ UNCHANGED <<started, op>> /\ (watching' => watching) /\ (armed' => armed \/ watching)
        /\ map' = map \/ map' = 0
    BY <1>4 DEF Stop, StopEnds, Change, vars, manager, IInv, TypeOK
  <2> QED BY <2>1 DEF Booting, Busy
<1>5. CASE Crash
  BY <1>5, IdleIsOp DEF Crash, Booting, Busy
<1> QED BY <1>1, <1>2, <1>3, <1>4, <1>5 DEF Next

(* The programs are different sequences, and these are their ends. *)
LEMMA ProgramsDiffer ==
  /\ <<"put">> # <<>> /\ <<"load">> # <<>> /\ <<"unload">> # <<>> /\ <<"delete">> # <<>>
  /\ <<"load", "put">> # <<>> /\ <<"unload", "put">> # <<>> /\ <<"unload", "load">> # <<>>
  /\ <<"unload", "delete">> # <<>> /\ <<"put", "unload", "load">> # <<>>
  /\ <<"put">> \notin {<<"load">>, <<"unload">>, <<"delete">>}
  /\ <<"load">> \notin {<<"unload">>, <<"delete">>} /\ <<"unload">> # <<"delete">>
  /\ <<"load", "put">> \notin {<<"unload", "put">>, <<"unload", "load">>, <<"unload", "delete">>}
  /\ <<"unload", "put">> \notin {<<"unload", "load">>, <<"unload", "delete">>}
  /\ <<"unload", "load">> # <<"unload", "delete">>
  /\ \A t \in {<<"put">>, <<"load">>, <<"unload">>, <<"delete">>} : Len(t) = 1
  /\ \A t \in {<<"load", "put">>, <<"unload", "put">>, <<"unload", "load">>, <<"unload", "delete">>} :
       Len(t) = 2
  /\ Len(<<"put", "unload", "load">>) = 3
OBVIOUS

LEMMA Ends ==
  /\ Tail(<<"put">>) = <<>> /\ Tail(<<"load">>) = <<>> /\ Tail(<<"unload">>) = <<>>
  /\ Tail(<<"delete">>) = <<>> /\ Tail(<<"load", "put">>) = <<"put">>
  /\ Tail(<<"unload", "put">>) = <<"put">> /\ Tail(<<"unload", "load">>) = <<"load">>
  /\ Tail(<<"unload", "delete">>) = <<"delete">>
  /\ Tail(<<"put", "unload", "load">>) = <<"unload", "load">>
  /\ Head(<<"put">>) = "put" /\ Head(<<"load">>) = "load" /\ Head(<<"unload">>) = "unload"
  /\ Head(<<"delete">>) = "delete" /\ Head(<<"load", "put">>) = "load"
  /\ Head(<<"unload", "put">>) = "unload" /\ Head(<<"unload", "load">>) = "unload"
  /\ Head(<<"unload", "delete">>) = "unload" /\ Head(<<"put", "unload", "load">>) = "put"
OBVIOUS

LEMMA FitsProgram ==
  ASSUME NEW r
  PROVE  /\ ~r.enabled => Fit(r, <<"unload", "put">>)
         /\ Agreement(r) => Fit(r, <<"put">>)
         /\ r.enabled => Fit(r, <<"load", "put">>) /\ Fit(r, <<"put", "unload", "load">>)
         /\ r.enabled /\ row.enabled /\ r.users = row.users =>
              Fit(r, <<"load">>) /\ Fit(r, <<"unload", "load">>)
         /\ ~row.enabled => Fit(r, <<"unload">>)
         /\ map = 0 => Fit(r, <<"delete">>)
         /\ Fit(r, <<"unload", "delete">>)
<1>1. ~r.enabled => Fit(r, <<"unload", "put">>)
  BY ProgramsDiffer DEF Fit, Lefts
<1>2. Agreement(r) => Fit(r, <<"put">>)
  BY ProgramsDiffer DEF Fit, Lefts
<1>3. r.enabled => Fit(r, <<"load", "put">>)
  BY ProgramsDiffer DEF Fit, Lefts
<1>4. r.enabled => Fit(r, <<"put", "unload", "load">>)
  BY ProgramsDiffer DEF Fit, Lefts
<1>5. r.enabled /\ row.enabled /\ r.users = row.users => Fit(r, <<"load">>)
  BY ProgramsDiffer DEF Fit, Lefts
<1>6. r.enabled /\ row.enabled /\ r.users = row.users => Fit(r, <<"unload", "load">>)
  BY ProgramsDiffer DEF Fit, Lefts
<1>7. ~row.enabled => Fit(r, <<"unload">>)
  BY ProgramsDiffer DEF Fit, Lefts
<1>8. map = 0 => Fit(r, <<"delete">>)
  BY ProgramsDiffer DEF Fit, Lefts
<1>9. Fit(r, <<"unload", "delete">>)
  BY ProgramsDiffer DEF Fit, Lefts
<1> QED BY <1>1, <1>2, <1>3, <1>4, <1>5, <1>6, <1>7, <1>8, <1>9

(* The rest of the state as it was. *)
LEMMA FitStays ==
  ASSUME UNCHANGED <<row, map, insts, stopper>>, NEW r, NEW t
  PROVE  (Agreement(r) => Agreement(r)') /\ (Fit(r, t) => Fit(r, t)')
<1>1. Agreement(r) => Agreement(r)'
  BY DEF Agreement
<1> QED BY <1>1 DEF Fit

Alone(g) == \A h \in Ops \ {g} : op[h].pc = "idle"

Solo(g) ==
  /\ Alone(g) /\ Ready(g) /\ op[g].pc # "idle"
  /\ started \in {"running", "yes"} /\ (started = "running" <=> Starting(g))
  /\ overwritten = {}

LEMMA QuietSolo ==
  ASSUME QInv, ~overlapped, ~faulted, NEW g \in Ops, op[g].pc # "idle"
  PROVE  Solo(g)
BY DEF QInv, IInv, TypeOK, Quiet, Booting, Busy, Solo, Alone

(* What has to be seen to when only g moves. *)
LEMMA SoloQuiet ==
  ASSUME NEW g \in Ops, Alone(g), \A h \in Ops \ {g} : op'[h] = op[h], overwritten' = {},
         op'[g].pc # "idle" => Ready(g)' /\ (started' = "running" <=> Starting(g)'),
         op'[g].pc = "idle" => started' # "running" /\ (started' = "yes" => Agreement(row)')
  PROVE  Quiet'
<1>1. \A h \in Ops \ {g} : op'[h].pc = "idle"
  BY DEF Alone
<1>2. \A h \in Ops : op'[h].pc = "idle" => Ready(h)'
  BY DEF Ready, Midway
<1>3. \A h \in Ops : Ready(h)'
  BY <1>1, <1>2
<1>4. \A h, k \in Ops : op'[h].pc # "idle" /\ op'[k].pc # "idle" => h = k
  BY <1>1
<1>5. \A h \in Ops : op'[h].pc # "idle" => (started' = "running" <=> Starting(h)')
  BY <1>1
<1>6. started' = "running" => Busy'
  BY DEF Busy
<1>7. started' = "yes" /\ ~Busy' => Agreement(row)'
  BY DEF Busy
<1> QED BY <1>3, <1>4, <1>5, <1>6, <1>7 DEF Quiet

LEMMA RunIs ==
  ASSUME TypeOK, NEW g \in Ops, NEW r, NEW todo, Run(g, r, todo)
  PROVE  /\ \A h \in Ops \ {g} : op'[h] = op[h]
         /\ todo # <<>> => op'[g].pc = "run" /\ op'[g].row = r /\ op'[g].todo = todo
                          /\ op'[g].kind = op[g].kind
         /\ todo = <<>> /\ op[g].kind = "start" => op'[g].pc = "enabled" /\ op'[g].kind = "load"
         /\ todo = <<>> /\ op[g].kind = "load" => op'[g].pc = "watch" /\ op'[g].kind = "enable"
         /\ todo = <<>> /\ op[g].kind \notin {"start", "load"} => op'[g].pc = "idle"
<1>1. op \in [Ops -> OpType] /\ op[g] \in OpType
  BY DEF TypeOK
<1> DEFINE o == IF todo # <<>> THEN [op[g] EXCEPT !.pc = "run", !.row = r, !.todo = todo, !.inst = 0]
                ELSE CASE op[g].kind = "start" -> [Idle EXCEPT !.pc = "enabled", !.kind = "load"]
                       [] op[g].kind = "load" -> [Idle EXCEPT !.pc = "watch"]
                       [] OTHER -> Idle
<1>2. op' = [op EXCEPT ![g] = o]
  BY DEF Run, Set
<1>3. todo # <<>> => o.pc = "run" /\ o.row = r /\ o.todo = todo /\ o.kind = op[g].kind
  BY <1>1 DEF OpType
<1>4. todo = <<>> /\ op[g].kind = "start" => o.pc = "enabled" /\ o.kind = "load"
  BY DEF Idle
<1>5. todo = <<>> /\ op[g].kind = "load" => o.pc = "watch" /\ o.kind = "enable"
  BY DEF Idle
<1>6. todo = <<>> /\ op[g].kind \notin {"start", "load"} => o.pc = "idle"
  BY DEF Idle
<1> HIDE DEF o
<1>7. op'[g] = o /\ \A h \in Ops \ {g} : op'[h] = op[h]
  BY <1>1, <1>2
<1> QED BY <1>3, <1>4, <1>5, <1>6, <1>7

(* An operation that goes on alone. *)
LEMMA RunQuiet ==
  ASSUME TypeOK, NEW g \in Ops, Solo(g), op[g].pc # "watch", NEW r, NEW todo, Run(g, r, todo),
         overwritten' = overwritten, started' = started,
         op[g].kind = "start" => map' = 0 /\ todo \in Syncs \cup {<<>>},
         todo # <<>> => Fit(r, todo)' /\ (Head(todo) = "load" => map' = 0),
         todo = <<>> /\ op[g].kind # "start" => Agreement(row)'
  PROVE  Quiet'
<1>1. /\ \A h \in Ops \ {g} : op'[h] = op[h]
      /\ todo # <<>> => op'[g].pc = "run" /\ op'[g].row = r /\ op'[g].todo = todo
                       /\ op'[g].kind = op[g].kind
      /\ todo = <<>> /\ op[g].kind = "start" => op'[g].pc = "enabled" /\ op'[g].kind = "load"
      /\ todo = <<>> /\ op[g].kind = "load" => op'[g].pc = "watch" /\ op'[g].kind = "enable"
      /\ todo = <<>> /\ op[g].kind \notin {"start", "load"} => op'[g].pc = "idle"
  BY RunIs
<1>2. Alone(g) /\ overwritten' = {} /\ (started = "running" <=> op[g].kind \in {"start", "load"})
  BY DEF Solo, Starting
<1>3. CASE todo # <<>>
  <2>1. Ready(g)'
    BY <1>1, <1>3 DEF Ready, Midway
  <2>2. started' = "running" <=> Starting(g)'
    BY <1>1, <1>2, <1>3 DEF Starting
  <2>3. op'[g].pc # "idle"
    BY <1>1, <1>3
  <2> QED BY <1>1, <1>2, <2>1, <2>2, <2>3, SoloQuiet
<1>4. CASE todo = <<>> /\ op[g].kind = "start"
  <2>1. Ready(g)'
    BY <1>1, <1>4 DEF Ready, Midway
  <2>2. started' = "running" /\ Starting(g)' /\ op'[g].pc # "idle"
    BY <1>1, <1>2, <1>4 DEF Starting
  <2> QED BY <1>1, <1>2, <2>1, <2>2, SoloQuiet
<1>5. CASE todo = <<>> /\ op[g].kind = "load"
  <2>1. Ready(g)'
    BY <1>1, <1>5 DEF Ready, Midway
  <2>2. started' = "running" /\ Starting(g)' /\ op'[g].pc # "idle"
    BY <1>1, <1>2, <1>5 DEF Starting
  <2> QED BY <1>1, <1>2, <2>1, <2>2, SoloQuiet
<1>6. CASE todo = <<>> /\ op[g].kind \notin {"start", "load"}
  <2>1. op'[g].pc = "idle" /\ started' # "running" /\ Agreement(row)'
    BY <1>1, <1>2, <1>6
  <2> QED BY <1>1, <1>2, <2>1, SoloQuiet
<1> QED BY <1>3, <1>4, <1>5, <1>6

LEMMA DecideQuiet ==
  ASSUME QInv, NEW g \in Ops, Decide(g), ~overlapped', ~faulted'
  PROVE  Quiet'
<1>1. TypeOK /\ op[g] \in OpType /\ row \in Rows /\ file \in Builds \cup {None}
      /\ EmptyHanded /\ Sound /\ op[g].row \in Rows
  BY OpFields DEF QInv, IInv, Owned, TypeOK
<1>2. /\ UNCHANGED <<row, map, insts, stopper, started, overwritten, overlapped>>
      /\ op[g].pc \in {"get", "list", "rows", "compare", "react"}
  <2>1. UNCHANGED <<row, manager, overwritten, overlapped>>
    BY <1>1, DecideMoves
  <2>2. op[g].pc \in {"get", "list", "rows", "compare", "react"}
    BY DEF Decide, EnablePlugin, DisablePlugin, UpdatePluginSettings, UnloadDisabledPlugins,
       ReadFolder, ReadRows, Compare, React, Decides, At
  <2> QED BY <2>1, <2>2 DEF manager
<1>3. ~Fault /\ ~overlapped /\ ~faulted
  <2>1. Fault \/ UNCHANGED faulted
    BY DEF Decide, EnablePlugin, DisablePlugin, UpdatePluginSettings, UnloadDisabledPlugins,
       ReadFolder, ReadRows, Compare, React, Decides, NoFault, history
  <2>2. ~Fault
    BY DEF Fault
  <2> QED BY <1>2, <2>1, <2>2
<1>4. Solo(g) /\ op[g].pc # "watch" /\ Ready(g)
  BY <1>2, <1>3, QuietSolo DEF Solo
<1>5. ASSUME NEW r, NEW t, Run(g, r, t), op[g].kind = "start" => map = 0 /\ t \in Syncs,
             Fit(r, t), Head(t) = "load" => map = 0, t # <<>>
      PROVE  Quiet'
  BY <1>1, <1>2, <1>4, <1>5, FitStays, RunQuiet
<1>6. ASSUME Done(g), op[g].kind = "start" => map = 0, op[g].kind # "start" => Agreement(row)
      PROVE  Quiet'
  <2>1. op[g].kind # "start" => Agreement(row)'
    BY <1>2, <1>6 DEF Agreement
  <2> QED BY <1>1, <1>2, <1>4, <1>6, <2>1, RunQuiet DEF Done
<1>7. op[g].kind = "start" => map = 0
  BY <1>2, <1>4 DEF Ready
<1>8. ASSUME NEW r \in Rows, r.build = None => ~r.enabled,
             op[g].kind # "start" => Agreement(row) /\ r = row,
             Adopt(g, r) \/ Remove(g, r)
      PROVE  Quiet'
  <2>1. CASE Done(g)
    BY <1>6, <1>7, <1>8, <2>1
  <2>2. ~r.enabled => map = 0
    BY <1>7, <1>8 DEF Agreement
  <2>3. ASSUME NEW e \in Rows, ~e.enabled, Run(g, e, UnloadIf(r, "put"))
        PROVE  Quiet'
    <3>1. CASE r.enabled
      <4>1. Run(g, e, <<"unload", "put">>)
        BY <2>3, <3>1 DEF UnloadIf
      <4> QED BY <1>5, <1>7, <2>3, <4>1, FitsProgram, Ends, ProgramsDiffer DEF Syncs
    <3>2. CASE ~r.enabled
      <4>1. Run(g, e, <<"put">>) /\ Agreement(e)
        BY <2>2, <2>3, <3>2 DEF UnloadIf, Agreement
      <4> QED BY <1>5, <1>7, <4>1, FitsProgram, Ends, ProgramsDiffer DEF Syncs
    <3> QED BY <3>1, <3>2
  <2>4. ASSUME Run(g, r, UnloadIf(r, "delete"))
        PROVE  Quiet'
    <3>1. CASE r.enabled
      <4>1. Run(g, r, <<"unload", "delete">>)
        BY <2>4, <3>1 DEF UnloadIf
      <4> QED BY <1>5, <1>7, <4>1, FitsProgram, Ends, ProgramsDiffer DEF Syncs
    <3>2. CASE ~r.enabled
      <4>1. Run(g, r, <<"delete">>) /\ map = 0
        BY <2>2, <2>4, <3>2 DEF UnloadIf
      <4> QED BY <1>5, <1>7, <4>1, FitsProgram, Ends, ProgramsDiffer DEF Syncs
    <3> QED BY <3>1, <3>2
  <2>5. CASE Adopt(g, r)
    <3>1. CASE Readable(file) /\ stopper = "no" /\ r.build = None
      <4>1. PICK e \in Rows : e = Fresh(file)
        BY <1>1, <3>1, FreshIsRow DEF Readable
      <4>2. ~e.enabled /\ Run(g, e, <<"put">>)
        BY <2>5, <3>1, <4>1 DEF Adopt, Fresh
      <4>3. Agreement(e)
        BY <1>8, <2>2, <3>1, <4>2 DEF Agreement
      <4> QED BY <1>5, <1>7, <4>2, <4>3, FitsProgram, Ends, ProgramsDiffer DEF Syncs
    <3>2. CASE Readable(file) /\ stopper = "no" /\ r.build # None
      <4>1. PICK e \in Rows : e = [r EXCEPT !.build = file, !.enabled = FALSE, !.error = FALSE]
        BY <1>1, ChangedRow
      <4>2. ~e.enabled
        BY <4>1 DEF Rows
      <4>3. Run(g, e, UnloadIf(r, "put"))
        BY <2>5, <3>2, <4>1 DEF Adopt
      <4> QED BY <2>3, <4>2, <4>3
    <3>3. CASE ~(Readable(file) /\ stopper = "no")
      <4>1. PICK e \in Rows : e = [r EXCEPT !.enabled = FALSE, !.error = TRUE]
        BY <1>1, ChangedRow
      <4>2. ~e.enabled
        BY <4>1 DEF Rows
      <4>3. Done(g) \/ Run(g, e, UnloadIf(r, "put"))
        BY <2>5, <3>3, <4>1 DEF Adopt
      <4> QED BY <2>1, <2>3, <4>2, <4>3
    <3> QED BY <3>1, <3>2, <3>3
  <2>6. CASE Remove(g, r)
    <3>1. Done(g) \/ Run(g, r, UnloadIf(r, "delete"))
      BY <2>6 DEF Remove
    <3> QED BY <2>1, <2>4, <3>1
  <2> QED BY <1>8, <2>5, <2>6
<1>9. row.build = None => ~row.enabled
  BY <1>1 DEF Sound, RowSound
<1>10. CASE op[g].pc = "get"
  <2>1. op[g].kind \notin {"start", "load"} /\ (op[g].kind # "cleanup" \/ row.enabled => Agreement(row))
    BY <1>4, <1>10 DEF Ready
  <2>2. CASE EnablePlugin(g)
    <3>1. Agreement(row)
      BY <2>1, <2>2 DEF EnablePlugin
    <3>2. PICK e : e = [row EXCEPT !.enabled = TRUE, !.error = FALSE]
      OBVIOUS
    <3>3. e.enabled
      BY <1>1, <3>2 DEF Rows
    <3>4. Done(g) \/ (~row.enabled /\ Run(g, e, <<"load", "put">>))
      BY <2>2, <3>2 DEF EnablePlugin
    <3>5. ~row.enabled => map = 0
      BY <3>1 DEF Agreement
    <3> QED BY <1>5, <1>6, <1>7, <2>1, <3>1, <3>3, <3>4, <3>5, FitsProgram, Ends, ProgramsDiffer DEF Syncs
  <2>3. CASE DisablePlugin(g)
    <3>1. Agreement(row)
      BY <2>1, <2>3 DEF DisablePlugin
    <3>2. PICK e : e = [row EXCEPT !.enabled = FALSE]
      OBVIOUS
    <3>3. ~e.enabled
      BY <1>1, <3>2 DEF Rows
    <3>4. Done(g) \/ Run(g, e, <<"unload", "put">>)
      BY <2>3, <3>2 DEF DisablePlugin
    <3> QED BY <1>5, <1>6, <1>7, <2>1, <3>1, <3>3, <3>4, FitsProgram, Ends, ProgramsDiffer DEF Syncs
  <2>4. CASE UpdatePluginSettings(g)
    <3>1. Agreement(row)
      BY <2>1, <2>4 DEF UpdatePluginSettings
    <3>2. PICK u \in BOOLEAN :
            \/ Done(g)
            \/ ~row.enabled /\ Run(g, [row EXCEPT !.users = u], <<"put">>)
            \/ Run(g, [[row EXCEPT !.users = u] EXCEPT !.enabled = FALSE], <<"unload", "put">>)
            \/ row.enabled /\ Run(g, [row EXCEPT !.users = u], <<"put", "unload", "load">>)
      BY <2>4 DEF UpdatePluginSettings
    <3>3. PICK e : e = [row EXCEPT !.users = u]
      OBVIOUS
    <3>4. PICK d : d = [[row EXCEPT !.users = u] EXCEPT !.enabled = FALSE]
      OBVIOUS
    <3>5. e.enabled = row.enabled /\ ~d.enabled
      BY <1>1, <3>3, <3>4 DEF Rows
    <3>6. ~row.enabled => Agreement(e)
      BY <3>1, <3>5 DEF Agreement
    <3>7. \/ Done(g)
          \/ ~row.enabled /\ Run(g, e, <<"put">>)
          \/ Run(g, d, <<"unload", "put">>)
          \/ row.enabled /\ Run(g, e, <<"put", "unload", "load">>)
      BY <3>2, <3>3, <3>4
    <3> QED BY <1>5, <1>6, <1>7, <2>1, <3>1, <3>5, <3>6, <3>7, FitsProgram, Ends, ProgramsDiffer DEF Syncs
  <2>5. CASE UnloadDisabledPlugins(g)
    <3>1. \/ ~row.enabled /\ Run(g, row, <<"unload">>)
          \/ row.enabled /\ Done(g)
      BY <1>4, <1>10, <2>5 DEF UnloadDisabledPlugins, Ready
    <3>2. CASE ~row.enabled /\ Run(g, row, <<"unload">>)
      <4>1. PICK e : e = row
        OBVIOUS
      <4> QED BY <1>5, <1>7, <2>1, <3>2, <4>1, FitsProgram, Ends, ProgramsDiffer DEF Syncs
    <3>3. CASE row.enabled /\ Done(g)
      BY <1>6, <1>7, <2>1, <3>3
    <3> QED BY <3>1, <3>2, <3>3
  <2> QED BY <1>10, <2>2, <2>3, <2>4, <2>5 DEF Decide, ReadFolder, ReadRows, Compare, React, At
<1>11. CASE op[g].pc \in {"list", "rows", "compare", "react"}
  <2>1. op[g].kind # "load" /\ (op[g].kind # "start" => Agreement(row))
    BY <1>4, <1>11 DEF Ready
  <2>2. ASSUME NEW pc \in {"rows", "compare"}, NEW o, Set(g, o), o.pc = pc, o.kind = op[g].kind,
               pc = "compare" => o.row = row
        PROVE  Quiet'
    <3>1. op'[g] = o /\ \A h \in Ops \ {g} : op'[h] = op[h]
      BY <1>1, <2>2 DEF Set, TypeOK
    <3>2. Agreement(row) => Agreement(row)'
      BY <1>2 DEF Agreement
    <3>3. Ready(g)'
      BY <1>2, <1>7, <2>1, <2>2, <3>1, <3>2 DEF Ready, Midway
    <3>4. started' = "running" <=> Starting(g)'
      BY <1>2, <1>4, <1>11, <2>2, <3>1 DEF Solo, Starting
    <3> QED BY <1>2, <1>4, <2>2, <3>1, <3>3, <3>4, SoloQuiet DEF Solo
  <2>3. CASE ReadFolder(g)
    <3>1. PICK o : o = [op[g] EXCEPT !.pc = "rows", !.seen = file]
      OBVIOUS
    <3>2. o.pc = "rows" /\ o.kind = op[g].kind
      BY <1>1, <3>1 DEF OpType
    <3> QED BY <2>2, <2>3, <3>1, <3>2 DEF ReadFolder
  <2>4. CASE ReadRows(g)
    <3>1. PICK o : o = [op[g] EXCEPT !.pc = "compare", !.row = row]
      OBVIOUS
    <3>2. o.pc = "compare" /\ o.kind = op[g].kind /\ o.row = row
      BY <1>1, <3>1 DEF OpType
    <3> QED BY <1>3, <2>2, <2>4, <3>1, <3>2 DEF ReadRows
  <2>5. CASE Compare(g)
    <3>1. PICK r \in Rows : r = op[g].row /\ r = row
      BY <1>1, <1>4, <2>5 DEF Ready, Compare, At
    <3>2. Remove(g, r) \/ Done(g) \/ Adopt(g, r)
      BY <2>5, <3>1 DEF Compare
    <3> QED BY <1>6, <1>7, <1>8, <1>9, <2>1, <3>1, <3>2
  <2>6. CASE React(g)
    <3>1. PICK r \in Rows : r = row
      BY <1>1
    <3>2. Remove(g, r) \/ Done(g) \/ Adopt(g, r)
      BY <1>3, <2>6, <3>1 DEF React
    <3> QED BY <1>6, <1>7, <1>8, <1>9, <2>1, <3>1, <3>2
  <2> QED BY <1>11, <2>3, <2>4, <2>5, <2>6 DEF Decide, EnablePlugin, DisablePlugin,
      UpdatePluginSettings, UnloadDisabledPlugins, Decides, At
<1> QED BY <1>2, <1>10, <1>11

LEMMA RequestQuiet ==
  ASSUME QInv, NEW g \in Ops, Call(g) \/ DeleteUser(g) \/ StartManager(g) \/ Fire(g),
         ~overlapped', ~faulted'
  PROVE  Quiet'
<1>1. TypeOK /\ op \in [Ops -> OpType] /\ started \in {"no", "running", "yes"}
  BY DEF QInv, IInv, TypeOK
<1>2. PICK k, pc, b : Begin(g, k, pc, b)
  BY DEF Call, DeleteUser, StartManager, Fire
<1>3. ~overlapped /\ ~Busy /\ ~faulted
  <2>1. overlapped' = (overlapped \/ Busy)
    BY <1>2 DEF Begin
  <2>2. ~(overlapped \/ Busy)
    BY <2>1
  <2>3. faulted' = faulted
    BY DEF Call, DeleteUser, StartManager, Fire
  <2> QED BY <2>2, <2>3
<1>4. Alone(g) /\ op[g].pc = "idle"
  BY <1>2, <1>3 DEF Busy, Alone, Begin
<1>5. UNCHANGED <<map, insts, stopper, overwritten>>
  BY DEF Call, DeleteUser, StartManager, Fire, manager
<1>6. /\ overwritten = {} /\ started # "running" /\ (started = "yes" => Agreement(row))
      /\ (started = "no" => map = 0) /\ (armed => started = "yes")
  BY <1>3 DEF QInv, Quiet, Booting
<1>7. ASSUME NEW kind, NEW at, NEW seen, Set(g, [Idle EXCEPT !.pc = at, !.kind = kind, !.seen = seen])
      PROVE  op'[g].pc = at /\ op'[g].kind = kind /\ \A h \in Ops \ {g} : op'[h] = op[h]
  <2>1. PICK o : o = [Idle EXCEPT !.pc = at, !.kind = kind, !.seen = seen]
    OBVIOUS
  <2>2. o.pc = at /\ o.kind = kind
    BY <2>1 DEF Idle
  <2>3. op'[g] = o /\ \A h \in Ops \ {g} : op'[h] = op[h]
    BY <1>1, <1>7, <2>1 DEF Set
  <2> QED BY <2>2, <2>3
<1>8. CASE Call(g)
  <2>1. UNCHANGED <<row, started>> /\ started = "yes"
    BY <1>1, <1>6, <1>8 DEF Call, Serving, manager
  <2>2. /\ \A h \in Ops \ {g} : op'[h] = op[h]
        /\ \/ op'[g].pc = "get" /\ op'[g].kind \in {"enable", "disable", "update"}
           \/ op'[g].pc = "list" /\ op'[g].kind = "rescan"
    BY <1>7, <1>8 DEF Call, Begin
  <2>3. Agreement(row)'
    BY <1>5, <1>6, <2>1 DEF Agreement
  <2>4. Ready(g)'
    BY <2>2, <2>3 DEF Ready, Midway
  <2>5. ~Starting(g)'
    BY <2>2 DEF Starting
  <2>6. op'[g].pc # "idle" /\ started' # "running"
    BY <2>1, <2>2
  <2> QED BY <1>4, <1>5, <1>6, <2>2, <2>4, <2>5, <2>6, SoloQuiet
<1>9. CASE DeleteUser(g)
  <2>1. UNCHANGED started /\ started = "yes"
    BY <1>1, <1>6, <1>9 DEF DeleteUser, Serving, manager
  <2>2. /\ \A h \in Ops \ {g} : op'[h] = op[h]
        /\ op'[g].pc = "get" /\ op'[g].kind = "cleanup"
    BY <1>7, <1>9 DEF DeleteUser, Begin
  <2>3. row \in Rows /\ row.users /\ row.build # None
    BY <1>1, <1>9 DEF TypeOK, DeleteUser, QInv, Sound, RowSound
  <2>4. row' = [row EXCEPT !.users = FALSE, !.enabled = row.enabled /\ row.build \notin Gated]
    BY <1>9 DEF DeleteUser
  <2>5. /\ row'.build = row.build
        /\ row'.enabled = (row.enabled /\ row.build \notin Gated)
    BY <2>3, <2>4 DEF Rows
  <2>6. (row'.enabled => row.enabled) /\ (row'.enabled => row.build \notin Gated)
    BY <2>5
  <2>7. Agreement(row)
    BY <1>6, <2>1
  <2>8. row'.enabled => Agreement(row)'
    BY <1>5, <2>5, <2>6, <2>7 DEF Agreement
  <2>9. Ready(g)'
    BY <2>2, <2>3, <2>5, <2>8 DEF Ready, Midway
  <2>10. op'[g].pc # "idle" /\ started' # "running" /\ ~Starting(g)'
    BY <2>1, <2>2 DEF Starting
  <2> QED BY <1>4, <1>5, <1>6, <2>2, <2>9, <2>10, SoloQuiet
<1>10. CASE StartManager(g)
  <2>1. started = "no" /\ started' = "running"
    BY <1>10 DEF StartManager
  <2>2. /\ \A h \in Ops \ {g} : op'[h] = op[h]
        /\ op'[g].pc = "list" /\ op'[g].kind = "start"
    BY <1>7, <1>10 DEF StartManager, Begin
  <2>3. Ready(g)'
    BY <1>5, <1>6, <2>1, <2>2 DEF Ready, Midway
  <2>4. op'[g].pc # "idle" /\ Starting(g)'
    BY <2>2 DEF Starting
  <2> QED BY <1>4, <1>5, <1>6, <2>1, <2>2, <2>3, <2>4, SoloQuiet
<1>11. CASE Fire(g)
  <2>1. UNCHANGED <<row, started>> /\ started = "yes"
    BY <1>6, <1>11 DEF Fire
  <2>2. /\ \A h \in Ops \ {g} : op'[h] = op[h]
        /\ op'[g].pc = "react" /\ op'[g].kind = "event"
    BY <1>7, <1>11 DEF Fire, Begin
  <2>3. Agreement(row)'
    BY <1>5, <1>6, <2>1 DEF Agreement
  <2>4. Ready(g)'
    BY <2>2, <2>3 DEF Ready, Midway
  <2>5. op'[g].pc # "idle" /\ started' # "running" /\ ~Starting(g)'
    BY <2>1, <2>2 DEF Starting
  <2> QED BY <1>4, <1>5, <1>6, <2>2, <2>4, <2>5, SoloQuiet
<1> QED BY <1>8, <1>9, <1>10, <1>11

LEMMA StartQuiet ==
  ASSUME QInv, NEW g \in Ops, LoadEnabledPlugins(g) \/ StartWatcher(g), ~overlapped', ~faulted'
  PROVE  Quiet'
<1>1. TypeOK /\ row \in Rows
  BY DEF QInv, IInv, TypeOK
<1>2. UNCHANGED <<row, map, insts, stopper, overlapped, faulted, overwritten>>
  BY DEF LoadEnabledPlugins, StartWatcher, manager, history
<1>3. op[g].pc \in {"enabled", "watch"}
  BY DEF LoadEnabledPlugins, StartWatcher, At
<1>4. Solo(g)
  BY <1>2, <1>3, QuietSolo
<1>5. CASE LoadEnabledPlugins(g)
  <2>1. op[g].pc = "enabled" /\ op[g].kind = "load" /\ map = 0 /\ started' = started
    BY <1>4, <1>5 DEF LoadEnabledPlugins, At, Solo, Ready, manager
  <2>2. PICK r : r = [row EXCEPT !.error = FALSE]
    OBVIOUS
  <2>3. r.enabled = row.enabled /\ r.users = row.users
    BY <1>1, <2>2 DEF Rows
  <2>4. \/ row.enabled /\ Run(g, r, <<"load", "put">>)
        \/ row.enabled /\ Run(g, r, <<"load">>)
        \/ ~row.enabled /\ Done(g)
    BY <1>5, <2>2 DEF LoadEnabledPlugins
  <2>5. CASE ~row.enabled /\ Done(g)
    <3>1. Agreement(row)
      BY <2>1, <2>5 DEF Agreement
    <3>2. Agreement(row)'
      BY <1>2, <3>1 DEF Agreement
    <3> QED BY <1>1, <1>2, <1>4, <2>1, <2>5, <3>2, RunQuiet DEF Done
  <2>6. ASSUME NEW t, Run(g, r, t), t # <<>>, Fit(r, t)
        PROVE  Quiet'
    BY <1>1, <1>2, <1>4, <2>1, <2>6, FitStays, RunQuiet
  <2> QED BY <2>3, <2>4, <2>5, <2>6, FitsProgram, ProgramsDiffer
<1>6. CASE StartWatcher(g)
  <2>1. op[g].pc = "watch" /\ started' = "yes" /\ Set(g, Idle)
    BY <1>6 DEF StartWatcher, At
  <2>2. op'[g].pc = "idle" /\ \A h \in Ops \ {g} : op'[h] = op[h]
    BY <1>1, <2>1, IdleIsOp, SetTypes DEF TypeOK
  <2>3. Agreement(row)
    BY <1>4, <2>1 DEF Solo, Ready
  <2>4. Agreement(row)'
    BY <1>2, <2>3 DEF Agreement
  <2> QED BY <1>2, <1>4, <2>1, <2>2, <2>4, SoloQuiet DEF Solo
<1> QED BY <1>5, <1>6

LEMMA OutsideQuiet ==
  ASSUME QInv, Change \/ Stop \/ StopEnds \/ Crash \/ UNCHANGED vars
  PROVE  Quiet'
<1>1. CASE Crash
  <2>1. (\A g \in Ops : op'[g] = Idle) /\ started' = "no" /\ overwritten' = {}
    BY <1>1 DEF Crash
  <2>2. \A g \in Ops : op'[g].pc = "idle"
    BY <2>1, IdleIsOp
  <2>3. \A g \in Ops : Ready(g)'
    BY <2>2 DEF Ready, Midway
  <2> QED BY <2>1, <2>2, <2>3 DEF Quiet
<1>2. CASE Change \/ UNCHANGED vars
  BY <1>2 DEF QInv, Quiet, Ready, Fit, Agreement, Starting, Busy, Change, vars, manager, history
<1>3. CASE Stop \/ StopEnds
  <2> SUFFICES ASSUME ~overlapped', ~faulted' PROVE Quiet'
    BY DEF Quiet
  <2>1. /\ UNCHANGED <<row, started, op, overlapped, faulted, overwritten>> /\ stopper' # "no"
        /\ \/ UNCHANGED <<map, insts>>
           \/ map' = 0 /\ loading = {} /\ UNCHANGED loading
    BY <1>3 DEF Stop, StopEnds, history
  <2>2. ASSUME NEW r, Agreement(r) PROVE Agreement(r)'
    BY <2>1, <2>2 DEF Agreement
  <2>3. map = 0 => map' = 0
    BY <2>1
  <2>4. ASSUME NEW g \in Ops, Ready(g) PROVE Ready(g)'
    <3>1. Agreement(row) => Agreement(row)'
      BY <2>1 DEF Agreement
    <3>2. Fit(op[g].row, op[g].todo) => Fit(op[g].row, op[g].todo)'
      BY <2>1 DEF Fit, Agreement
    <3>3. op[g].pc = "init" \/ op[g].pc = "register" => UNCHANGED <<map, insts>>
      BY <2>1 DEF QInv, IInv, Counted, Loading
    <3> QED BY <2>1, <2>3, <2>4, <3>1, <3>2, <3>3 DEF Ready
  <2> QED BY <2>1, <2>2, <2>4 DEF QInv, Quiet, Starting, Busy
<1> QED BY <1>1, <1>2, <1>3

(* What a program takes for granted after its first step. *)
LEMMA HeadLoad ==
  ASSUME NEW r, NEW t, Fit(r, t), Head(t) = "load", row' = row
  PROVE  t \in {<<"load", "put">>, <<"load">>} /\ Fit(r, t)' /\ r.enabled
<1>1. t \in {<<"load", "put">>, <<"load">>}
  BY Ends DEF Fit, Lefts
<1>2. r.enabled
  BY <1>1 DEF Fit
<1>3. t # <<"put">>
  BY <1>1, ProgramsDiffer
<1>4. CASE t = <<"load", "put">>
  BY <1>2, <1>4, ProgramsDiffer DEF Fit, Lefts
<1>5. CASE t = <<"load">>
  BY <1>2, <1>5, ProgramsDiffer DEF Fit, Lefts
<1> QED BY <1>1, <1>2, <1>4, <1>5

LEMMA HeadUnload ==
  ASSUME NEW r, NEW t, Fit(r, t), Head(t) = "unload", row' = row, map' = 0
  PROVE  /\ Fit(r, t)' /\ t \in {<<"unload", "put">>, <<"unload">>, <<"unload", "load">>, <<"unload", "delete">>}
         /\ Tail(t) # <<>> => Fit(r, Tail(t))'
         /\ Tail(t) = <<>> => Agreement(row)'
<1>1. t \in {<<"unload", "put">>, <<"unload">>, <<"unload", "load">>, <<"unload", "delete">>}
  BY Ends DEF Fit, Lefts
<1>2. CASE t = <<"unload", "put">>
  <2>1. Tail(t) = <<"put">> /\ ~r.enabled
    BY <1>2, Ends DEF Fit
  <2>2. Agreement(r)'
    BY <2>1 DEF Agreement
  <2> QED BY <1>1, <1>2, <2>1, <2>2, ProgramsDiffer DEF Fit, Lefts
<1>3. CASE t = <<"unload">>
  <2>1. Tail(t) = <<>> /\ ~row.enabled
    BY <1>3, Ends DEF Fit
  <2>2. Agreement(row)'
    BY <2>1 DEF Agreement
  <2> QED BY <1>1, <1>3, <2>1, <2>2, ProgramsDiffer DEF Fit, Lefts
<1>4. CASE t = <<"unload", "load">>
  <2>1. Tail(t) = <<"load">> /\ r.enabled /\ row.enabled /\ r.users = row.users
    BY <1>4, Ends DEF Fit
  <2> QED BY <1>1, <1>4, <2>1, ProgramsDiffer DEF Fit, Lefts
<1>5. CASE t = <<"unload", "delete">>
  <2>1. Tail(t) = <<"delete">>
    BY <1>5, Ends
  <2> QED BY <1>1, <1>5, <2>1, ProgramsDiffer DEF Fit, Lefts
<1> QED BY <1>1, <1>2, <1>3, <1>4, <1>5

(* The steps of an operation that runs alone. *)
LEMMA WorkSolo ==
  ASSUME QInv, NEW g \in Ops, Work(g), ~overlapped', ~faulted'
  PROVE  /\ TypeOK /\ op[g] \in OpType /\ Solo(g) /\ ~Fault /\ started' = started
         /\ op[g].pc \in Midway /\ Fit(op[g].row, op[g].todo)
         /\ op[g].kind = "start" => map = 0 /\ op[g].todo \in Syncs
<1>1. TypeOK /\ op[g] \in OpType
  BY DEF QInv, IInv, TypeOK
<1>2. op[g].pc \in Midway
  BY DEF Work, Unload, Close, CheckStopped, Enter, Compile, Register, CallPluginInit, Put, Delete,
     Due, At, Midway
<1>3. UNCHANGED <<overlapped, started>>
  BY DEF Work, Unload, Close, CheckStopped, Enter, Compile, Register, CallPluginInit, Put, Delete,
     history, manager
<1>4. Fault \/ UNCHANGED faulted
  BY DEF Work, Unload, Close, CheckStopped, Enter, Compile, Register, CallPluginInit, Put, Delete,
     history, NoFault
<1>5. ~Fault
  BY DEF Fault
<1>6. Solo(g)
  BY <1>2, <1>3, <1>4, <1>5, QuietSolo DEF Midway
<1> QED BY <1>1, <1>2, <1>3, <1>5, <1>6 DEF Solo, Ready, Midway

(* An operation moves to another place of the same program. *)
LEMMA PlaceQuiet ==
  ASSUME TypeOK, NEW g \in Ops, Solo(g), op[g].pc \in Midway,
         NEW pc \in Midway, NEW i, NEW r, NEW t, r = op[g].row, t = op[g].todo,
         Set(g, [op[g] EXCEPT !.pc = pc, !.inst = i]),
         overwritten' = {}, started' = started, Fit(r, t)',
         op[g].kind = "start" => map' = 0 /\ t \in Syncs,
         pc \in {"closing", "enter", "compile", "register", "init"},
         pc = "closing" => map' = 0 /\ Head(t) = "unload",
         pc \in {"enter", "compile", "register"} => map' = 0 /\ Head(t) = "load",
         pc = "register" => insts'[i].users = r.users,
         pc = "init" => map' # 0 /\ insts'[map'].users = r.users /\ Head(t) = "load"
  PROVE  Quiet'
<1>1. op \in [Ops -> OpType] /\ op[g] \in OpType
  BY DEF TypeOK
<1>2. PICK o : o = [op[g] EXCEPT !.pc = pc, !.inst = i]
  OBVIOUS
<1>3. o.pc = pc /\ o.inst = i /\ o.kind = op[g].kind /\ o.row = r /\ o.todo = t
  BY <1>1, <1>2 DEF OpType
<1>4. op'[g] = o /\ \A h \in Ops \ {g} : op'[h] = op[h]
  BY <1>1, <1>2 DEF Set
<1>5. Ready(g)'
  BY <1>3, <1>4 DEF Ready, Midway
<1>6. started' = "running" <=> Starting(g)'
  BY <1>3, <1>4 DEF Solo, Starting, Midway
<1>7. op'[g].pc # "idle"
  BY <1>3, <1>4
<1> QED BY <1>4, <1>5, <1>6, <1>7, SoloQuiet DEF Solo

(* A load that fails, with nothing in the map. *)
LEMMA LoadFailsQuiet ==
  ASSUME TypeOK, NEW g \in Ops, Solo(g), op[g].pc \in Midway, map' = 0,
         overwritten' = overwritten, started' = started, LoadFails(g)
  PROVE  Quiet'
<1>1. op[g].row \in Rows
  BY OpFields DEF TypeOK
<1>2. PICK e : e = [op[g].row EXCEPT !.enabled = FALSE, !.error = TRUE]
  OBVIOUS
<1>3. ~e.enabled
  BY <1>1, <1>2 DEF Rows
<1>4. Run(g, e, <<"put">>)
  BY <1>2 DEF LoadFails
<1>5. Agreement(e)'
  BY <1>3 DEF Agreement
<1>6. Fit(e, <<"put">>)'
  BY <1>5, ProgramsDiffer DEF Fit, Lefts
<1>7. op[g].pc # "watch"
  BY DEF Midway
<1> QED BY <1>4, <1>6, <1>7, RunQuiet, ProgramsDiffer, Ends DEF Syncs

LEMMA LoadQuiet ==
  ASSUME QInv, NEW g \in Ops, CheckStopped(g) \/ Enter(g) \/ Compile(g) \/ Register(g),
         ~overlapped', ~faulted'
  PROVE  Quiet'
<1>1. /\ TypeOK /\ op[g] \in OpType /\ Solo(g) /\ started' = started
      /\ op[g].pc \in Midway /\ Fit(op[g].row, op[g].todo)
      /\ op[g].kind = "start" => map = 0 /\ op[g].todo \in Syncs
  BY WorkSolo DEF Work
<1>2. PICK r, t, i : r = op[g].row /\ t = op[g].todo /\ i = op[g].inst
  OBVIOUS
<1>3. Ready(g) /\ overwritten = {}
  BY <1>1 DEF Solo
<1>4. map = 0 /\ Head(t) = "load" /\ row' = row
  <2>1. Head(t) = "load" /\ row' = row
    BY <1>2, <1>3 DEF CheckStopped, Enter, Compile, Register, Due, At, Ready
  <2>2. map = 0
    BY <1>2, <1>3, <2>1 DEF CheckStopped, Enter, Compile, Register, Due, At, Ready
  <2> QED BY <2>1, <2>2
<1>5. Fit(r, t)' /\ r.enabled /\ t \in {<<"load", "put">>, <<"load">>}
  BY <1>1, <1>2, <1>4, HeadLoad
<1>6. op[g].kind # "start"
  BY <1>1, <1>2, <1>5, ProgramsDiffer DEF Syncs
<1>7. ASSUME NEW pc \in {"enter", "compile", "register"}, NEW k,
             Set(g, [op[g] EXCEPT !.pc = pc, !.inst = k]), map' = 0, overwritten' = overwritten,
             pc = "register" => insts'[k].users = r.users
      PROVE  Quiet'
  BY <1>1, <1>2, <1>3, <1>4, <1>5, <1>6, <1>7, PlaceQuiet DEF Midway
<1>8. ASSUME LoadFails(g), map' = 0, overwritten' = overwritten
      PROVE  Quiet'
  BY <1>1, <1>8, LoadFailsQuiet
<1>9. ASSUME NEW pc \in {"enter", "compile"}
      PROVE  [op[g] EXCEPT !.pc = pc] = [op[g] EXCEPT !.pc = pc, !.inst = i]
  BY <1>1, <1>2 DEF OpType
<1>10. CASE CheckStopped(g)
  <2>1. LoadFails(g) \/ Set(g, [op[g] EXCEPT !.pc = "enter", !.inst = i])
    BY <1>9, <1>10 DEF CheckStopped
  <2>2. UNCHANGED <<map, overwritten>>
    BY <1>10 DEF CheckStopped, manager, history
  <2> QED BY <1>4, <1>7, <1>8, <2>1, <2>2
<1>11. CASE Enter(g)
  <2>1. LoadFails(g) \/ Set(g, [op[g] EXCEPT !.pc = "compile", !.inst = i])
    BY <1>9, <1>11 DEF Enter
  <2>2. UNCHANGED <<map, overwritten>>
    BY <1>11 DEF Enter, history
  <2> QED BY <1>4, <1>7, <1>8, <2>1, <2>2
<1>12. CASE Compile(g)
  <2>1. UNCHANGED <<map, overwritten>>
    BY <1>12 DEF Compile
  <2>2. \/ LoadFails(g)
        \/ /\ Set(g, [op[g] EXCEPT !.pc = "register", !.inst = Len(insts) + 1])
           /\ insts' = Append(insts, [users |-> op[g].row.users, open |-> TRUE])
    BY <1>12 DEF Compile
  <2>3. CASE LoadFails(g)
    BY <1>4, <1>8, <2>1, <2>3
  <2>4. CASE /\ Set(g, [op[g] EXCEPT !.pc = "register", !.inst = Len(insts) + 1])
             /\ insts' = Append(insts, [users |-> op[g].row.users, open |-> TRUE])
    <3>1. insts'[Len(insts) + 1] = [users |-> r.users, open |-> TRUE]
      <4> DEFINE S == [users : BOOLEAN, open : BOOLEAN]
                 x == [users |-> r.users, open |-> TRUE]
      <4>1. insts \in Seq(S) /\ insts' = Append(insts, x)
        BY <1>1, <1>2, <2>4 DEF TypeOK
      <4>2. r.users \in BOOLEAN
        BY <1>1, <1>2, OpFields, RowFields
      <4>3. x \in S
        BY <4>2
      <4> HIDE DEF S, x
      <4>4. insts'[Len(insts) + 1] = x
        BY <4>1, <4>3
      <4> QED BY <4>4 DEF x
    <3>2. PICK k : k = Len(insts) + 1
      OBVIOUS
    <3>3. insts'[k].users = r.users /\ Set(g, [op[g] EXCEPT !.pc = "register", !.inst = k])
      BY <2>4, <3>1, <3>2
    <3> QED BY <1>4, <1>7, <2>1, <3>3
  <2> QED BY <2>2, <2>3, <2>4
<1>13. CASE Register(g)
  <2>1. /\ Set(g, [op[g] EXCEPT !.pc = "init", !.inst = 0]) /\ map' = i /\ insts' = insts
        /\ overwritten' = {}
    BY <1>2, <1>3, <1>4, <1>13 DEF Register
  <2>2. i # 0
    BY <1>2, <1>13 DEF QInv, IInv, Owned, Holding, Register, At
  <2>3. insts[i].users = r.users
    BY <1>2, <1>3, <1>13 DEF Ready, Register, At
  <2> QED BY <1>1, <1>2, <1>4, <1>5, <1>6, <2>1, <2>2, <2>3, PlaceQuiet DEF Midway
<1> QED BY <1>10, <1>11, <1>12, <1>13

LEMMA UnloadQuiet ==
  ASSUME QInv, NEW g \in Ops, Unload(g) \/ Close(g), ~overlapped', ~faulted'
  PROVE  Quiet'
<1>1. /\ TypeOK /\ op[g] \in OpType /\ Solo(g) /\ started' = started
      /\ op[g].pc \in Midway /\ Fit(op[g].row, op[g].todo)
      /\ op[g].kind = "start" => map = 0 /\ op[g].todo \in Syncs
  BY WorkSolo DEF Work
<1>2. PICK r, t : r = op[g].row /\ t = op[g].todo
  OBVIOUS
<1>3. Ready(g) /\ overwritten = {} /\ UNCHANGED <<row, overwritten>>
  BY <1>1 DEF Solo, Unload, Close, history
<1>4. Head(t) = "unload" /\ map' = 0
  BY <1>2, <1>3 DEF Unload, Close, Due, At, Ready
<1>5. /\ Fit(r, t)' /\ t \in {<<"unload", "put">>, <<"unload">>, <<"unload", "load">>, <<"unload", "delete">>}
      /\ Tail(t) # <<>> => Fit(r, Tail(t))'
      /\ Tail(t) = <<>> => Agreement(row)'
  BY <1>1, <1>2, <1>3, <1>4, HeadUnload
<1>6. t \in Syncs => Tail(t) \in Syncs
  BY <1>5, Ends, ProgramsDiffer DEF Syncs
<1>7. CASE Run(g, r, Tail(t))
  <2>1. op[g].pc # "watch"
    BY <1>1 DEF Midway
  <2> QED BY <1>1, <1>2, <1>3, <1>4, <1>5, <1>6, <1>7, <2>1, RunQuiet
<1>8. CASE Set(g, [op[g] EXCEPT !.pc = "closing", !.inst = map])
  <2>1. PICK k : k = map
    OBVIOUS
  <2>2. Set(g, [op[g] EXCEPT !.pc = "closing", !.inst = k])
    BY <1>8, <2>1
  <2> QED BY <1>1, <1>2, <1>3, <1>4, <1>5, <2>2, PlaceQuiet DEF Midway
<1> QED BY <1>2, <1>7, <1>8 DEF Unload, Close, Proceed

LEMMA InitQuiet ==
  ASSUME QInv, NEW g \in Ops, CallPluginInit(g), ~overlapped', ~faulted'
  PROVE  Quiet'
<1>1. /\ TypeOK /\ op[g] \in OpType /\ Solo(g) /\ started' = started
      /\ op[g].pc \in Midway /\ Fit(op[g].row, op[g].todo)
      /\ op[g].kind = "start" => map = 0 /\ op[g].todo \in Syncs
  BY WorkSolo DEF Work
<1>2. PICK r, t : r = op[g].row /\ t = op[g].todo
  OBVIOUS
<1>3. op[g].pc = "init" /\ UNCHANGED <<row, map, insts, stopper, overwritten>>
  BY DEF CallPluginInit, At, history
<1>4. map # 0 /\ insts[map].users = r.users /\ Head(t) = "load"
  BY <1>1, <1>2, <1>3 DEF Solo, Ready
<1>5. t \in {<<"load", "put">>, <<"load">>} /\ r.enabled /\ op[g].kind # "start"
  BY <1>1, <1>2, <1>3, <1>4, HeadLoad
<1>6. Run(g, r, Tail(t))
  BY <1>2, <1>4 DEF CallPluginInit, Proceed
<1>7. Agreement(r)'
  BY <1>3, <1>4, <1>5 DEF Agreement
<1>8. CASE t = <<"load", "put">>
  <2>1. Tail(t) = <<"put">>
    BY <1>8, Ends
  <2>2. Fit(r, <<"put">>)'
    BY <1>7, ProgramsDiffer DEF Fit, Lefts
  <2> QED BY <1>1, <1>3, <1>5, <1>6, <2>1, <2>2, RunQuiet, Ends, ProgramsDiffer
<1>9. CASE t = <<"load">>
  <2>1. Tail(t) = <<>>
    BY <1>9, Ends
  <2>2. row.enabled /\ r.users = row.users
    BY <1>1, <1>2, <1>9 DEF Fit
  <2>3. Agreement(row)'
    BY <1>3, <1>4, <2>2 DEF Agreement
  <2> QED BY <1>1, <1>3, <1>5, <1>6, <2>1, <2>3, RunQuiet
<1> QED BY <1>5, <1>8, <1>9

LEMMA PutQuiet ==
  ASSUME QInv, NEW g \in Ops, Put(g) \/ Delete(g), ~overlapped', ~faulted'
  PROVE  Quiet'
<1>1. /\ TypeOK /\ op[g] \in OpType /\ Solo(g) /\ started' = started /\ ~Fault
      /\ op[g].pc \in Midway /\ Fit(op[g].row, op[g].todo)
      /\ op[g].kind = "start" => map = 0 /\ op[g].todo \in Syncs
  BY WorkSolo DEF Work
<1>2. PICK r, t : r = op[g].row /\ t = op[g].todo
  OBVIOUS
<1>3. UNCHANGED <<map, insts, stopper, overwritten>> /\ op[g].pc # "watch" /\ Run(g, r, Tail(t))
  BY <1>1, <1>2 DEF Put, Delete, manager, Due, At, Proceed
<1>4. CASE Put(g)
  <2>1. row' = r /\ Head(t) = "put"
    BY <1>1, <1>2, <1>4 DEF Put, Due
  <2>2. t \in {<<"put">>, <<"put", "unload", "load">>}
    BY <1>1, <1>2, <2>1, Ends DEF Fit, Lefts
  <2>3. CASE t = <<"put">>
    <3>1. Agreement(r) /\ Tail(t) = <<>>
      BY <1>1, <1>2, <2>3, Ends DEF Fit
    <3>2. Agreement(row)'
      BY <1>3, <2>1, <3>1 DEF Agreement
    <3> QED BY <1>1, <1>3, <3>1, <3>2, RunQuiet
  <2>4. CASE t = <<"put", "unload", "load">>
    <3>1. r.enabled /\ Tail(t) = <<"unload", "load">>
      BY <1>1, <1>2, <2>4, Ends DEF Fit
    <3>2. Fit(r, <<"unload", "load">>)'
      BY <2>1, <3>1, ProgramsDiffer DEF Fit, Lefts
    <3>3. op[g].kind # "start"
      <4>1. t \notin Syncs
        BY <2>4, ProgramsDiffer DEF Syncs
      <4> QED BY <1>1, <1>2, <4>1
    <3> QED BY <1>1, <1>3, <3>1, <3>2, <3>3, RunQuiet, Ends, ProgramsDiffer
  <2> QED BY <2>2, <2>3, <2>4
<1>5. CASE Delete(g)
  <2>1. row' = NoRow /\ Head(t) = "delete"
    BY <1>1, <1>2, <1>5 DEF Delete, Due
  <2>2. t = <<"delete">>
    BY <1>1, <1>2, <2>1, Ends DEF Fit, Lefts
  <2>3. map = 0 /\ Tail(t) = <<>>
    BY <1>1, <1>2, <2>2, Ends DEF Fit
  <2>4. Agreement(row)'
    BY <1>3, <2>1, <2>3 DEF Agreement, NoRow
  <2> QED BY <1>1, <1>3, <2>3, <2>4, RunQuiet
<1> QED BY <1>4, <1>5

LEMMA NextQuiet ==
  ASSUME QInv, [Next]_vars
  PROVE  Quiet'
<1>1. CASE Change \/ Stop \/ StopEnds \/ Crash \/ UNCHANGED vars
  BY <1>1, OutsideQuiet
<1>2. ASSUME NEW g \in Ops,
             Call(g) \/ DeleteUser(g) \/ StartManager(g) \/ Fire(g) \/ Step(g)
      PROVE  Quiet'
  <2> SUFFICES ASSUME ~overlapped', ~faulted' PROVE Quiet'
    BY DEF Quiet
  <2> QED BY <1>2, RequestQuiet, DecideQuiet, StartQuiet, LoadQuiet, UnloadQuiet, InitQuiet, PutQuiet
          DEF Step, Work
<1> QED BY <1>1, <1>2 DEF Next

LEMMA InitQInv == Init => QInv
<1> SUFFICES ASSUME Init PROVE QInv
  OBVIOUS
<1>1. \A g \in Ops : op[g] = Idle /\ op[g].pc = "idle"
  BY IdleIsOp DEF Init
<1>2. Sound
  <2>1. row \in Rows /\ (row.build = None => row = NoRow)
    BY PluginAssumption DEF Init
  <2>2. RowSound(row) /\ RowSound(Idle.row)
    BY <2>1 DEF RowSound, NoRow, Idle
  <2> QED BY <1>1, <2>2 DEF Sound
<1>3. Booting
  BY <1>1 DEF Init, Booting, Busy
<1>4. \A g \in Ops : Ready(g)
  BY <1>1 DEF Ready, Midway
<1>5. Quiet
  BY <1>1, <1>4 DEF Init, Quiet
<1> QED BY <1>2, <1>3, <1>5, InitInv DEF QInv

(* The invariant of one operation at a time holds in every state. *)
THEOREM InductiveQuiet == Spec => []QInv
<1>1. Init => QInv
  BY InitQInv
<1>2. QInv /\ [Next]_vars => QInv'
  BY NextInv, NextSound, NextBooting, NextQuiet DEF QInv
<1> QED BY <1>1, <1>2, PTL DEF Spec

(* No instance is lost track of: an open one is in the map, in somebody's     *)
(* hand, left over from a failed load, or was overwritten, and that takes two *)
(* operations at once or a failed write.                                     *)
THEOREM InstancesAccountedFor == Spec => []OpenIsKnown
<1>1. QInv => OpenIsKnown
  BY DEF QInv, IInv, Known, Quiet, OpenIsKnown
<1> QED BY <1>1, InductiveQuiet, PTL

(* Operations one at a time, whatever order they come in, keep the row and    *)
(* the map in agreement: enabled is loaded, and for those the row names.      *)
THEOREM RowAndMapAgree == Spec => []RowTellsMap
<1>1. QInv => RowTellsMap
  BY DEF QInv, Quiet, Agreement, RowTellsMap
<1> QED BY <1>1, InductiveQuiet, PTL
=============================================================================
