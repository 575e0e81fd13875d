--------------------------- MODULE PlaybackProofs ---------------------------
(***************************************************************************)
(* Proofs about Playback: its types, that no player is lost while calls do  *)
(* not overlap, that the active track is the one at the index, and that the *)
(* switcher goes through the queue in order, for any queue and any numbers  *)
(* of songs, players, requests and faults.                                  *)
(***************************************************************************)
EXTENDS Playback, SequenceTheorems, WellFoundedInduction, TLAPS

----------------------------------------------------------------------------
(* Facts about numbers and the queue. *)

Less == {p \in Nat \X Nat : p[1] < p[2]}

(* A set of numbers that is not empty has a least element. *)
LEMMA LeastExists == ASSUME NEW T \in SUBSET Nat, T # {} PROVE \E x \in T : \A y \in T : x <= y
  <1>1. IsWellFoundedOn(Less, Nat)
    <2>1. IsWellFoundedOn(OpToRel(<, Nat), Nat)
      BY NatLessThanWellFounded
    <2>2. OpToRel(<, Nat) = Less
      BY DEF OpToRel, Less
    <2> QED BY <2>1, <2>2
  <1>2. PICK x \in T : \A y \in T : <<y, x>> \notin Less
    BY <1>1, WFMin
  <1>3. \A y \in T : y < x => <<y, x>> \in Less
    BY DEF Less
  <1>4. \A y \in T : ~(y < x) /\ y \in Nat /\ x \in Nat
    BY <1>2, <1>3
  <1> QED BY <1>4

(* IndexOf finds a place of the song where there is one. *)
LEMMA IndexOfFinds ==
  ASSUME NEW queue \in Seq(Songs), NEW song
  PROVE  LET i == IndexOf(queue, song)
         IN IF \E k \in DOMAIN queue : queue[k] = song
            THEN i \in 0 .. Len(queue) - 1 /\ queue[i + 1] = song
            ELSE i = -1
  <1>1. CASE \E k \in DOMAIN queue : queue[k] = song
    <2> DEFINE T == {j \in Nat : j + 1 \in DOMAIN queue /\ queue[j + 1] = song}
    <2>1. PICK k \in DOMAIN queue : queue[k] = song
      BY <1>1
    <2>2. k \in 1 .. Len(queue) /\ Len(queue) \in Nat
      OBVIOUS
    <2>3. k - 1 \in T /\ T \in SUBSET Nat
      BY <2>1, <2>2
    <2>4. PICK x \in T : \A y \in T : x <= y
      <3> HIDE DEF T
      <3> QED BY <2>3, LeastExists
    <2>5. x \in 0 .. Len(queue) - 1 /\ queue[x + 1] = song
      BY <2>2
    <2>6. \A j \in 1 .. x : queue[j] # song
      <3> TAKE j \in 1 .. x
      <3>1. j - 1 \in Nat /\ j - 1 < x /\ (j - 1) + 1 = j /\ j \in DOMAIN queue
        BY <2>5
      <3>2. j - 1 \notin T
        BY <2>4, <3>1
      <3> QED BY <3>1, <3>2
    <2> DEFINE P(i) == queue[i + 1] = song /\ \A j \in 1 .. i : queue[j] # song
               c == CHOOSE i \in 0 .. Len(queue) - 1 : P(i)
    <2>7. P(x)
      BY <2>5, <2>6
    <2>8. c \in 0 .. Len(queue) - 1 /\ P(c)
      <3> HIDE DEF P
      <3> QED BY <2>5, <2>7
    <2>9. IndexOf(queue, song) = c
      BY <1>1 DEF IndexOf
    <2> HIDE DEF c
    <2> QED BY <1>1, <2>8, <2>9
  <1>2. CASE ~\E k \in DOMAIN queue : queue[k] = song
    BY <1>2 DEF IndexOf
  <1> QED BY <1>1, <1>2

(* What TypeOK says of the queue. *)
QueueOK ==
  /\ items \in Seq(Songs) /\ Len(items) <= MaxItems
  /\ index \in {-1, 0} \cup 0 .. Len(items) - 1

LEMMA QueueFacts ==
  ASSUME QueueOK
  PROVE  /\ items \in Seq(Songs) /\ Len(items) \in Nat /\ DOMAIN items = 1 .. Len(items)
         /\ \A k \in 1 .. Len(items) : items[k] \in Songs
         /\ index \in Int /\ MaxItems \in Nat /\ None \notin Songs
         /\ \A i : i \in 0 .. Len(items) - 1 => Current(i) = items[i + 1] /\ Current(i) \in Songs
         /\ \A i : i \notin 0 .. Len(items) - 1 => Current(i) = None
  <1>1. items \in Seq(Songs) /\ Len(items) \in Nat /\ index \in Int
    BY DEF QueueOK
  <1>2. MaxItems \in Nat /\ None \notin Songs
    BY PlaybackAssumption
  <1>3. \A k \in 1 .. Len(items) : items[k] \in Songs
    BY <1>1
  <1>4. \A i : i \in 0 .. Len(items) - 1 => i + 1 \in 1 .. Len(items)
    BY <1>1
  <1>5. \A i : i \in 0 .. Len(items) - 1 => Current(i) = items[i + 1]
    BY DEF Current
  <1>6. \A i : i \notin 0 .. Len(items) - 1 => Current(i) = None
    BY DEF Current
  <1> QED BY <1>1, <1>2, <1>3, <1>4, <1>5, <1>6

LEMMA ClampFacts ==
  ASSUME QueueOK, NEW i \in Int
  PROVE  /\ Clamp(i) \in {0} \cup 0 .. Len(items) - 1
         /\ i \in 0 .. Len(items) - 1 => Clamp(i) = i
  <1>1. Len(items) \in Nat
    BY QueueFacts
  <1> QED BY <1>1 DEF Clamp

(* Adding a song keeps the current one. *)
LEMMA PutFacts ==
  ASSUME QueueOK, NEW song \in Songs, Put(song)
  PROVE  QueueOK' /\ (Current(index) # None => Current(index)' = Current(index))
  <1>1. items' = Append(items, song) /\ Len(items) < MaxItems
        /\ index' = IF index = -1 THEN 0 ELSE index
    BY DEF Put
  <1>2. items' \in Seq(Songs) /\ Len(items') = Len(items) + 1
        /\ \A k \in 1 .. Len(items) : items'[k] = items[k]
    BY <1>1, QueueFacts
  <1>3. QueueOK'
    <2>1. Len(items) \in Nat /\ MaxItems \in Nat /\ index \in {-1, 0} \cup 0 .. Len(items) - 1
      BY QueueFacts DEF QueueOK
    <2>2. index' \in {-1, 0} \cup 0 .. Len(items') - 1 /\ Len(items') <= MaxItems
      BY <1>1, <1>2, <2>1
    <2> QED BY <1>2, <2>2 DEF QueueOK
  <1>4. ASSUME Current(index) # None PROVE Current(index)' = Current(index)
    <2>1. index \in 0 .. Len(items) - 1 /\ Len(items) \in Nat /\ Current(index) = items[index + 1]
      BY <1>4, QueueFacts
    <2>2. index' = index /\ index \in 0 .. Len(items') - 1 /\ items'[index + 1] = items[index + 1]
      BY <1>1, <1>2, <2>1
    <2> QED BY <2>1, <2>2 DEF Current
  <1> QED BY <1>3, <1>4

LEMMA DropFacts ==
  ASSUME QueueOK, NEW i \in 0 .. Len(items) - 1
  PROVE  /\ Drop(i) \in Seq(Songs) /\ Len(Drop(i)) = Len(items) - 1
         /\ \A k \in 1 .. Len(items) : k # i + 1 => \E m \in DOMAIN Drop(i) : Drop(i)[m] = items[k]
  <1> DEFINE a == SubSeq(items, 1, i)
             b == SubSeq(items, i + 2, Len(items))
             n == Len(items)
  <1>1. items \in Seq(Songs) /\ n \in Nat /\ i \in Nat /\ i + 1 <= n
    BY QueueFacts
  <1>2. a \in Seq(Songs) /\ Len(a) = i /\ \A k \in 1 .. i : a[k] = items[k]
    BY <1>1
  <1>3. b \in Seq(Songs) /\ Len(b) = n - (i + 1) /\ \A k \in 1 .. n - (i + 1) : b[k] = items[k + i + 1]
    BY <1>1
  <1>4. Drop(i) = a \o b
    BY DEF Drop
  <1> HIDE DEF a, b
  <1>5. /\ a \o b \in Seq(Songs) /\ Len(a \o b) = Len(a) + Len(b)
        /\ \A k \in 1 .. Len(a) + Len(b) : (a \o b)[k] = IF k <= Len(a) THEN a[k] ELSE b[k - Len(a)]
    <2>1. a \in Seq(Songs) /\ b \in Seq(Songs)
      BY <1>2, <1>3
    <2> QED BY <2>1, ConcatProperties
  <1>6. Len(a) + Len(b) = n - 1
    BY <1>1, <1>2, <1>3
  <1>7. ASSUME NEW k \in 1 .. n, k # i + 1
        PROVE  \E m \in DOMAIN (a \o b) : (a \o b)[m] = items[k]
    <2>1. CASE k <= i
      <3>1. k \in 1 .. i /\ k \in 1 .. n - 1 /\ k <= Len(a)
        BY <1>1, <1>2, <2>1
      <3>2. (a \o b)[k] = items[k]
        BY <1>2, <1>5, <1>6, <3>1
      <3>3. k \in DOMAIN (a \o b)
        BY <1>5, <1>6, <3>1
      <3> QED BY <3>2, <3>3
    <2>2. CASE ~(k <= i)
      <3> DEFINE m == k - 1
      <3>1. m \in 1 .. n - 1 /\ ~(m <= Len(a)) /\ m - Len(a) \in 1 .. n - (i + 1)
            /\ (m - Len(a)) + i + 1 = k
        BY <1>1, <1>2, <1>7, <2>2
      <3>2. (a \o b)[m] = items[k]
        BY <1>2, <1>3, <1>5, <1>6, <3>1
      <3>3. m \in DOMAIN (a \o b)
        BY <1>5, <1>6, <3>1
      <3> QED BY <3>2, <3>3
    <2> QED BY <2>1, <2>2
  <1> QED BY <1>4, <1>5, <1>6, <1>7

(* A shuffled queue has the same songs. *)
LEMMA ShuffleFacts ==
  ASSUME QueueOK, NEW f \in Bijection(DOMAIN items, DOMAIN items),
         NEW queue, queue = [k \in DOMAIN items |-> items[f[k]]]
  PROVE  /\ queue \in Seq(Songs) /\ Len(queue) = Len(items)
         /\ \A k \in 1 .. Len(items) : \E m \in DOMAIN queue : queue[m] = items[k]
  <1>1. /\ f \in [DOMAIN items -> DOMAIN items]
        /\ \A t \in DOMAIN items : \E s \in DOMAIN items : f[s] = t
    BY DEF Bijection, Surjection
  <1>2. DOMAIN items = 1 .. Len(items) /\ Len(items) \in Nat
        /\ \A k \in 1 .. Len(items) : items[k] \in Songs
    BY QueueFacts
  <1>3. queue \in [1 .. Len(items) -> Songs]
    BY <1>1, <1>2
  <1>4. queue \in Seq(Songs) /\ Len(queue) = Len(items) /\ DOMAIN queue = 1 .. Len(items)
    BY <1>2, <1>3
  <1> QED BY <1>1, <1>2, <1>4

----------------------------------------------------------------------------
(* The invariant. *)

PlayersOK == active \in 0 .. MaxPlayers /\ player \in [Players -> Player]

TasksOK == task \in [Goroutines -> Task] /\ overlapped \in BOOLEAN

RestOK ==
  /\ switching \in BOOLEAN /\ removed \in BOOLEAN
  /\ used \in [calls : 0 .. MaxCalls, faults : 0 .. MaxFaults]

(* The active player was not closed and has its waiter, and whatever was not *)
(* closed plays a song.                                                     *)
Alive == active \in Players => ~player[active].closed /\ player[active].waiter # "none"
Known == \A p \in Players : ~player[p].closed => player[p].song \in Songs

Loading(g) == task[g].pc \in {"start", "skip", "next"}

(* One goroutine is at work as long as none overlapped, and while it waits   *)
(* for a player there is no active one.                                     *)
Lone == ~overlapped => \A g, h \in Goroutines : task[g].pc # "idle" /\ task[h].pc # "idle" => g = h
Waits == ~overlapped => \A g \in Goroutines : task[g].pc # "idle" => active = 0
LoadsSong == \A g \in Goroutines : Loading(g) => task[g].song \in Songs
LoadsCurrent == ~overlapped => \A g \in Goroutines : Loading(g) => task[g].song = Current(index)

PlayerPart == PlayersOK /\ Alive /\ Known /\ NoPlayerLost
TaskPart == TasksOK /\ Lone /\ Waits /\ LoadsSong /\ LoadsCurrent

IInv == QueueOK /\ RestOK /\ PlayerPart /\ TaskPart /\ ActiveAtIndex

LEMMA IInvTypeOK == IInv => TypeOK
  BY DEF IInv, QueueOK, RestOK, PlayerPart, PlayersOK, TaskPart, TasksOK, TypeOK

----------------------------------------------------------------------------
(* What happens to the players. *)

LEMMA PlayerFields ==
  ASSUME PlayersOK, NEW p \in Players
  PROVE  /\ player[p] \in Player /\ player[p].song \in Songs \cup {None}
         /\ player[p].closed \in BOOLEAN /\ player[p].mode \in {"playing", "paused", "ended"}
         /\ player[p].waiter \in {"watching", "sending", "gone", "none"}
         /\ p # 0 /\ p \in 0 .. MaxPlayers
  <1>1. player[p] \in Player
    BY DEF PlayersOK
  <1>2. p \in 1 .. MaxPlayers /\ MaxPlayers \in Nat
    BY PlaybackAssumption DEF Players
  <1> QED BY <1>1, <1>2 DEF Player

LEMMA ActiveFacts ==
  ASSUME PlayersOK
  PROVE  (active # 0 <=> active \in Players) /\ 0 \notin Players /\ 0 \in 0 .. MaxPlayers
  BY PlaybackAssumption DEF PlayersOK, Players

LEMMA NoPlayerFacts ==
  NoPlayer \in Player /\ NoPlayer.closed = TRUE /\ NoPlayer.mode = "ended" /\ NoPlayer.waiter = "gone"
  BY DEF NoPlayer, Player

LEMMA CommandFacts ==
  ASSUME PlayersOK, NEW mode \in {"playing", "paused", "ended"}
  PROVE  /\ Command(mode) \in [Players -> Player]
         /\ \A p \in Players : /\ Command(mode)[p].song = player[p].song
                               /\ Command(mode)[p].closed = player[p].closed
                               /\ Command(mode)[p].waiter = player[p].waiter
  <1>1. CASE active # 0 /\ player[active].mode # "ended"
    <2> DEFINE x == [player[active] EXCEPT !.mode = mode]
    <2>1. active \in Players /\ player \in [Players -> Player]
      BY <1>1, ActiveFacts DEF PlayersOK
    <2>2. Command(mode) = [player EXCEPT ![active] = x]
      BY <1>1 DEF Command
    <2>3. x \in Player /\ x.song = player[active].song /\ x.closed = player[active].closed
          /\ x.waiter = player[active].waiter
      BY <2>1, PlayerFields DEF Player
    <2> HIDE DEF x
    <2> QED BY <2>1, <2>2, <2>3
  <1>2. CASE ~(active # 0 /\ player[active].mode # "ended")
    <2>1. Command(mode) = player
      BY <1>2 DEF Command
    <2> QED BY <2>1 DEF PlayersOK
  <1> QED BY <1>1, <1>2

LEMMA CloseFacts ==
  ASSUME PlayersOK
  PROVE  /\ Close \in [Players -> Player]
         /\ \A p \in Players : /\ Close[p].song = player[p].song
                               /\ Close[p].waiter = player[p].waiter
                               /\ ~Close[p].closed => ~player[p].closed
                               /\ p = active => Close[p].closed
  <1>1. CASE active # 0
    <2> DEFINE x == [player[active] EXCEPT !.mode = "ended", !.closed = TRUE]
    <2>1. active \in Players /\ player \in [Players -> Player]
      BY <1>1, ActiveFacts DEF PlayersOK
    <2>2. Close = [player EXCEPT ![active] = x]
      BY <1>1, <2>1 DEF Close
    <2>3. x \in Player /\ x.song = player[active].song /\ x.closed = TRUE
          /\ x.waiter = player[active].waiter
      BY <2>1, PlayerFields DEF Player
    <2> HIDE DEF x
    <2> QED BY <2>1, <2>2, <2>3
  <1>2. CASE active = 0
    <2>1. Close = player /\ active \notin Players
      BY <1>2, ActiveFacts DEF Close
    <2> QED BY <2>1 DEF PlayersOK
  <1> QED BY <1>1, <1>2

(* A step that starts no player: what is open was open, and the active one   *)
(* stays or is closed.                                                      *)
LEMMA PlayersKept ==
  ASSUME PlayerPart, player' \in [Players -> Player],
         active' = active \/ active' = 0,
         \A p \in Players : ~player'[p].closed => /\ ~player[p].closed
                                                 /\ player'[p].song = player[p].song
                                                 /\ (player[p].waiter = "none" <=> player'[p].waiter = "none"),
         active' \in Players => ~player'[active].closed,
         active' = 0 => \A p \in Players : p = active => player'[p].closed,
         overlapped => overlapped'
  PROVE  PlayerPart'
  <1>1. PlayersOK'
    BY ActiveFacts DEF PlayerPart, PlayersOK
  <1>2. Alive'
    <2> SUFFICES ASSUME active' \in Players PROVE ~player'[active].closed /\ player'[active].waiter # "none"
      BY ActiveFacts DEF PlayerPart, Alive
    <2>1. active' = active /\ ~player'[active].closed
      BY ActiveFacts DEF PlayerPart
    <2> QED BY <2>1 DEF PlayerPart, Alive
  <1>3. Known'
    BY DEF PlayerPart, Known
  <1>4. NoPlayerLost'
    <2> SUFFICES ASSUME ~overlapped', NEW p \in Players, ~player'[p].closed, player'[p].waiter # "none"
                 PROVE  p = active'
      BY <1>1, <1>2, PlaybackAssumption DEF NoPlayerLost, PlayersOK, Players, Alive
    <2>1. p = active
      BY DEF PlayerPart, NoPlayerLost
    <2>2. active' # 0
      BY <2>1
    <2> QED BY <2>1, <2>2
  <1> QED BY <1>1, <1>2, <1>3, <1>4 DEF PlayerPart

(* Players that are only told to pause or to go on. *)
LEMMA PlayersCommanded ==
  ASSUME PlayerPart, NEW mode \in {"playing", "paused", "ended"},
         player' = Command(mode) \/ player' = player, active' = active, overlapped => overlapped'
  PROVE  PlayerPart' /\ \A p \in Players : player'[p].song = player[p].song
  <1>1. /\ player' \in [Players -> Player]
        /\ \A p \in Players : /\ player'[p].song = player[p].song
                              /\ player'[p].closed = player[p].closed
                              /\ player'[p].waiter = player[p].waiter
    BY CommandFacts DEF PlayerPart, PlayersOK
  <1>2. active' \in Players => ~player'[active].closed
    BY <1>1 DEF PlayerPart, Alive
  <1>3. active' = 0 => \A p \in Players : p = active => player'[p].closed
    BY ActiveFacts DEF PlayerPart
  <1> QED BY <1>1, <1>2, <1>3, PlayersKept

(* The active track is closed. *)
LEMMA PlayersClosed ==
  ASSUME PlayerPart, player' = Close, active' = 0, overlapped => overlapped'
  PROVE  PlayerPart'
  <1>1. PlayersOK
    BY DEF PlayerPart
  <1>2. active' \notin Players
    BY <1>1, ActiveFacts
  <1> QED BY <1>1, <1>2, CloseFacts, PlayersKept

----------------------------------------------------------------------------
(* What happens to the goroutines. *)

LEMMA TaskFields ==
  ASSUME TasksOK, NEW g \in Goroutines
  PROVE  /\ task[g] \in Task /\ task[g].pc \in {"idle", "start", "skip", "next", "set"}
         /\ task[g].song \in Songs \cup {None} /\ task[g].was \in BOOLEAN
  <1>1. task[g] \in Task
    BY DEF TasksOK
  <1> QED BY <1>1 DEF Task

LEMMA IdleTask == Idle \in Task /\ Idle.pc = "idle" /\ Idle.song = None
  BY DEF Idle, Task

LEMMA BeginKeeps ==
  ASSUME TaskPart, NEW g \in Goroutines, NEW t \in Task, Begin(g, t),
         t.pc # "idle" => active' = 0,
         t.pc \in {"start", "skip", "next"} => t.song \in Songs /\ t.song = Current(index)'
  PROVE  /\ TaskPart' /\ (overlapped => overlapped')
         /\ task' = [task EXCEPT ![g] = t]
  <1>1. task' = [task EXCEPT ![g] = t] /\ overlapped' = (overlapped \/ Busy)
    BY DEF Begin
  <1>2. task'[g] = t /\ \A h \in Goroutines : h # g => task'[h] = task[h]
    BY <1>1 DEF TaskPart, TasksOK
  <1>3. TasksOK'
    <2>1. task' \in [Goroutines -> Task]
      BY <1>1 DEF TaskPart, TasksOK
    <2>2. overlapped' \in BOOLEAN
      BY <1>1
    <2> QED BY <2>1, <2>2 DEF TasksOK
  <1>4. overlapped => overlapped'
    BY <1>1
  <1>5. ASSUME ~overlapped', NEW h \in Goroutines, h # g PROVE task'[h].pc = "idle"
    <2>1. ~Busy
      BY <1>1, <1>5
    <2> QED BY <1>2, <1>5, <2>1 DEF Busy
  <1>6. Lone' /\ Waits'
    BY <1>2, <1>5 DEF Lone, Waits
  <1>7. LoadsSong'
    BY <1>2 DEF LoadsSong, Loading, TaskPart
  <1>8. LoadsCurrent'
    BY <1>2, <1>5 DEF LoadsCurrent, Loading
  <1> QED BY <1>1, <1>3, <1>4, <1>6, <1>7, <1>8 DEF TaskPart

(* A request that is over at once. *)
LEMMA BeginIdle ==
  ASSUME TaskPart, NEW g \in Goroutines, Begin(g, Idle)
  PROVE  TaskPart' /\ (overlapped => overlapped')
  BY IdleTask, BeginKeeps

LEMMA CalledFacts ==
  ASSUME RestOK, NEW g \in Goroutines, NEW t, Called(g, t)
  PROVE  Begin(g, t) /\ used' \in [calls : 0 .. MaxCalls, faults : 0 .. MaxFaults]
  <1>1. Begin(g, t) /\ used.calls < MaxCalls /\ used' = [used EXCEPT !.calls = @ + 1]
    BY DEF Called
  <1>2. used' \in [calls : 0 .. MaxCalls, faults : 0 .. MaxFaults]
    BY <1>1, PlaybackAssumption DEF RestOK
  <1> QED BY <1>1, <1>2

(* A task ends. *)
LEMMA TaskEnds ==
  ASSUME TaskPart, NEW g \in Goroutines, task[g].pc # "idle",
         task' = [task EXCEPT ![g] = Idle], overlapped' = overlapped
  PROVE  TaskPart'
  <1>1. task'[g] = Idle /\ \A h \in Goroutines : h # g => task'[h] = task[h]
    BY DEF TaskPart, TasksOK
  <1>2. TasksOK'
    BY IdleTask DEF TaskPart, TasksOK
  <1>3. ASSUME ~overlapped', NEW h \in Goroutines PROVE task'[h].pc = "idle"
    BY <1>1, <1>3, IdleTask DEF TaskPart, Lone
  <1>4. Lone' /\ Waits' /\ LoadsCurrent'
    BY <1>3 DEF Lone, Waits, LoadsCurrent, Loading
  <1>5. LoadsSong'
    BY <1>1, IdleTask DEF TaskPart, LoadsSong, Loading
  <1> QED BY <1>2, <1>4, <1>5 DEF TaskPart

(* What a switch is going to load. *)
LEMMA LoadBeginsFacts ==
  ASSUME QueueOK, NEW i \in Int, NEW pc \in {"start", "skip", "next"}, NEW was \in BOOLEAN
  PROVE  LET t == LoadBegins(i, pc, was)
         IN /\ t \in Task /\ t.song = Current(Clamp(i))
            /\ t.pc \in {"start", "skip", "next"} => t.song \in Songs
  <1> DEFINE c == Current(Clamp(i))
  <1>1. c \in Songs \/ c = None
    BY QueueFacts
  <1>2. None \notin Songs
    BY QueueFacts
  <1>3. LoadBegins(i, pc, was) = [pc |-> IF c = None THEN "idle" ELSE pc, song |-> c,
                                  was |-> IF c = None THEN FALSE ELSE was]
    BY DEF LoadBegins
  <1> HIDE DEF c
  <1>4. CASE c = None
    BY <1>2, <1>3, <1>4 DEF Task, c
  <1>5. CASE c \in Songs
    <2>1. LoadBegins(i, pc, was) = [pc |-> pc, song |-> c, was |-> was]
      BY <1>2, <1>3, <1>5
    <2> QED BY <1>5, <2>1 DEF Task, c
  <1> QED BY <1>1, <1>4, <1>5

----------------------------------------------------------------------------
(* The steps. *)

LEMMA IInvParts ==
  ASSUME IInv
  PROVE  /\ QueueOK /\ RestOK /\ PlayerPart /\ PlayersOK /\ TaskPart /\ TasksOK /\ ActiveAtIndex
         /\ \A g \in Requests : g \in Goroutines /\ g # Switcher
         /\ Switcher \in Goroutines
  BY PlaybackAssumption DEF IInv, PlayerPart, TaskPart, Goroutines

(* The active track stays and its song stays the current one. *)
LEMMA ActiveKept ==
  ASSUME IInv, active' = active, overlapped => overlapped', removed => removed',
         \A p \in Players : player'[p].song = player[p].song,
         ~removed' /\ active # 0 /\ Current(index) # None => Current(index)' = Current(index)
  PROVE  ActiveAtIndex'
  <1> SUFFICES ASSUME ~overlapped', ~removed', active' # 0
               PROVE  Current(index)' = player'[active'].song
    BY DEF ActiveAtIndex
  <1>1. active \in Players /\ None \notin Songs
    BY IInvParts, ActiveFacts, PlaybackAssumption
  <1>2. Current(index) = player[active].song
    BY IInvParts DEF ActiveAtIndex
  <1>3. player[active].song \in Songs
    BY <1>1, IInvParts DEF PlayerPart, Alive, Known
  <1> QED BY <1>1, <1>2, <1>3

LEMMA QueueSame ==
  ASSUME IInv, UNCHANGED <<items, index>>
  PROVE  QueueOK' /\ Current(index)' = Current(index)
  BY DEF IInv, QueueOK, Current

LEMMA AddInv == ASSUME IInv, NEW g \in Requests, Add(g) PROVE IInv'
  <1>1. PICK s \in Songs : Put(s)
    BY DEF Add
  <1>2. Called(g, Idle) /\ UNCHANGED <<active, player, switching, removed>>
    BY DEF Add
  <1>3. QueueOK' /\ (Current(index) # None => Current(index)' = Current(index))
    BY <1>1, IInvParts, PutFacts
  <1>4. Begin(g, Idle) /\ RestOK'
    BY <1>2, IInvParts, CalledFacts DEF RestOK
  <1>5. TaskPart' /\ (overlapped => overlapped')
    BY <1>4, IInvParts, BeginIdle
  <1>6. PlayerPart'
    BY <1>2, <1>5, IInvParts, PlayersCommanded
  <1>7. ActiveAtIndex'
    BY <1>2, <1>3, <1>5, ActiveKept
  <1> QED BY <1>3, <1>4, <1>5, <1>6, <1>7 DEF IInv

LEMMA ClearFacts ==
  ASSUME IInv, Clear
  PROVE  /\ QueueOK' /\ player' = Close /\ active' = 0 /\ ActiveAtIndex'
         /\ removed' \in BOOLEAN /\ switching' \in BOOLEAN
  <1>1. items' = <<>> /\ index' = -1 /\ active' = 0 /\ player' = Close /\ removed' = FALSE
        /\ switching' = switching
    BY DEF Clear
  <1>2. QueueOK'
    BY <1>1, PlaybackAssumption DEF QueueOK
  <1> QED BY <1>1, <1>2, IInvParts DEF ActiveAtIndex, RestOK

LEMMA ClearCallInv == ASSUME IInv, NEW g \in Requests, ClearCall(g) PROVE IInv'
  <1>1. Called(g, Idle) /\ Clear
    BY DEF ClearCall
  <1>2. Begin(g, Idle) /\ used' \in [calls : 0 .. MaxCalls, faults : 0 .. MaxFaults]
    BY <1>1, IInvParts, CalledFacts
  <1>3. TaskPart' /\ (overlapped => overlapped')
    BY <1>2, IInvParts, BeginIdle
  <1>4. PlayerPart'
    BY <1>1, <1>3, IInvParts, ClearFacts, PlayersClosed
  <1>5. RestOK'
    BY <1>1, <1>2, ClearFacts DEF RestOK
  <1> QED BY <1>1, <1>3, <1>4, <1>5, ClearFacts DEF IInv

LEMMA SetInv == ASSUME IInv, NEW g \in Requests, Set(g) PROVE IInv'
  <1> DEFINE t == [Idle EXCEPT !.pc = "set"]
  <1>1. Called(g, t) /\ Clear
    BY DEF Set
  <1>2. t \in Task /\ t.pc = "set"
    BY DEF Idle, Task
  <1> HIDE DEF t
  <1>3. Begin(g, t) /\ used' \in [calls : 0 .. MaxCalls, faults : 0 .. MaxFaults]
    BY <1>1, IInvParts, CalledFacts
  <1>4. TaskPart' /\ (overlapped => overlapped')
    BY <1>1, <1>2, <1>3, IInvParts, ClearFacts, BeginKeeps
  <1>5. PlayerPart'
    BY <1>1, <1>4, IInvParts, ClearFacts, PlayersClosed
  <1>6. RestOK'
    BY <1>1, <1>3, ClearFacts DEF RestOK
  <1> QED BY <1>1, <1>4, <1>5, <1>6, ClearFacts DEF IInv

LEMMA FaultCounted ==
  ASSUME RestOK, used.faults < MaxFaults, used' = [used EXCEPT !.faults = @ + 1]
  PROVE  used' \in [calls : 0 .. MaxCalls, faults : 0 .. MaxFaults]
  BY PlaybackAssumption DEF RestOK

LEMMA SetEndsInv == ASSUME IInv, NEW g \in Requests, SetEnds(g) PROVE IInv'
  <1>1. /\ task[g].pc = "set" /\ task' = [task EXCEPT ![g] = Idle]
        /\ UNCHANGED <<active, player, switching, overlapped, removed>>
    BY DEF SetEnds
  <1>2. QueueOK' /\ RestOK'
    <2>1. CASE (\E s \in Songs : Put(s)) /\ UNCHANGED used
      BY <1>1, <2>1, IInvParts, PutFacts DEF RestOK
    <2>2. CASE /\ used.faults < MaxFaults /\ used' = [used EXCEPT !.faults = @ + 1]
               /\ UNCHANGED <<items, index>>
      BY <1>1, <2>2, IInvParts, FaultCounted, QueueSame DEF RestOK
    <2> QED BY <2>1, <2>2 DEF SetEnds
  <1>3. TaskPart'
    BY <1>1, IInvParts, TaskEnds
  <1>4. PlayerPart'
    BY <1>1, IInvParts, PlayersCommanded
  <1>5. ActiveAtIndex'
    BY <1>1, IInvParts DEF ActiveAtIndex, TaskPart, Waits
  <1> QED BY <1>2, <1>3, <1>4, <1>5 DEF IInv

(* The index after the queue was changed around the current song. *)
LEMMA Relocated ==
  ASSUME QueueOK, NEW queue \in Seq(Songs), Len(queue) <= MaxItems,
         items' = queue, index' = IndexOf(queue, Current(index))
  PROVE  /\ QueueOK'
         /\ (\E m \in DOMAIN queue : queue[m] = Current(index)) => Current(index)' = Current(index)
  <1> DEFINE c == Current(index)
             i == IndexOf(queue, c)
  <1>1. IF \E k \in DOMAIN queue : queue[k] = c
        THEN i \in 0 .. Len(queue) - 1 /\ queue[i + 1] = c
        ELSE i = -1
    BY IndexOfFinds
  <1>2. items' = queue /\ index' = i /\ Current(index)' = IF i \in 0 .. Len(queue) - 1 THEN queue[i + 1] ELSE None
    BY DEF Current
  <1> HIDE DEF i, c
  <1>3. QueueOK'
    BY <1>1, <1>2 DEF QueueOK
  <1> QED BY <1>1, <1>2, <1>3 DEF c

LEMMA RemoveInv == ASSUME IInv, NEW g \in Requests, Remove(g) PROVE IInv'
  <1>1. PICK i \in 0 .. Len(items) - 1 :
          /\ player' = IF Playing /\ i = index THEN Pause ELSE player
          /\ items' = Drop(i)
          /\ index' = IndexOf(Drop(i), Current(index))
          /\ removed' = (removed \/ (active # 0 /\ i = index))
    BY DEF Remove
  <1>2. Called(g, Idle) /\ UNCHANGED <<active, switching>>
    BY DEF Remove
  <1>3. /\ Drop(i) \in Seq(Songs) /\ Len(Drop(i)) = Len(items) - 1 /\ Len(Drop(i)) <= MaxItems
        /\ \A k \in 1 .. Len(items) : k # i + 1 => \E m \in DOMAIN Drop(i) : Drop(i)[m] = items[k]
    <2>1. QueueOK /\ Len(items) <= MaxItems /\ Len(items) \in Nat /\ MaxItems \in Nat
      BY IInvParts, QueueFacts DEF QueueOK
    <2>2. /\ Drop(i) \in Seq(Songs) /\ Len(Drop(i)) = Len(items) - 1
          /\ \A k \in 1 .. Len(items) : k # i + 1 => \E m \in DOMAIN Drop(i) : Drop(i)[m] = items[k]
      BY <2>1, DropFacts
    <2>3. Len(Drop(i)) <= MaxItems
      BY <2>1, <2>2
    <2> QED BY <2>2, <2>3
  <1>4. QueueOK'
    BY <1>1, <1>3, IInvParts, Relocated
  <1>5. ASSUME ~removed', active # 0, Current(index) # None PROVE Current(index)' = Current(index)
    <2>1. i # index
      BY <1>1, <1>5
    <2>2. index \in 0 .. Len(items) - 1 /\ Current(index) = items[index + 1]
      BY <1>5, IInvParts, QueueFacts
    <2>3. index + 1 \in 1 .. Len(items) /\ index + 1 # i + 1
      BY <2>1, <2>2, IInvParts, QueueFacts
    <2>4. \E m \in DOMAIN Drop(i) : Drop(i)[m] = Current(index)
      BY <1>3, <2>2, <2>3
    <2> QED BY <1>1, <1>3, <2>4, IInvParts, Relocated
  <1>6. Begin(g, Idle) /\ used' \in [calls : 0 .. MaxCalls, faults : 0 .. MaxFaults]
    BY <1>2, IInvParts, CalledFacts
  <1>7. TaskPart' /\ (overlapped => overlapped')
    BY <1>6, IInvParts, BeginIdle
  <1>8. PlayerPart' /\ \A p \in Players : player'[p].song = player[p].song
    BY <1>1, <1>2, <1>7, IInvParts, PlayersCommanded DEF Pause
  <1>9. RestOK'
    BY <1>1, <1>2, <1>6, IInvParts DEF RestOK
  <1>10. removed => removed'
    BY <1>1
  <1>11. ActiveAtIndex'
    BY <1>2, <1>5, <1>7, <1>8, <1>10, ActiveKept
  <1> QED BY <1>4, <1>7, <1>8, <1>9, <1>11 DEF IInv

LEMMA ShuffleInv == ASSUME IInv, NEW g \in Requests, Shuffle(g) PROVE IInv'
  <1>1. PICK f \in Bijection(DOMAIN items, DOMAIN items) :
          LET queue == [k \in DOMAIN items |-> items[f[k]]]
          IN items' = queue /\ index' = IndexOf(queue, Current(index))
    BY DEF Shuffle
  <1> DEFINE queue == [k \in DOMAIN items |-> items[f[k]]]
  <1>2. items' = queue /\ index' = IndexOf(queue, Current(index))
    BY <1>1
  <1>3. Called(g, Idle) /\ UNCHANGED <<active, player, switching, removed>>
    BY DEF Shuffle
  <1>4. /\ queue \in Seq(Songs) /\ Len(queue) = Len(items) /\ Len(queue) <= MaxItems
        /\ \A k \in 1 .. Len(items) : \E m \in DOMAIN queue : queue[m] = items[k]
    BY IInvParts, ShuffleFacts DEF QueueOK
  <1> HIDE DEF queue
  <1>5. QueueOK'
    BY <1>2, <1>4, IInvParts, Relocated
  <1>6. ASSUME Current(index) # None PROVE Current(index)' = Current(index)
    <2>1. index + 1 \in 1 .. Len(items) /\ Current(index) = items[index + 1]
      BY <1>6, IInvParts, QueueFacts
    <2>2. \E m \in DOMAIN queue : queue[m] = Current(index)
      BY <1>4, <2>1
    <2> QED BY <1>2, <1>4, <2>2, IInvParts, Relocated
  <1>7. Begin(g, Idle) /\ RestOK'
    BY <1>3, IInvParts, CalledFacts DEF RestOK
  <1>8. TaskPart' /\ (overlapped => overlapped')
    BY <1>7, IInvParts, BeginIdle
  <1>9. PlayerPart'
    BY <1>3, <1>8, IInvParts, PlayersCommanded
  <1>10. ActiveAtIndex'
    BY <1>3, <1>6, <1>8, ActiveKept
  <1> QED BY <1>5, <1>7, <1>8, <1>9, <1>10 DEF IInv

(* Stop, Start of an active track and the skips within a song: a command to  *)
(* the player at most.                                                      *)
LEMMA CommandInv ==
  ASSUME IInv, NEW g \in Requests, Called(g, Idle), player' \in {player, Pause, Unpause},
         switching' \in BOOLEAN, UNCHANGED <<items, index, active, removed>>
  PROVE  IInv'
  <1>1. Begin(g, Idle) /\ RestOK'
    BY IInvParts, CalledFacts DEF RestOK
  <1>2. TaskPart' /\ (overlapped => overlapped')
    BY <1>1, IInvParts, BeginIdle
  <1>3. PlayerPart' /\ \A p \in Players : player'[p].song = player[p].song
    BY <1>2, IInvParts, PlayersCommanded DEF Pause, Unpause
  <1>4. QueueOK' /\ Current(index)' = Current(index)
    BY QueueSame
  <1>5. ActiveAtIndex'
    BY <1>2, <1>3, <1>4, ActiveKept
  <1> QED BY <1>1, <1>2, <1>3, <1>4, <1>5 DEF IInv

LEMMA StopInv == ASSUME IInv, NEW g \in Requests, Stop(g) PROVE IInv'
  BY CommandInv, IInvParts DEF Stop, RestOK

LEMMA SeekInv == ASSUME IInv, NEW g \in Requests, Seek(g) PROVE IInv'
  BY CommandInv, IInvParts DEF Seek, RestOK

LEMMA StartInv == ASSUME IInv, NEW g \in Requests, Start(g) PROVE IInv'
  <1>1. switching' = TRUE /\ UNCHANGED <<items, active, removed>>
    BY DEF Start
  <1>2. CASE active # 0 /\ Called(g, Idle) /\ player' = Unpause /\ UNCHANGED index
    BY <1>1, <1>2, CommandInv
  <1>3. CASE active = 0 /\ items = <<>> /\ Called(g, Idle) /\ UNCHANGED <<player, index>>
    BY <1>1, <1>3, CommandInv
  <1>4. CASE /\ active = 0 /\ items # <<>>
             /\ Called(g, LoadBegins(index, "start", FALSE))
             /\ index' = Clamp(index) /\ UNCHANGED player
    <2> DEFINE t == LoadBegins(index, "start", FALSE)
    <2>1. QueueOK /\ index \in Int
      BY IInvParts, QueueFacts
    <2>2. /\ t \in Task /\ t.song = Current(Clamp(index))
          /\ t.pc \in {"start", "skip", "next"} => t.song \in Songs
      BY <2>1, LoadBeginsFacts
    <2>3. index' \in {-1, 0} \cup 0 .. Len(items) - 1
      BY <1>4, <2>1, ClampFacts
    <2>4. QueueOK'
      BY <1>1, <2>1, <2>3 DEF QueueOK
    <2>5. Current(index)' = Current(Clamp(index))
      BY <1>1, <1>4 DEF Current
    <2>6. Called(g, t)
      BY <1>4
    <2> HIDE DEF t
    <2>7. Begin(g, t) /\ RestOK'
      BY <1>1, <2>6, IInvParts, CalledFacts DEF RestOK
    <2>8. TaskPart' /\ (overlapped => overlapped')
      BY <1>1, <1>4, <2>2, <2>5, <2>7, IInvParts, BeginKeeps
    <2>9. PlayerPart'
      BY <1>1, <1>4, <2>8, IInvParts, PlayersCommanded
    <2>10. ActiveAtIndex'
      BY <1>1, <1>4 DEF ActiveAtIndex
    <2> QED BY <2>4, <2>7, <2>8, <2>9, <2>10 DEF IInv
  <1> QED BY <1>2, <1>3, <1>4 DEF Start

LEMMA SkipToInv == ASSUME IInv, NEW g \in Requests, SkipTo(g) PROVE IInv'
  <1>1. PICK i \in -1 .. Len(items) :
          Called(g, LoadBegins(i, "skip", Playing)) /\ index' = Clamp(i)
    BY DEF SkipTo
  <1>2. player' = Close /\ active' = 0 /\ removed' = FALSE /\ UNCHANGED <<items, switching>>
    BY DEF SkipTo
  <1> DEFINE t == LoadBegins(i, "skip", Playing)
  <1>3. QueueOK /\ i \in Int /\ Playing \in BOOLEAN
    BY IInvParts, QueueFacts DEF Playing
  <1>4. /\ t \in Task /\ t.song = Current(Clamp(i))
        /\ t.pc \in {"start", "skip", "next"} => t.song \in Songs
    BY <1>3, LoadBeginsFacts
  <1>5. index' \in {-1, 0} \cup 0 .. Len(items) - 1
    BY <1>1, <1>3, ClampFacts
  <1>6. QueueOK'
    BY <1>2, <1>3, <1>5 DEF QueueOK
  <1>7. Current(index)' = Current(Clamp(i))
    BY <1>1, <1>2 DEF Current
  <1>8. Called(g, t)
    BY <1>1
  <1> HIDE DEF t
  <1>9. Begin(g, t) /\ RestOK'
    BY <1>2, <1>8, IInvParts, CalledFacts DEF RestOK
  <1>10. TaskPart' /\ (overlapped => overlapped')
    BY <1>2, <1>4, <1>7, <1>9, IInvParts, BeginKeeps
  <1>11. PlayerPart'
    BY <1>2, <1>10, IInvParts, PlayersClosed
  <1>12. ActiveAtIndex'
    BY <1>2 DEF ActiveAtIndex
  <1> QED BY <1>6, <1>9, <1>10, <1>11, <1>12 DEF IInv

LEMMA LoadEndsInv == ASSUME IInv, NEW g \in Goroutines, LoadEnds(g) PROVE IInv'
  <1>1. /\ Loading(g) /\ task[g].pc # "idle" /\ task' = [task EXCEPT ![g] = Idle]
        /\ UNCHANGED <<items, index, overlapped>>
    BY DEF LoadEnds, Loading
  <1>2. QueueOK' /\ Current(index)' = Current(index)
    BY <1>1, QueueSame
  <1>3. TaskPart'
    BY <1>1, IInvParts, TaskEnds
  <1>4. CASE Loaded(g)
    <2> DEFINE x == Process(g, "watching")
    <2>1. PICK p \in Players : player[p] = NoPlayer /\ player' = [player EXCEPT ![p] = x] /\ active' = p
      BY <1>4 DEF Loaded, Unused
    <2>2. task[g].song \in Songs
      BY <1>1, IInvParts DEF TaskPart, LoadsSong
    <2>3. /\ x \in Player /\ x.song = task[g].song /\ x.closed = FALSE /\ x.waiter # "none"
      BY <2>2 DEF Player, Process
    <2> HIDE DEF x
    <2>4. /\ player' \in [Players -> Player]
          /\ player'[p] = x /\ \A q \in Players : q # p => player'[q] = player[q]
      BY <2>1, <2>3, IInvParts DEF PlayersOK
    <2>5. PlayersOK'
      BY <2>1, <2>4, IInvParts, PlayerFields DEF PlayersOK
    <2>6. Alive' /\ Known'
      BY <2>1, <2>2, <2>3, <2>4, IInvParts DEF Alive, Known, PlayerPart
    <2>7. ASSUME ~overlapped PROVE active = 0 /\ task[g].song = Current(index)
      BY <1>1, <2>7, IInvParts DEF TaskPart, Waits, LoadsCurrent
    <2>8. NoPlayerLost'
      <3> SUFFICES ASSUME ~overlapped, NEW q \in Players, ~player'[q].closed, player'[q].waiter # "none"
                   PROVE  q = p
        BY <1>1, <2>1, <2>3, <2>4 DEF NoPlayerLost
      <3>1. SUFFICES ASSUME q # p PROVE FALSE
        OBVIOUS
      <3>2. ~player[q].closed /\ player[q].waiter # "none" /\ active = 0
        BY <2>4, <2>7, <3>1
      <3>3. q = 0
        BY <3>2, IInvParts DEF PlayerPart, NoPlayerLost
      <3> QED BY <3>3, IInvParts, ActiveFacts
    <2>9. ActiveAtIndex'
      BY <1>1, <1>2, <2>1, <2>3, <2>4, <2>7 DEF ActiveAtIndex
    <2>10. RestOK'
      <3>1. switching' \in BOOLEAN
        BY <1>4, IInvParts, TaskFields DEF Loaded, RestOK
      <3> QED BY <1>4, <3>1, IInvParts DEF Loaded, RestOK
    <2> QED BY <1>2, <1>3, <2>5, <2>6, <2>8, <2>9, <2>10 DEF IInv, PlayerPart
  <1>5. ASSUME Failed PROVE RestOK' /\ UNCHANGED <<active, overlapped, removed>>
    BY <1>1, <1>5, IInvParts, FaultCounted DEF Failed, RestOK
  <1>6. CASE NotLoaded(g)
    <2>1. player' \in {player, Unpause} /\ Failed
      BY <1>6 DEF NotLoaded, Resumed
    <2>2. PlayerPart' /\ \A p \in Players : player'[p].song = player[p].song
      BY <1>5, <2>1, IInvParts, PlayersCommanded DEF Unpause
    <2>3. ActiveAtIndex'
      BY <1>2, <1>5, <2>1, <2>2, ActiveKept
    <2> QED BY <1>2, <1>3, <1>5, <2>1, <2>2, <2>3 DEF IInv
  <1>7. CASE LeftAlone(g)
    <2> DEFINE x == Process(g, "none")
               resumed == Resumed(g)
    <2>1. PICK p \in Players : player[p] = NoPlayer /\ player' = [resumed EXCEPT ![p] = x]
      BY <1>7 DEF LeftAlone, Unused
    <2>2. RestOK' /\ UNCHANGED <<active, overlapped, removed>>
      BY <1>5, <1>7 DEF LeftAlone
    <2>3. task[g].song \in Songs
      BY <1>1, IInvParts DEF TaskPart, LoadsSong
    <2>4. x \in Player /\ x.song \in Songs /\ x.closed = FALSE /\ x.waiter = "none"
      BY <2>3 DEF Player, Process
    <2>5. /\ resumed \in [Players -> Player]
          /\ \A q \in Players : /\ resumed[q].song = player[q].song
                                /\ resumed[q].closed = player[q].closed
                                /\ resumed[q].waiter = player[q].waiter
      BY IInvParts, CommandFacts DEF Resumed, Unpause, PlayersOK
    <2> HIDE DEF x, resumed
    <2>6. /\ player' \in [Players -> Player]
          /\ player'[p] = x /\ \A q \in Players : q # p => player'[q] = resumed[q]
      BY <2>1, <2>4, <2>5
    <2>7. PlayersOK'
      BY <2>2, <2>6, IInvParts DEF PlayersOK
    <2>8. active # p
      BY <2>1, IInvParts, NoPlayerFacts DEF PlayerPart, Alive
    <2>9. Alive' /\ Known'
      BY <2>2, <2>4, <2>5, <2>6, <2>8, IInvParts DEF Alive, Known, PlayerPart
    <2>10. NoPlayerLost'
      BY <2>2, <2>4, <2>5, <2>6, <2>8, IInvParts, ActiveFacts DEF NoPlayerLost, PlayerPart
    <2>11. ActiveAtIndex'
      BY <1>2, <2>2, <2>5, <2>6, <2>8, IInvParts, ActiveFacts DEF ActiveAtIndex
    <2> QED BY <1>2, <1>3, <2>2, <2>7, <2>9, <2>10, <2>11 DEF IInv, PlayerPart
  <1> QED BY <1>4, <1>6, <1>7 DEF LoadEnds

(* A step of a player alone. *)
LEMMA OnePlayer ==
  ASSUME IInv, NEW p \in Players, NEW x \in Player, player' = [player EXCEPT ![p] = x],
         \/ /\ x.song = player[p].song /\ x.closed = player[p].closed
            /\ (x.waiter = "none" <=> player[p].waiter = "none")
         \/ x.closed = TRUE /\ (player[p].closed \/ player[p].waiter = "none"),
         UNCHANGED <<items, index, active, switching, task, overlapped, removed, used>>
  PROVE  IInv'
  <1>1. /\ player' \in [Players -> Player]
        /\ player'[p] = x /\ \A q \in Players : q # p => player'[q] = player[q]
    BY IInvParts DEF PlayersOK
  <1>2. active \in Players => player'[active].song = player[active].song /\ ~player'[active].closed
    BY <1>1, IInvParts DEF PlayerPart, Alive
  <1>3. active' = 0 => \A q \in Players : q = active => player'[q].closed
    BY IInvParts, ActiveFacts
  <1>4. \A q \in Players : ~player'[q].closed => /\ ~player[q].closed
                                                 /\ player'[q].song = player[q].song
                                                 /\ (player[q].waiter = "none" <=> player'[q].waiter = "none")
    BY <1>1
  <1>5. PlayerPart'
    BY <1>1, <1>2, <1>3, <1>4, IInvParts, PlayersKept
  <1>6. ActiveAtIndex'
    BY <1>2, QueueSame, IInvParts, ActiveFacts DEF ActiveAtIndex
  <1>7. TaskPart'
    BY QueueSame, IInvParts DEF TaskPart, TasksOK, Lone, Waits, LoadsSong, LoadsCurrent, Loading
  <1>8. RestOK'
    BY IInvParts DEF RestOK
  <1> QED BY <1>5, <1>6, <1>7, <1>8, QueueSame DEF IInv

LEMMA EndsInv == ASSUME IInv, NEW p \in Players, Ends(p) PROVE IInv'
  <1> DEFINE y == [player[p] EXCEPT !.mode = "ended"]
             x == IF player[p].waiter = "none" THEN NoPlayer ELSE y
  <1>1. player' = [player EXCEPT ![p] = x]
        /\ UNCHANGED <<items, index, active, switching, task, overlapped, removed, used>>
    BY DEF Ends
  <1>2. /\ y \in Player /\ y.song = player[p].song /\ y.closed = player[p].closed
        /\ y.waiter = player[p].waiter
    BY IInvParts, PlayerFields DEF Player
  <1> HIDE DEF y
  <1>3. x \in Player
    BY <1>2, NoPlayerFacts
  <1>4. \/ /\ x.song = player[p].song /\ x.closed = player[p].closed
           /\ (x.waiter = "none" <=> player[p].waiter = "none")
        \/ x.closed = TRUE /\ (player[p].closed \/ player[p].waiter = "none")
    BY <1>2, NoPlayerFacts
  <1> HIDE DEF x
  <1> QED BY <1>1, <1>3, <1>4, OnePlayer

LEMMA NoticeInv == ASSUME IInv, NEW p \in Players, Notice(p) PROVE IInv'
  <1> DEFINE y == [player[p] EXCEPT !.waiter = "sending"]
             x == IF player[p].closed THEN NoPlayer ELSE y
  <1>1. player' = [player EXCEPT ![p] = x]
        /\ UNCHANGED <<items, index, active, switching, task, overlapped, removed, used>>
    BY DEF Notice
  <1>2. /\ y \in Player /\ y.song = player[p].song /\ y.closed = player[p].closed
        /\ y.waiter # "none" /\ player[p].waiter # "none"
    BY IInvParts, PlayerFields DEF Player, Notice
  <1> HIDE DEF y
  <1>3. x \in Player
    BY <1>2, NoPlayerFacts
  <1>4. \/ /\ x.song = player[p].song /\ x.closed = player[p].closed
           /\ (x.waiter = "none" <=> player[p].waiter = "none")
        \/ x.closed = TRUE /\ (player[p].closed \/ player[p].waiter = "none")
    BY <1>2, NoPlayerFacts
  <1> HIDE DEF x
  <1> QED BY <1>1, <1>3, <1>4, OnePlayer

LEMMA ReceiveInv == ASSUME IInv, NEW p \in Players, Receive(p) PROVE IInv'
  <1>1. /\ player' = [Close EXCEPT ![p] = NoPlayer] /\ active' = 0 /\ removed' = FALSE
        /\ UNCHANGED <<items, switching, used>>
    BY DEF Receive
  <1>2. QueueOK /\ Switcher \in Goroutines /\ index \in Int /\ index + 1 \in Int
    BY IInvParts, QueueFacts
  <1>3. QueueOK' /\ TaskPart' /\ (overlapped => overlapped')
    <2>1. CASE AtLast
      <3>1. Begin(Switcher, Idle) /\ UNCHANGED <<items, index>>
        BY <1>1, <2>1 DEF Receive
      <3> QED BY <1>2, <3>1, IInvParts, BeginIdle, QueueSame
    <2>2. CASE ~AtLast
      <3> DEFINE t == LoadBegins(index + 1, "next", FALSE)
      <3>1. Begin(Switcher, t) /\ index' = Clamp(index + 1)
        BY <2>2 DEF Receive
      <3>2. /\ t \in Task /\ t.song = Current(Clamp(index + 1))
            /\ t.pc \in {"start", "skip", "next"} => t.song \in Songs
        BY <1>2, LoadBeginsFacts
      <3>3. index' \in {-1, 0} \cup 0 .. Len(items) - 1
        BY <1>2, <3>1, ClampFacts
      <3>4. QueueOK'
        BY <1>1, <1>2, <3>3 DEF QueueOK
      <3>5. Current(index)' = Current(Clamp(index + 1))
        BY <1>1, <3>1 DEF Current
      <3> HIDE DEF t
      <3>6. TaskPart' /\ (overlapped => overlapped')
        BY <1>1, <1>2, <3>1, <3>2, <3>5, IInvParts, BeginKeeps
      <3> QED BY <3>4, <3>6
    <2> QED BY <2>1, <2>2
  <1>4. PlayerPart'
    <2>1. /\ Close \in [Players -> Player]
          /\ \A q \in Players : /\ Close[q].song = player[q].song
                                /\ Close[q].waiter = player[q].waiter
                                /\ ~Close[q].closed => ~player[q].closed
                                /\ q = active => Close[q].closed
      BY IInvParts, CloseFacts
    <2>2. /\ player' \in [Players -> Player]
          /\ player'[p] = NoPlayer /\ \A q \in Players : q # p => player'[q] = Close[q]
      BY <1>1, <2>1, NoPlayerFacts
    <2>3. /\ \A q \in Players : ~player'[q].closed => /\ ~player[q].closed
                                                      /\ player'[q].song = player[q].song
                                                      /\ (player[q].waiter = "none" <=> player'[q].waiter = "none")
          /\ \A q \in Players : q = active => player'[q].closed
      BY <2>1, <2>2, NoPlayerFacts
    <2>4. active' \notin Players
      BY <1>1, IInvParts, ActiveFacts
    <2> QED BY <1>1, <1>3, <2>2, <2>3, <2>4, IInvParts, PlayersKept
  <1>5. ActiveAtIndex' /\ RestOK'
    BY <1>1, IInvParts DEF ActiveAtIndex, RestOK
  <1> QED BY <1>3, <1>4, <1>5 DEF IInv

----------------------------------------------------------------------------
LEMMA InitInv == Init => IInv
  <1> SUFFICES ASSUME Init PROVE IInv
    OBVIOUS
  <1>1. QueueOK
    BY PlaybackAssumption DEF Init, QueueOK
  <1>2. RestOK
    <2>1. used \in [calls : 0 .. MaxCalls, faults : 0 .. MaxFaults]
      BY PlaybackAssumption DEF Init
    <2> QED BY <2>1 DEF Init, RestOK
  <1>3. PlayersOK /\ \A p \in Players : player[p].closed
    BY PlaybackAssumption, NoPlayerFacts DEF Init, PlayersOK
  <1>4. Alive /\ Known /\ NoPlayerLost
    <2>1. active \notin Players
      BY <1>3, ActiveFacts DEF Init
    <2>2. active = 0
      BY DEF Init
    <2> QED BY <1>3, <2>1, <2>2 DEF Alive, Known, NoPlayerLost
  <1>5. task = [g \in Goroutines |-> Idle] /\ overlapped = FALSE /\ active = 0
    BY DEF Init
  <1>6. TasksOK /\ \A g \in Goroutines : task[g].pc = "idle"
    BY <1>5, IdleTask DEF TasksOK
  <1>7. Lone /\ Waits /\ LoadsSong /\ LoadsCurrent
    BY <1>6 DEF Lone, Waits, LoadsSong, LoadsCurrent, Loading
  <1>8. ActiveAtIndex
    BY <1>5 DEF ActiveAtIndex
  <1> QED BY <1>1, <1>2, <1>3, <1>4, <1>6, <1>7, <1>8 DEF IInv, PlayerPart, TaskPart

LEMMA NextInv == IInv /\ [Next]_vars => IInv'
  <1> SUFFICES ASSUME IInv, [Next]_vars PROVE IInv'
    OBVIOUS
  <1>1. ASSUME NEW g \in Requests, Request(g) PROVE IInv'
    BY <1>1, AddInv, ClearCallInv, SetInv, RemoveInv, ShuffleInv, StopInv, StartInv, SkipToInv, SeekInv
       DEF Request
  <1>2. ASSUME NEW g \in Requests, SetEnds(g) PROVE IInv'
    BY <1>2, SetEndsInv
  <1>3. ASSUME NEW g \in Goroutines, LoadEnds(g) PROVE IInv'
    BY <1>3, LoadEndsInv
  <1>4. ASSUME NEW p \in Players, Ends(p) \/ Notice(p) \/ Receive(p) PROVE IInv'
    BY <1>4, EndsInv, NoticeInv, ReceiveInv
  <1>5. CASE UNCHANGED vars
    <2>1. QueueOK' /\ RestOK'
      BY <1>5 DEF IInv, QueueOK, RestOK, vars
    <2>2. PlayerPart'
      BY <1>5 DEF IInv, PlayerPart, PlayersOK, Alive, Known, NoPlayerLost, vars
    <2>3. TaskPart'
      BY <1>5 DEF IInv, TaskPart, TasksOK, Lone, Waits, LoadsSong, LoadsCurrent, Loading, Current, vars
    <2>4. ActiveAtIndex'
      BY <1>5 DEF IInv, ActiveAtIndex, Current, vars
    <2> QED BY <2>1, <2>2, <2>3, <2>4 DEF IInv
  <1> QED BY <1>1, <1>2, <1>3, <1>4, <1>5 DEF Next, Step

(* IInv always holds. *)
THEOREM Invariant == Spec => []IInv
  BY InitInv, NextInv, PTL DEF Spec

(* Every variable keeps its type, Index with it, however the queue is added  *)
(* to, shortened, shuffled and gone through.                                *)
THEOREM TypeCorrect == Spec => []TypeOK
  BY IInvTypeOK, Invariant, PTL

(* While calls do not overlap, every player that runs or whose end is still  *)
(* to be told is the active track, but for those that NewTrack started and   *)
(* gave up; and none of those is ever the active track.                      *)
THEOREM PlayersAccountedFor == Spec => []NoPlayerLost
  <1>1. IInv => NoPlayerLost
    BY DEF IInv, PlayerPart
  <1> QED BY <1>1, Invariant, PTL

(* While calls do not overlap, what plays is what Index says is current. *)
THEOREM ActiveIsCurrent == Spec => []ActiveAtIndex
  <1>1. IInv => ActiveAtIndex
    BY DEF IInv
  <1> QED BY <1>1, Invariant, PTL

(* When the active song is over the switcher turns to the entry after it, and *)
(* to none after the last one.                                              *)
THEOREM SwitchesInOrder == Spec => PlaysInOrder
  <1> DEFINE Order ==
        \A p \in Players :
          Receive(p) /\ p = active /\ ~overlapped' /\ ~removed =>
            \E k \in DOMAIN items :
              /\ items[k] = player[p].song
              /\ task'[Switcher].song = IF k < Len(items) THEN items[k + 1] ELSE None
  <1>1. IInv => Order
    <2> SUFFICES ASSUME IInv, NEW p \in Players, Receive(p), p = active, ~overlapped', ~removed
                 PROVE  \E k \in DOMAIN items :
                          /\ items[k] = player[p].song
                          /\ task'[Switcher].song = IF k < Len(items) THEN items[k + 1] ELSE None
      OBVIOUS
    <2>1. QueueOK /\ Switcher \in Goroutines /\ TasksOK /\ PlayersOK
      BY IInvParts
    <2>2. ~overlapped /\ active # 0
      <3>1. \E t : Begin(Switcher, t)
        BY DEF Receive
      <3>2. ~overlapped
        BY <3>1 DEF Begin
      <3> QED BY <2>1, <3>2, ActiveFacts
    <2>3. Current(index) = player[p].song
      BY <2>2, IInvParts DEF ActiveAtIndex
    <2>4. player[p].song \in Songs /\ None \notin Songs
      BY IInvParts, PlaybackAssumption DEF PlayerPart, Alive, Known
    <2>5. index \in 0 .. Len(items) - 1 /\ Current(index) = items[index + 1] /\ Len(items) \in Nat
      BY <2>1, <2>3, <2>4, QueueFacts
    <2> DEFINE k == index + 1
    <2>6. k \in DOMAIN items /\ items[k] = player[p].song
      BY <2>1, <2>3, <2>5, QueueFacts
    <2>7. CASE AtLast
      <3>1. ~(k < Len(items))
        BY <2>5, <2>7 DEF AtLast
      <3>2. task'[Switcher] = Idle
        BY <2>1, <2>7 DEF Receive, Begin, TasksOK
      <3> QED BY <2>6, <3>1, <3>2, IdleTask
    <2>8. CASE ~AtLast
      <3>1. k < Len(items) /\ k \in 0 .. Len(items) - 1 /\ k \in Int
        BY <2>5, <2>8 DEF AtLast
      <3>2. Clamp(k) = k /\ Current(k) = items[k + 1]
        BY <2>1, <3>1, ClampFacts, QueueFacts
      <3>3. task'[Switcher] = LoadBegins(index + 1, "next", FALSE)
        BY <2>1, <2>8 DEF Receive, Begin, TasksOK
      <3>4. task'[Switcher].song = Current(Clamp(k))
        BY <3>3 DEF LoadBegins
      <3> QED BY <2>6, <3>1, <3>2, <3>4
    <2> QED BY <2>7, <2>8
  <1>2. IInv /\ [Next]_vars => [Order]_vars
    BY <1>1
  <1>3. Spec => [][Order]_vars
    BY <1>2, Invariant, PTL DEF Spec
  <1> QED BY <1>3 DEF PlaysInOrder
=============================================================================
