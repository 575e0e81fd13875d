------------------------------ MODULE Playback ------------------------------
(***************************************************************************)
(* core/playback: one jukebox device. Its queue and its active track are    *)
(* changed, without a lock, by the requests of users and by the track       *)
(* switcher, a goroutine that waits on an unbuffered channel for a player    *)
(* to say that its song is over. Starting a player takes up to three         *)
(* seconds, in which everybody else goes on.                                *)
(***************************************************************************)
EXTENDS Integers, Sequences, FiniteSets, Functions

CONSTANTS Requests,     \* goroutines of requests
          Songs,        \* media files
          Switcher,     \* the track switcher
          MaxPlayers,   \* bound: mpv processes at a time
          MaxItems,     \* bound: length of the queue
          MaxCalls,     \* bound: requests that change something
          MaxFaults,    \* bound: players that NewTrack gives up, and failed reads
          None

VARIABLES items,        \* PlaybackQueue.Items
          index,        \* PlaybackQueue.Index
          active,       \* ActiveTrack, 0 for nil
          player,       \* the mpv processes, with the goroutine that waits for each
          switching,    \* startTrackSwitcher was done
          task,         \* per goroutine: the call under way
          overlapped,   \* history: two goroutines were at work at a time
          removed,      \* history: the active track's entry was taken out of the queue
          used          \* bounds: how many calls and faults

vars == <<items, index, active, player, switching, task, overlapped, removed, used>>

ASSUME PlaybackAssumption ==
  /\ None \notin Songs /\ Switcher \notin Requests
  /\ MaxPlayers \in Nat \ {0} /\ MaxItems \in Nat /\ MaxCalls \in Nat /\ MaxFaults \in Nat

Goroutines == Requests \cup {Switcher}
Players == 1..MaxPlayers

(* song, whether it plays, CloseCalled, and the goroutine that waits for the *)
(* end of the process and then for the switcher: none where NewTrack did not *)
(* get as far as to start it.                                               *)
Player == [song : Songs \cup {None}, mode : {"playing", "paused", "ended"},
           closed : BOOLEAN, waiter : {"watching", "sending", "gone", "none"}]

NoPlayer == [song |-> None, mode |-> "ended", closed |-> TRUE, waiter |-> "gone"]

(* A call that waits: Start, Skip or the switcher for a player, Set for the *)
(* database. was: Skip found the device playing.                            *)
Task == [pc : {"idle", "start", "skip", "next", "set"}, song : Songs \cup {None}, was : BOOLEAN]

Idle == [pc |-> "idle", song |-> None, was |-> FALSE]

Init ==
  /\ items = <<>> /\ index = -1
  /\ active = 0 /\ player = [p \in Players |-> NoPlayer]
  /\ switching = FALSE
  /\ task = [g \in Goroutines |-> Idle]
  /\ overlapped = FALSE /\ removed = FALSE
  /\ used = [calls |-> 0, faults |-> 0]

Busy == \E g \in Goroutines : task[g].pc # "idle"

----------------------------------------------------------------------------
(* The players *)

Playing == active # 0 /\ player[active].mode = "playing"

(* A command to the active player; one that has ended does not obey.        *)
Command(mode) ==
  IF active # 0 /\ player[active].mode # "ended"
  THEN [player EXCEPT ![active].mode = mode] ELSE player

Pause == Command("paused")
Unpause == Command("playing")

(* Mutant: CloseCalled is not set. *)
CloseBug ==
  IF active # 0 THEN [player EXCEPT ![active].mode = "ended"] ELSE player

(* The active player quits; its waiter will see that it was asked to. *)
Close ==
  IF active # 0 THEN [player EXCEPT ![active].mode = "ended", ![active].closed = TRUE]
  ELSE player

(* mpv reaches the end of the song; where nobody waits for it, that is all.  *)
Ends(p) ==
  /\ player[p].mode = "playing"
  /\ player' = [player EXCEPT ![p] = IF @.waiter = "none" THEN NoPlayer
                                     ELSE [@ EXCEPT !.mode = "ended"]]
  /\ UNCHANGED <<items, index, active, switching, task, overlapped, removed, used>>

(* Mutant: the message is dropped when the switcher does not wait for it.    *)
NoticeBug(p) ==
  /\ player[p].mode = "ended" /\ player[p].waiter = "watching"
  /\ player' = [player EXCEPT ![p] =
       IF @.closed \/ task[Switcher].pc # "idle" THEN NoPlayer
       ELSE [@ EXCEPT !.waiter = "sending"]]
  /\ UNCHANGED <<items, index, active, switching, task, overlapped, removed, used>>

(* The waiter sees the connection closed, and tells the switcher unless the *)
(* track was closed.                                                        *)
Notice(p) ==
  /\ player[p].mode = "ended" /\ player[p].waiter = "watching"
  /\ player' = [player EXCEPT ![p] = IF @.closed THEN NoPlayer
                                     ELSE [@ EXCEPT !.waiter = "sending"]]
  /\ UNCHANGED <<items, index, active, switching, task, overlapped, removed, used>>

----------------------------------------------------------------------------
(* The queue *)

(* Mutant: the last place is taken for one that has a next. *)
AtLastBug == index >= Len(items)

(* IsAtLastElement *)
AtLast == index + 1 >= Len(items)

(* Mutant: limited by the length and not by the last place. *)
ClampBug(i) == IF i > Len(items) THEN Len(items) ELSE IF i > 0 THEN i ELSE 0

(* SetIndex: the nearest place of the queue, 0 where it is empty. *)
Clamp(i) == LET top == IF i < Len(items) - 1 THEN i ELSE Len(items) - 1
            IN IF top > 0 THEN top ELSE 0

Current(i) == IF i \in 0 .. Len(items) - 1 THEN items[i + 1] ELSE None

(* Mutant: the index stays where it is. *)
IndexOfBug(queue, song) == index

(* The first place of a song in a queue, -1 for none. *)
IndexOf(queue, song) ==
  IF \E k \in DOMAIN queue : queue[k] = song
  THEN CHOOSE i \in 0 .. Len(queue) - 1 :
         /\ queue[i + 1] = song
         /\ \A j \in 1 .. i : queue[j] # song
  ELSE -1

Drop(i) == SubSeq(items, 1, i) \o SubSeq(items, i + 2, Len(items))

----------------------------------------------------------------------------
(* Calls *)

Begin(g, t) ==
  /\ task[g].pc = "idle"
  /\ task' = [task EXCEPT ![g] = t]
  /\ overlapped' = (overlapped \/ Busy)

Called(g, t) ==
  /\ g # Switcher
  /\ used.calls < MaxCalls
  /\ used' = [used EXCEPT !.calls = @ + 1]
  /\ Begin(g, t)

(* switchActiveTrackByIndex up to the start of the player. *)
LoadBegins(i, pc, was) ==
  [pc |-> IF Current(Clamp(i)) = None THEN "idle" ELSE pc,
   song |-> Current(Clamp(i)),
   was |-> IF Current(Clamp(i)) = None THEN FALSE ELSE was]

Put(song) ==
  /\ Len(items) < MaxItems
  /\ items' = Append(items, song)
  /\ index' = IF index = -1 THEN 0 ELSE index

Add(g) ==
  /\ Called(g, Idle)
  /\ \E s \in Songs : Put(s)
  /\ UNCHANGED <<active, player, switching, removed>>

Clear ==
  /\ player' = Close /\ active' = 0 /\ removed' = FALSE
  /\ items' = <<>> /\ index' = -1
  /\ UNCHANGED switching

ClearCall(g) == Called(g, Idle) /\ Clear

(* Set clears first and then reads the new songs. *)
Set(g) == Called(g, [Idle EXCEPT !.pc = "set"]) /\ Clear

SetEnds(g) ==
  /\ task[g].pc = "set"
  /\ \/ (\E s \in Songs : Put(s)) /\ UNCHANGED used
     \/ /\ used.faults < MaxFaults /\ used' = [used EXCEPT !.faults = @ + 1]
        /\ UNCHANGED <<items, index>>
  /\ task' = [task EXCEPT ![g] = Idle]
  /\ UNCHANGED <<active, player, switching, overlapped, removed>>

Remove(g) ==
  /\ Called(g, Idle)
  /\ \E i \in 0 .. Len(items) - 1 :
       /\ player' = IF Playing /\ i = index THEN Pause ELSE player
       /\ items' = Drop(i)
       /\ index' = IndexOf(Drop(i), Current(index))
       /\ removed' = (removed \/ (active # 0 /\ i = index))
  /\ UNCHANGED <<active, switching>>

Shuffle(g) ==
  /\ Called(g, Idle)
  /\ Len(items) > 1
  /\ \E f \in Bijection(DOMAIN items, DOMAIN items) :
       LET queue == [k \in DOMAIN items |-> items[f[k]]]
       IN items' = queue /\ index' = IndexOf(queue, Current(index))
  /\ UNCHANGED <<active, player, switching, removed>>

Stop(g) ==
  /\ Called(g, Idle)
  /\ player' = Pause
  /\ UNCHANGED <<items, index, active, switching, removed>>

Start(g) ==
  /\ switching' = TRUE
  /\ \/ /\ active # 0
        /\ Called(g, Idle)
        /\ player' = Unpause
        /\ UNCHANGED index
     \/ /\ active = 0 /\ items = <<>>
        /\ Called(g, Idle)
        /\ UNCHANGED <<player, index>>
     \/ /\ active = 0 /\ items # <<>>
        /\ Called(g, LoadBegins(index, "start", FALSE))
        /\ index' = Clamp(index)
        /\ UNCHANGED player
  /\ UNCHANGED <<items, active, removed>>

(* Skip to another song, or where there is no track: the player is closed    *)
(* and another one started.                                                 *)
SkipTo(g) ==
  \E i \in -1 .. Len(items) :
    /\ i # index \/ active = 0
    /\ Called(g, LoadBegins(i, "skip", Playing))
    /\ player' = Close /\ active' = 0 /\ removed' = FALSE
    /\ index' = Clamp(i)
    /\ UNCHANGED <<items, switching>>

(* Skip within the song: the player is paused, and goes on if it played and *)
(* takes the position.                                                      *)
Seek(g) ==
  /\ active # 0
  /\ Called(g, Idle)
  /\ \/ player' = Pause /\ UNCHANGED switching
     \/ Playing /\ switching' = TRUE /\ UNCHANGED player
  /\ UNCHANGED <<items, index, active, removed>>

(* NewTrack starts mpv, which plays at once. *)
Process(g, waiter) ==
  [song |-> task[g].song, mode |-> "playing", closed |-> FALSE, waiter |-> waiter]

Unused(p) == player[p] = NoPlayer /\ \A q \in 1 .. p - 1 : player[q] # NoPlayer

(* It gets through to mpv and returns a track. A Skip then sets the position *)
(* and calls Start.                                                         *)
Loaded(g) ==
  /\ \E p \in Players :
       /\ Unused(p)
       /\ player' = [player EXCEPT ![p] = Process(g, "watching")]
       /\ active' = p
  /\ removed' = FALSE
  /\ switching' \in {switching, switching \/ task[g].was}
  /\ UNCHANGED used

(* It returns an error; the switcher unpauses whatever is active. *)
Failed ==
  /\ used.faults < MaxFaults /\ used' = [used EXCEPT !.faults = @ + 1]
  /\ UNCHANGED <<active, removed, switching>>

Resumed(g) == IF g = Switcher THEN Unpause ELSE player

(* mpv did not start, or is gone already. *)
NotLoaded(g) == Failed /\ player' = Resumed(g)

(* mpv runs, but its socket does not show up in time or does not answer. The *)
(* process is left alone: no track has it, nobody waits for it.              *)
LeftAlone(g) ==
  /\ Failed
  /\ \E p \in Players :
       Unused(p) /\ player' = [Resumed(g) EXCEPT ![p] = Process(g, "none")]

LoadEnds(g) ==
  /\ task[g].pc \in {"start", "skip", "next"}
  /\ Loaded(g) \/ NotLoaded(g) \/ LeftAlone(g)
  /\ task' = [task EXCEPT ![g] = Idle]
  /\ UNCHANGED <<items, index, overlapped>>

(* The switcher takes the message of p's waiter, closes the active track and *)
(* turns to the next song.                                                  *)
Receive(p) ==
  /\ player[p].waiter = "sending"
  /\ switching
  /\ player' = [Close EXCEPT ![p] = NoPlayer]
  /\ active' = 0 /\ removed' = FALSE
  /\ IF AtLast THEN Begin(Switcher, Idle) /\ UNCHANGED index
     ELSE Begin(Switcher, LoadBegins(index + 1, "next", FALSE)) /\ index' = Clamp(index + 1)
  /\ UNCHANGED <<items, switching, used>>

----------------------------------------------------------------------------
Request(g) ==
  \/ Add(g) \/ ClearCall(g) \/ Set(g) \/ Remove(g) \/ Shuffle(g)
  \/ Stop(g) \/ Start(g) \/ SkipTo(g) \/ Seek(g)

Step == \/ \E g \in Requests : Request(g) \/ SetEnds(g)
        \/ \E g \in Goroutines : LoadEnds(g)
        \/ \E p \in Players : Ends(p) \/ Notice(p) \/ Receive(p)

Next == Step

Spec == Init /\ [][Next]_vars

(* Waiters and the switcher run, loads end; users need not ask and songs     *)
(* need not end.                                                            *)
FairSpec ==
  /\ Spec
  /\ \A g \in Goroutines : WF_vars(LoadEnds(g))
  /\ \A p \in Players : WF_vars(Notice(p)) /\ WF_vars(Receive(p))

----------------------------------------------------------------------------
(* Every variable keeps its type; Index is a place of the queue, -1, or 0     *)
(* where the queue is empty.                                                *)
TypeOK ==
  /\ items \in Seq(Songs) /\ Len(items) <= MaxItems
  /\ index \in {-1, 0} \cup 0 .. Len(items) - 1
  /\ active \in 0 .. MaxPlayers
  /\ player \in [Players -> Player]
  /\ switching \in BOOLEAN /\ overlapped \in BOOLEAN /\ removed \in BOOLEAN
  /\ task \in [Goroutines -> Task]
  /\ used \in [calls : 0 .. MaxCalls, faults : 0 .. MaxFaults]

(* The track a user hears, pauses and resumes is the song Index says is      *)
(* current (Queue.Current, DeviceStatus.CurrentIndex), however the queue was *)
(* added to, shortened and shuffled. Except where calls overlapped, and for  *)
(* the track whose entry was removed under it: it keeps its player, and an  *)
(* Add then makes the first entry the current one.                          *)
ActiveAtIndex ==
  ~overlapped /\ ~removed /\ active # 0 => Current(index) = player[active].song

(* While calls do not overlap, every player that runs or whose end is still  *)
(* to be told is the active track, and can be reached by Stop and Clear;    *)
(* except an mpv that NewTrack started and then gave up, which plays its     *)
(* song to the end beside whatever comes next. Such a process never becomes *)
(* the active track, whoever overlaps.                                      *)
NoPlayerLost ==
  /\ ~overlapped => \A p \in Players : ~player[p].closed => p = active \/ player[p].waiter = "none"
  /\ active # 0 => player[active].waiter # "none"

(* When the active song is over the switcher turns to a song that follows it *)
(* in the queue as it is then, and to none only after the last place of the  *)
(* song (IncreaseIndex, IsAtLastElement).                                   *)
PlaysInOrder ==
  [][\A p \in Players :
       Receive(p) /\ p = active /\ ~overlapped' /\ ~removed =>
         \E k \in DOMAIN items :
           /\ items[k] = player[p].song
           /\ task'[Switcher].song = IF k < Len(items) THEN items[k + 1] ELSE None]_vars

(* Once the device was started, an active track that has ended does not stay *)
(* the active track: the switcher is told, or a request has replaced it.     *)
EventuallySwitches ==
  \A p \in Players :
    (active = p /\ player[p].mode = "ended" /\ switching) ~> (active # p)
=============================================================================
