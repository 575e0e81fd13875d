-------------------------- MODULE EventBrokerProofs --------------------------
(***************************************************************************)
(* Proofs about EventBroker: its types, where it may panic, and that it      *)
(* implements Broadcast, for any numbers of connections, goroutines and     *)
(* events and for any sizes of the buffers.                                 *)
(***************************************************************************)
EXTENDS EventBroker, TLAPS

LEMMA InitTypeOK == Init => TypeOK
  <1> SUFFICES ASSUME Init PROVE TypeOK
    OBVIOUS
  <1>1. clients \subseteq Conns /\ closed \subseteq Conns /\ cancelled \subseteq Conns
    BY DEF Init
  <1>2. publish \in Seq([by : Senders, ctx : Contexts]) /\ subscribing \in Seq(Conns)
        /\ unsubscribing \in Seq(Conns) /\ published \in Seq(Events)
    BY DEF Init
  <1>3. queue \in [Conns -> Seq(Nat)] /\ written \in [Conns -> Seq(Nat)]
        /\ \A c \in Conns : Len(queue[c]) <= ClientBuffer
    BY BuffersAssumption DEF Init
  <1>4. hand \in [Conns -> Nat \cup {None}] /\ writing \in [Conns -> Nat \cup {None}]
        /\ since \in [Conns -> Int]
    BY DEF Init
  <1>5. reader \in [Conns -> {"none", "running", "ended"}]
        /\ handler \in [Conns -> {"new", "subscribing", "open", "leaving", "gone"}]
    BY DEF Init
  <1>6. panicked \in BOOLEAN
    BY DEF Init
  <1> QED BY <1>1, <1>2, <1>3, <1>4, <1>5, <1>6 DEF TypeOK

(* sendOrDrop keeps every channel within its buffer. *)
LEMMA SendOrDropType ==
  ASSUME TypeOK, NEW cs \in SUBSET Conns, NEW id \in Nat, SendOrDrop(cs, id)
  PROVE  /\ panicked' \in BOOLEAN
         /\ queue' \in [Conns -> Seq(Nat)]
         /\ \A c \in Conns : Len(queue'[c]) <= ClientBuffer
  <1>1. \A c \in Conns : /\ queue[c] \in Seq(Nat) /\ Len(queue[c]) <= ClientBuffer
                         /\ Append(queue[c], id) \in Seq(Nat)
                         /\ Len(Append(queue[c], id)) = Len(queue[c]) + 1
    BY DEF TypeOK
  <1>2. \A c \in Conns : queue'[c] = IF c \in cs \ closed /\ Len(queue[c]) < ClientBuffer
                                      THEN Append(queue[c], id) ELSE queue[c]
    BY DEF SendOrDrop
  <1>3. queue' \in [Conns -> Seq(Nat)]
    BY <1>1 DEF SendOrDrop
  <1>4. \A c \in Conns : Len(queue'[c]) <= ClientBuffer
    <2> TAKE c \in Conns
    <2>1. Len(queue[c]) \in Nat /\ ClientBuffer \in Nat
      BY <1>1, BuffersAssumption
    <2>2. CASE c \in cs \ closed /\ Len(queue[c]) < ClientBuffer
      <3>1. queue'[c] = Append(queue[c], id)
        BY <1>2, <2>2
      <3>2. Len(queue'[c]) = Len(queue[c]) + 1
        BY <1>1, <3>1
      <3> QED BY <2>1, <2>2, <3>2
    <2>3. CASE ~(c \in cs \ closed /\ Len(queue[c]) < ClientBuffer)
      <3>1. queue'[c] = queue[c]
        BY <1>2, <2>3
      <3> QED BY <1>1, <3>1
    <2> QED BY <2>2, <2>3
  <1>5. panicked' \in BOOLEAN
    BY DEF SendOrDrop
  <1> QED BY <1>3, <1>4, <1>5

LEMMA NumberType ==
  ASSUME TypeOK, NEW x \in Events, Number(x), publish' \in Seq([by : Senders, ctx : Contexts])
  PROVE  TypeOK'
  <1>1. Len(published) + 1 \in Nat /\ published' \in Seq(Events)
    BY DEF TypeOK, Number
  <1>2. {c \in clients : ShouldSend(x, c)} \in SUBSET Conns
    BY DEF TypeOK
  <1>3. SendOrDrop({c \in clients : ShouldSend(x, c)}, Len(published) + 1)
    BY DEF Number
  <1>4. /\ panicked' \in BOOLEAN
        /\ queue' \in [Conns -> Seq(Nat)]
        /\ \A c \in Conns : Len(queue'[c]) <= ClientBuffer
    <2> HIDE DEF ShouldSend
    <2> QED BY <1>1, <1>2, <1>3, SendOrDropType
  <1> QED BY <1>1, <1>4 DEF TypeOK, Number, streams

LEMMA NextTypeOK == TypeOK /\ [Next]_vars => TypeOK'
  <1> SUFFICES ASSUME TypeOK, [Next]_vars PROVE TypeOK'
    OBVIOUS
  <1>1. ASSUME NEW s \in Senders, SendMessage(s) PROVE TypeOK'
    <2>1. PICK x \in Contexts : publish' = Append(publish, [by |-> s, ctx |-> x])
      BY <1>1 DEF SendMessage
    <2>2. publish' \in Seq([by : Senders, ctx : Contexts])
      BY <2>1 DEF TypeOK
    <2> QED BY <1>1, <2>2 DEF SendMessage, TypeOK, listening, streams
  <1>2. CASE Register
    <2> DEFINE c == Head(subscribing)
    <2>1. c \in Conns /\ Tail(subscribing) \in Seq(Conns)
      BY <1>2 DEF Register, TypeOK
    <2>2. SendOrDrop({c}, 0)
      BY <1>2 DEF Register
    <2>3. /\ panicked' \in BOOLEAN
          /\ queue' \in [Conns -> Seq(Nat)]
          /\ \A d \in Conns : Len(queue'[d]) <= ClientBuffer
      BY <2>1, <2>2, SendOrDropType
    <2>4. clients' \subseteq Conns /\ since' \in [Conns -> Int] /\ subscribing' \in Seq(Conns)
      BY <1>2, <2>1 DEF Register, TypeOK
    <2> QED BY <1>2, <2>3, <2>4 DEF Register, TypeOK, streams
  <1>3. CASE Detach
    <2>1. Head(unsubscribing) \in Conns /\ Tail(unsubscribing) \in Seq(Conns)
      BY <1>3 DEF Detach, TypeOK
    <2> QED BY <1>3, <2>1 DEF Detach, TypeOK, streams
  <1>4. CASE Distribute
    <2>1. /\ Head(publish) \in [by : Senders, ctx : Contexts]
          /\ publish' \in Seq([by : Senders, ctx : Contexts])
      <3> DEFINE S == [by : Senders, ctx : Contexts]
      <3>1. publish \in Seq(S) /\ publish # <<>> /\ publish' = Tail(publish)
        BY <1>4 DEF Distribute, TypeOK
      <3> HIDE DEF S
      <3>2. Head(publish) \in S /\ publish' \in Seq(S)
        BY <3>1
      <3> QED BY <3>2 DEF S
    <2>2. Head(publish).ctx \in Events
      BY <2>1 DEF Events
    <2> QED BY <1>4, <2>1, <2>2, NumberType DEF Distribute
  <1>5. CASE Tick
    BY <1>5, NumberType DEF Tick, Events, TypeOK
  <1>6. ASSUME NEW c \in Conns, Subscribe(c) PROVE TypeOK'
    BY <1>6 DEF Subscribe, TypeOK, listening
  <1>7. ASSUME NEW c \in Conns, Open(c) PROVE TypeOK'
    BY <1>7 DEF Open, TypeOK, channels, listening
  <1>8. ASSUME NEW c \in Conns, Cancel(c) PROVE TypeOK'
    BY <1>8 DEF Cancel, TypeOK, channels, listening
  <1>9. ASSUME NEW c \in Conns, Take(c) PROVE TypeOK'
    <2>1. /\ queue[c] \in Seq(Nat) /\ Len(queue[c]) \in Nat /\ ClientBuffer \in Nat
          /\ Len(queue[c]) <= ClientBuffer
      BY BuffersAssumption DEF TypeOK
    <2>2. /\ Head(queue[c]) \in Nat /\ Tail(queue[c]) \in Seq(Nat)
          /\ Len(Tail(queue[c])) = Len(queue[c]) - 1
      BY <1>9, <2>1 DEF Take
    <2>3. /\ hand' \in [Conns -> Nat \cup {None}]
          /\ queue' \in [Conns -> Seq(Nat)]
      BY <1>9, <2>2 DEF Take, TypeOK
    <2>4. \A d \in Conns : Len(queue'[d]) <= ClientBuffer
      BY <1>9, <2>1, <2>2 DEF Take, TypeOK
    <2> QED BY <1>9, <2>3, <2>4 DEF Take, TypeOK, channels, listening
  <1>10. ASSUME NEW c \in Conns, Pass(c) PROVE TypeOK'
    BY <1>10 DEF Pass, TypeOK, channels, listening
  <1>11. ASSUME NEW c \in Conns, GiveUp(c) PROVE TypeOK'
    BY <1>11 DEF GiveUp, TypeOK, channels, listening
  <1>12. ASSUME NEW c \in Conns, ReaderEnds(c) PROVE TypeOK'
    BY <1>12 DEF ReaderEnds, TypeOK, channels, listening
  <1>13. ASSUME NEW c \in Conns, Write(c) PROVE TypeOK'
    <2>1. writing[c] \in Nat /\ written[c] \in Seq(Nat)
      BY <1>13 DEF Write, TypeOK
    <2> QED BY <1>13, <2>1 DEF Write, TypeOK, channels, listening
  <1>14. ASSUME NEW c \in Conns, Leave(c) PROVE TypeOK'
    BY <1>14 DEF Leave, TypeOK, listening
  <1>15. ASSUME NEW c \in Conns, Return(c) PROVE TypeOK'
    BY <1>15 DEF Return, TypeOK, channels, listening
  <1>16. CASE UNCHANGED vars
    BY <1>16 DEF TypeOK, vars, channels, listening, streams
  <1> QED BY <1>1, <1>2, <1>3, <1>4, <1>5, <1>6, <1>7, <1>8, <1>9, <1>10, <1>11, <1>12,
             <1>13, <1>14, <1>15, <1>16 DEF Next, Listen, Handler, Reader

(* Every variable of the broker keeps its type; no client's channel holds    *)
(* more than its buffer (server/events/sse.go).                              *)
THEOREM TypeCorrect == Spec => []TypeOK
  BY InitTypeOK, NextTypeOK, PTL DEF Spec

----------------------------------------------------------------------------
(* The inductive invariant *)

(* Nothing was sent to a connection before it is registered; it is          *)
(* registered once, and leaves before its channel is closed.                *)
Lifecycle ==
  \A c \in Conns :
    /\ since[c] \in -1..Len(published)
    /\ since[c] = -1 => /\ c \notin clients /\ queue[c] = <<>> /\ hand[c] = None
                       /\ writing[c] = None /\ written[c] = <<>>
    /\ handler[c] = "new" => since[c] = -1
    /\ c \in closed => handler[c] \in {"leaving", "gone"}

(* The two channels of connections. *)
Attaching ==
  /\ \A i \in 1..Len(subscribing) :
       /\ since[subscribing[i]] = -1 /\ handler[subscribing[i]] # "new"
       /\ \A j \in 1..Len(subscribing) : i # j => subscribing[i] # subscribing[j]
  /\ \A i \in 1..Len(unsubscribing) : handler[unsubscribing[i]] \in {"leaving", "gone"}

(* Event i may be on its way to c. *)
Fits(c, i) ==
  /\ since[c] # -1 /\ i <= Len(published)
  /\ i = 0 \/ (since[c] < i /\ ShouldSend(published[i], c))

(* What is on its way to c, from what was written last to the end of the    *)
(* channel, fits and is in the order of the ids.                            *)
InTransit(c) ==
  /\ \A i \in 1..Len(queue[c]) :
       /\ Fits(c, queue[c][i])
       /\ B!Last(written[c]) < queue[c][i]
       /\ hand[c] # None => hand[c] < queue[c][i]
       /\ writing[c] # None => writing[c] < queue[c][i]
       /\ \A j \in 1..Len(queue[c]) : i < j => queue[c][i] < queue[c][j]
  /\ hand[c] # None => /\ Fits(c, hand[c]) /\ B!Last(written[c]) < hand[c]
                       /\ writing[c] # None => writing[c] < hand[c]
  /\ writing[c] # None => Fits(c, writing[c]) /\ B!Last(written[c]) < writing[c]

Inv ==
  /\ TypeOK
  /\ Lifecycle
  /\ Attaching
  /\ OnlyOvertakenPanics
  /\ \A c \in Conns : InTransit(c) /\ B!Last(written[c]) <= Len(published)

LEMMA InitInv == Init => Inv
  <1> SUFFICES ASSUME Init PROVE Inv
    OBVIOUS
  <1>1. TypeOK
    BY InitTypeOK
  <1>2. Lifecycle
    BY DEF Init, Lifecycle
  <1>3. Attaching
    BY DEF Init, Attaching
  <1>4. OnlyOvertakenPanics
    BY DEF Init, OnlyOvertakenPanics
  <1>5. \A c \in Conns : InTransit(c) /\ B!Last(written[c]) <= Len(published)
    BY DEF Init, InTransit, B!Last
  <1> QED BY <1>1, <1>2, <1>3, <1>4, <1>5 DEF Inv

(* What is below and above. *)
LEMMA LastType == \A s \in Seq(Nat) : B!Last(s) \in Int /\ B!Last(s) >= -1
  <1> TAKE s \in Seq(Nat)
  <1>1. CASE s = <<>>
    BY <1>1 DEF B!Last
  <1>2. CASE s # <<>>
    <2>1. Len(s) \in 1..Len(s) /\ s[Len(s)] \in Nat
      BY <1>2
    <2> QED BY <1>2, <2>1 DEF B!Last
  <1> QED BY <1>1, <1>2

LEMMA LastAppend ==
  ASSUME NEW s \in Seq(Nat), NEW i \in Nat
  PROVE  B!Last(Append(s, i)) = i
  <1>1. Append(s, i) # <<>> /\ Len(Append(s, i)) = Len(s) + 1 /\ Append(s, i)[Len(s) + 1] = i
    OBVIOUS
  <1> QED BY <1>1 DEF B!Last

(* An event that may be on its way stays so when events are added. *)
LEMMA FitsStays ==
  ASSUME TypeOK, NEW c \in Conns, NEW i \in Nat, Fits(c, i), since'[c] = since[c],
         Lifecycle,
         \/ published' = published
         \/ \E x \in Events : published' = Append(published, x)
  PROVE  Fits(c, i)'
  <1>1. CASE published' = published
    BY <1>1 DEF Fits
  <1>2. CASE \E x \in Events : published' = Append(published, x)
    <2>1. PICK x \in Events : published' = Append(published, x)
      BY <1>2
    <2>2. published \in Seq(Events) /\ Len(published) \in Nat /\ since[c] \in Int
      BY DEF TypeOK
    <2>3. Len(published') = Len(published) + 1
      BY <2>1, <2>2
    <2>4. \A k \in 1..Len(published) : published'[k] = published[k]
      BY <2>1, <2>2
    <2>5. CASE i = 0
      BY <2>2, <2>3, <2>5 DEF Fits
    <2>6. CASE i # 0
      <3>1. i \in 1..Len(published) /\ ShouldSend(published[i], c) /\ since[c] < i /\ since[c] # -1
        BY <2>2, <2>6 DEF Fits
      <3>2. published'[i] = published[i]
        BY <2>4, <3>1
      <3> QED BY <2>2, <2>3, <3>1, <3>2 DEF Fits
    <2> QED BY <2>5, <2>6
  <1> QED BY <1>1, <1>2

(* Nothing on its way changes: neither do its limits. *)
LEMMA TransitStays ==
  ASSUME Inv, NEW c \in Conns,
         queue'[c] = queue[c], hand'[c] = hand[c], writing'[c] = writing[c],
         written'[c] = written[c], since'[c] = since[c],
         \/ published' = published
         \/ \E x \in Events : published' = Append(published, x)
  PROVE  InTransit(c)' /\ B!Last(written'[c]) <= Len(published')
  <1>1. TypeOK /\ Lifecycle /\ InTransit(c) /\ B!Last(written[c]) <= Len(published)
    BY DEF Inv
  <1>2. \A i \in 1..Len(queue[c]) : queue[c][i] \in Nat
    BY <1>1 DEF TypeOK
  <1>3. hand[c] # None => hand[c] \in Nat
    BY <1>1 DEF TypeOK
  <1>4. writing[c] # None => writing[c] \in Nat
    BY <1>1 DEF TypeOK
  <1>5. \A i \in 1..Len(queue[c]) : Fits(c, queue[c][i])'
    BY <1>1, <1>2, FitsStays DEF InTransit
  <1>6. hand[c] # None => Fits(c, hand[c])'
    BY <1>1, <1>3, FitsStays DEF InTransit
  <1>7. writing[c] # None => Fits(c, writing[c])'
    BY <1>1, <1>4, FitsStays DEF InTransit
  <1>8. Len(published) \in Nat /\ Len(published') \in Nat /\ Len(published) <= Len(published')
    BY <1>1 DEF TypeOK
  <1>9. B!Last(written[c]) \in Int
    BY <1>1, LastType DEF TypeOK
  <1>10. InTransit(c)'
    BY <1>1, <1>5, <1>6, <1>7 DEF InTransit
  <1> QED BY <1>1, <1>8, <1>9, <1>10

(* The latest event goes to the end. *)
LEMMA TransitAppend ==
  ASSUME Inv, NEW c \in Conns, NEW x \in Events, published' = Append(published, x),
         queue'[c] = Append(queue[c], Len(published) + 1), since'[c] = since[c],
         hand'[c] = hand[c], writing'[c] = writing[c], written'[c] = written[c],
         since[c] # -1, ShouldSend(x, c)
  PROVE  InTransit(c)'
  <1>1. TypeOK /\ Lifecycle /\ InTransit(c) /\ B!Last(written[c]) <= Len(published)
    BY DEF Inv
  <1>2. queue[c] \in Seq(Nat) /\ Len(published) \in Nat /\ published \in Seq(Events)
        /\ since[c] \in Int /\ since[c] <= Len(published)
    BY <1>1 DEF TypeOK, Lifecycle
  <1> DEFINE n == Len(published) + 1
  <1>3. n \in Nat /\ Len(published') = n /\ published'[n] = x
    BY <1>2
  <1>4. \A e \in Nat : e = n => Fits(c, e)'
    BY <1>2, <1>3 DEF Fits, ShouldSend
  <1>5. \A e \in Nat : Fits(c, e) => e < n /\ Fits(c, e)'
    <2> TAKE e \in Nat
    <2> HAVE Fits(c, e)
    <2>1. Fits(c, e)'
      BY <1>1, FitsStays
    <2> QED BY <1>2, <2>1 DEF Fits
  <1> HIDE DEF n
  <1>6. /\ Len(queue'[c]) = Len(queue[c]) + 1 /\ Len(queue[c]) \in Nat
        /\ \A i \in 1..Len(queue[c]) : queue'[c][i] = queue[c][i] /\ queue[c][i] \in Nat
        /\ queue'[c][Len(queue[c]) + 1] = n
    BY <1>2, <1>3 DEF n
  <1>7. hand[c] # None => hand[c] \in Nat /\ hand[c] < n /\ Fits(c, hand[c])'
    BY <1>1, <1>5 DEF InTransit, TypeOK
  <1>8. writing[c] # None => writing[c] \in Nat /\ writing[c] < n /\ Fits(c, writing[c])'
    BY <1>1, <1>5 DEF InTransit, TypeOK
  <1>9. B!Last(written[c]) \in Int /\ B!Last(written[c]) < n
    BY <1>1, <1>2, LastType DEF TypeOK, n
  <1>10. \A i \in 1..Len(queue'[c]) : Fits(c, queue[c][i])'
    <2> TAKE i \in 1..Len(queue'[c])
    <2>1. CASE i = Len(queue[c]) + 1
      BY <1>3, <1>4, <1>6, <2>1
    <2>2. CASE i \in 1..Len(queue[c])
      <3>1. Fits(c, queue[c][i]) /\ queue[c][i] \in Nat
        BY <1>1, <1>6, <2>2 DEF InTransit
      <3> QED BY <1>5, <1>6, <2>2, <3>1
    <2> QED BY <1>6, <2>1, <2>2
  <1>11. \A i \in 1..Len(queue'[c]) :
           /\ B!Last(written[c]) < queue'[c][i]
           /\ hand[c] # None => hand[c] < queue'[c][i]
           /\ writing[c] # None => writing[c] < queue'[c][i]
           /\ \A j \in 1..Len(queue'[c]) : i < j => queue'[c][i] < queue'[c][j]
    <2> TAKE i \in 1..Len(queue'[c])
    <2>1. CASE i = Len(queue[c]) + 1
      BY <1>6, <1>7, <1>8, <1>9, <2>1
    <2>2. CASE i \in 1..Len(queue[c])
      <3>1. Fits(c, queue[c][i]) /\ queue[c][i] \in Nat
        BY <1>1, <1>6, <2>2 DEF InTransit
      <3>2. queue'[c][i] = queue[c][i] /\ queue[c][i] < n
        BY <1>5, <1>6, <2>2, <3>1
      <3>3. \A j \in 1..Len(queue'[c]) : i < j => queue'[c][i] < queue'[c][j]
        <4> TAKE j \in 1..Len(queue'[c])
        <4>1. CASE j = Len(queue[c]) + 1
          BY <1>6, <3>2, <4>1
        <4>2. CASE j \in 1..Len(queue[c])
          BY <1>1, <1>6, <2>2, <4>2 DEF InTransit
        <4> QED BY <1>6, <4>1, <4>2
      <3> QED BY <1>1, <2>2, <3>2, <3>3 DEF InTransit
    <2> QED BY <1>6, <2>1, <2>2
  <1> QED BY <1>1, <1>7, <1>8, <1>10, <1>11 DEF InTransit

LEMMA NumberInv ==
  ASSUME Inv, TypeOK', ~panicked, NEW x \in Events, Number(x)
  PROVE  Inv'
  <1> DEFINE cs == {c \in clients : ShouldSend(x, c)}
  <1>1. /\ TypeOK /\ Lifecycle /\ Attaching /\ OnlyOvertakenPanics
        /\ published' = Append(published, x) /\ SendOrDrop(cs, Len(published) + 1)
        /\ UNCHANGED <<subscribing, unsubscribing, clients, closed, since, streams>>
    BY DEF Inv, Number
  <1>2. Len(published) \in Nat /\ Len(published') = Len(published) + 1
    BY <1>1 DEF TypeOK
  <1>3. clients \cap closed = {}
    BY <1>1 DEF OnlyOvertakenPanics
  <1>4. cs \cap closed = {} /\ ~panicked'
    BY <1>1, <1>3 DEF SendOrDrop
  <1>5. OnlyOvertakenPanics'
    BY <1>1, <1>3, <1>4 DEF OnlyOvertakenPanics
  <1>6. \A c \in Conns : since[c] \in -1..Len(published')
    BY <1>1, <1>2 DEF Lifecycle
  <1>7. \A c \in Conns : c \notin clients => queue'[c] = queue[c]
    BY <1>1 DEF SendOrDrop
  <1>8. Lifecycle'
    BY <1>1, <1>6, <1>7 DEF Lifecycle, streams
  <1>9. Attaching'
    BY <1>1 DEF Attaching, streams
  <1>10. \A c \in Conns : InTransit(c)' /\ B!Last(written'[c]) <= Len(published')
    <2> TAKE c \in Conns
    <2>1. /\ since'[c] = since[c] /\ hand'[c] = hand[c] /\ writing'[c] = writing[c]
          /\ written'[c] = written[c]
      BY <1>1 DEF streams
    <2>2. queue'[c] = IF c \in cs \ closed /\ Len(queue[c]) < ClientBuffer
                       THEN Append(queue[c], Len(published) + 1) ELSE queue[c]
      BY <1>1 DEF SendOrDrop
    <2>3. B!Last(written'[c]) <= Len(published')
      <3>1. B!Last(written[c]) \in Int /\ B!Last(written[c]) <= Len(published)
        BY <1>1, LastType DEF Inv, TypeOK
      <3> QED BY <1>2, <2>1, <3>1
    <2>4. CASE queue'[c] = queue[c]
      BY <1>1, <2>1, <2>4, TransitStays
    <2>5. CASE queue'[c] # queue[c]
      <3>1. c \in clients /\ ShouldSend(x, c) /\ queue'[c] = Append(queue[c], Len(published) + 1)
        <4>1. c \in cs
          BY <2>2, <2>5
        <4> QED BY <2>2, <2>5, <4>1
      <3>2. since[c] # -1
        BY <1>1, <3>1 DEF Lifecycle
      <3>3. InTransit(c)'
        BY <1>1, <2>1, <3>1, <3>2, TransitAppend
      <3> QED BY <2>3, <3>3
    <2> QED BY <2>4, <2>5
  <1> QED BY <1>5, <1>8, <1>9, <1>10 DEF Inv

LEMMA RegisterInv ==
  ASSUME Inv, TypeOK', ~panicked, Register
  PROVE  Inv'
  <1> DEFINE c == Head(subscribing)
  <1>1. /\ TypeOK /\ Lifecycle /\ Attaching /\ OnlyOvertakenPanics
        /\ subscribing # <<>> /\ subscribing' = Tail(subscribing)
        /\ clients' = clients \cup {c} /\ since' = [since EXCEPT ![c] = Len(published)]
        /\ SendOrDrop({c}, 0)
        /\ UNCHANGED <<publish, unsubscribing, closed, published, streams>>
    BY DEF Inv, Register
  <1>2. subscribing \in Seq(Conns) /\ Len(subscribing) \in Nat /\ Len(published) \in Nat
        /\ since \in [Conns -> Int]
    BY <1>1 DEF TypeOK
  <1>3. c = subscribing[1] /\ 1 \in 1..Len(subscribing) /\ c \in Conns
    BY <1>1, <1>2
  <1>4. since[c] = -1 /\ handler[c] # "new"
    BY <1>1, <1>3 DEF Attaching
  <1>5. c \notin clients /\ queue[c] = <<>> /\ hand[c] = None /\ writing[c] = None
        /\ written[c] = <<>>
    BY <1>1, <1>3, <1>4 DEF Lifecycle
  <1>6. /\ since'[c] = Len(published)
        /\ \A d \in Conns : d # c => since'[d] = since[d] /\ queue'[d] = queue[d]
    BY <1>1, <1>2, <1>3 DEF SendOrDrop
  <1>7. clients \cap closed = {}
    BY <1>1 DEF OnlyOvertakenPanics
  <1>8. /\ panicked' = (c \in closed)
        /\ c \in closed => queue'[c] = <<>>
    BY <1>1, <1>3, <1>5 DEF SendOrDrop
  <1>9. OnlyOvertakenPanics'
    <2>1. clients' \cap closed' = IF c \in closed THEN {c} ELSE {}
      BY <1>1, <1>7
    <2>2. panicked' <=> clients' \cap closed' # {}
      BY <1>8, <2>1
    <2>3. c \in closed => handler[c] \in {"leaving", "gone"}
      BY <1>1, <1>3 DEF Lifecycle
    <2>4. \A d \in clients' \cap closed' : d = c /\ c \in closed
      BY <2>1
    <2> QED BY <1>1, <1>5, <1>8, <2>2, <2>3, <2>4 DEF OnlyOvertakenPanics, streams
  <1>10. Lifecycle'
    <2> SUFFICES ASSUME NEW d \in Conns
                 PROVE /\ since'[d] \in -1..Len(published)
                       /\ since'[d] = -1 =>
                            /\ d \notin clients' /\ queue'[d] = <<>> /\ hand[d] = None
                            /\ writing[d] = None /\ written[d] = <<>>
                       /\ handler[d] = "new" => since'[d] = -1
                       /\ d \in closed => handler[d] \in {"leaving", "gone"}
      BY <1>1 DEF Lifecycle, streams
    <2>1. CASE d = c
      BY <1>1, <1>2, <1>3, <1>4, <1>6, <2>1 DEF Lifecycle
    <2>2. CASE d # c
      BY <1>1, <1>6, <2>2 DEF Lifecycle
    <2> QED BY <2>1, <2>2
  <1>11. Attaching'
    <2>1. /\ Len(subscribing') = Len(subscribing) - 1
          /\ \A i \in 1..Len(subscribing') : /\ i + 1 \in 1..Len(subscribing)
                                            /\ subscribing'[i] = subscribing[i + 1]
      BY <1>1, <1>2
    <2>2. \A i \in 1..Len(subscribing') :
            /\ since'[subscribing'[i]] = -1 /\ handler[subscribing'[i]] # "new"
            /\ \A j \in 1..Len(subscribing') : i # j => subscribing'[i] # subscribing'[j]
      <3> TAKE i \in 1..Len(subscribing')
      <3>1. subscribing[i + 1] # c /\ subscribing[i + 1] \in Conns
        BY <1>1, <1>2, <1>3, <2>1 DEF Attaching
      <3>2. since'[subscribing'[i]] = -1 /\ handler[subscribing'[i]] # "new"
        BY <1>1, <1>6, <2>1, <3>1 DEF Attaching
      <3>3. \A j \in 1..Len(subscribing') : i # j => subscribing'[i] # subscribing'[j]
        <4> TAKE j \in 1..Len(subscribing')
        <4> HAVE i # j
        <4>1. i + 1 # j + 1
          BY <1>2, <2>1
        <4> QED BY <1>1, <2>1, <4>1 DEF Attaching
      <3> QED BY <3>2, <3>3
    <2>3. \A i \in 1..Len(unsubscribing) : handler[unsubscribing[i]] \in {"leaving", "gone"}
      BY <1>1 DEF Attaching
    <2> QED BY <1>1, <2>2, <2>3 DEF Attaching, streams
  <1>12. \A d \in Conns : InTransit(d)' /\ B!Last(written'[d]) <= Len(published')
    <2> TAKE d \in Conns
    <2>1. CASE d = c
      <3>1. hand'[d] = None /\ writing'[d] = None /\ written'[d] = <<>> /\ published' = published
        BY <1>1, <1>5, <2>1 DEF streams
      <3>2. B!Last(written'[d]) = -1
        BY <3>1 DEF B!Last
      <3>3. queue'[d] = <<>> \/ queue'[d] = Append(<<>>, 0)
        <4>1. queue'[d] = queue[d] \/ queue'[d] = Append(queue[d], 0)
          BY <1>1 DEF SendOrDrop
        <4>2. queue[d] = <<>>
          BY <1>5, <2>1
        <4> QED BY <4>1, <4>2
      <3>4. CASE queue'[d] = <<>>
        BY <1>2, <3>1, <3>2, <3>4 DEF InTransit
      <3>5. CASE queue'[d] = Append(<<>>, 0)
        <4>1. Len(queue'[d]) = 1 /\ queue'[d][1] = 0
          BY <3>5
        <4>2. since'[d] = Len(published)
          BY <1>6, <2>1
        <4> HIDE DEF c
        <4>3. \A i \in 1..Len(queue'[d]) : i = 1 /\ Fits(d, queue[d][i])'
          BY <1>2, <3>1, <4>1, <4>2 DEF Fits
        <4> QED BY <1>2, <3>1, <3>2, <4>1, <4>3 DEF InTransit
      <3> QED BY <3>3, <3>4, <3>5
    <2>2. CASE d # c
      BY <1>1, <1>6, <2>2, TransitStays DEF streams
    <2> QED BY <2>1, <2>2
  <1> QED BY <1>9, <1>10, <1>11, <1>12 DEF Inv

LEMMA DetachInv ==
  ASSUME Inv, TypeOK', ~panicked, Detach
  PROVE  Inv'
  <1> DEFINE c == Head(unsubscribing)
  <1>1. /\ TypeOK /\ Lifecycle /\ Attaching /\ OnlyOvertakenPanics
        /\ unsubscribing # <<>> /\ unsubscribing' = Tail(unsubscribing)
        /\ closed' = closed \cup {c} /\ clients' = clients \ {c}
        /\ UNCHANGED <<publish, subscribing, panicked, published, since, queue, streams>>
    BY DEF Inv, Detach
  <1>2. unsubscribing \in Seq(Conns) /\ Len(unsubscribing) \in Nat
    BY <1>1 DEF TypeOK
  <1>3. c = unsubscribing[1] /\ 1 \in 1..Len(unsubscribing)
    BY <1>1, <1>2
  <1>4. handler[c] \in {"leaving", "gone"}
    BY <1>1, <1>3 DEF Attaching
  <1>5. clients \cap closed = {}
    BY <1>1 DEF OnlyOvertakenPanics
  <1>6. OnlyOvertakenPanics'
    <2>1. clients' \cap closed' = {}
      BY <1>1, <1>5
    <2> QED BY <1>1, <2>1 DEF OnlyOvertakenPanics
  <1>7. Lifecycle'
    BY <1>1, <1>4 DEF Lifecycle, streams
  <1>8. Attaching'
    <2>1. /\ Len(unsubscribing') = Len(unsubscribing) - 1
          /\ \A i \in 1..Len(unsubscribing') : /\ i + 1 \in 1..Len(unsubscribing)
                                              /\ unsubscribing'[i] = unsubscribing[i + 1]
      BY <1>1, <1>2
    <2> QED BY <1>1, <2>1 DEF Attaching, streams
  <1>9. \A d \in Conns : InTransit(d)' /\ B!Last(written'[d]) <= Len(published')
    BY <1>1, TransitStays DEF streams
  <1> QED BY <1>6, <1>7, <1>8, <1>9 DEF Inv

(* What is left of a sequence when its first element is taken. *)
LEMMA TailFacts ==
  ASSUME NEW s \in Seq(Nat), s # <<>>
  PROVE  /\ Len(s) \in Nat /\ 1 \in 1..Len(s) /\ Head(s) = s[1] /\ s[1] \in Nat
         /\ Len(Tail(s)) = Len(s) - 1
         /\ \A i \in 1..Len(Tail(s)) : i + 1 \in 1..Len(s) /\ Tail(s)[i] = s[i + 1]
  <1>1. Len(s) \in Nat /\ 1 \in 1..Len(s) /\ Head(s) = s[1] /\ s[1] \in Nat
    OBVIOUS
  <1>2. Len(Tail(s)) = Len(s) - 1
    BY <1>1
  <1>3. \A i \in 1..Len(Tail(s)) : i + 1 \in 1..Len(s) /\ Tail(s)[i] = s[i + 1]
    BY <1>1, <1>2
  <1> QED BY <1>1, <1>2, <1>3

LEMMA TakeInv ==
  ASSUME Inv, TypeOK', ~panicked, NEW c \in Conns, Take(c)
  PROVE  Inv'
  <1>1. /\ TypeOK /\ Lifecycle /\ Attaching /\ OnlyOvertakenPanics
        /\ hand[c] = None /\ queue[c] # <<>>
        /\ hand' = [hand EXCEPT ![c] = Head(queue[c])]
        /\ queue' = [queue EXCEPT ![c] = Tail(@)]
        /\ UNCHANGED <<channels, listening, reader, writing, handler, cancelled, written>>
    BY DEF Inv, Take
  <1>2. queue[c] \in Seq(Nat) /\ Len(queue[c]) \in Nat
    BY <1>1 DEF TypeOK
  <1>3. /\ hand'[c] = queue[c][1] /\ queue[c][1] \in Nat /\ 1 \in 1..Len(queue[c])
        /\ queue'[c] = Tail(queue[c])
    BY <1>1, <1>2 DEF TypeOK
  <1>4. /\ Len(queue'[c]) = Len(queue[c]) - 1
        /\ \A i \in 1..Len(queue'[c]) : /\ i + 1 \in 1..Len(queue[c])
                                        /\ queue'[c][i] = queue[c][i + 1]
    BY <1>1, <1>2, <1>3, TailFacts
  <1>5. \A d \in Conns : d # c => queue'[d] = queue[d] /\ hand'[d] = hand[d]
    BY <1>1 DEF TypeOK
  <1>6. since[c] # -1
    BY <1>1 DEF Lifecycle
  <1>7. c \notin clients \cap closed
    BY <1>1 DEF OnlyOvertakenPanics
  <1>8. Lifecycle'
    BY <1>1, <1>5, <1>6 DEF Lifecycle, channels, listening
  <1>9. Attaching'
    BY <1>1 DEF Attaching, channels, listening
  <1>10. OnlyOvertakenPanics'
    BY <1>1 DEF OnlyOvertakenPanics, channels, listening
  <1>11. \A d \in Conns : InTransit(d)' /\ B!Last(written'[d]) <= Len(published')
    <2> TAKE d \in Conns
    <2>1. CASE d # c
      BY <1>1, <1>5, <2>1, TransitStays DEF channels, listening
    <2>2. CASE d = c
      <3>1. InTransit(c) /\ B!Last(written[c]) <= Len(published)
        BY DEF Inv
      <3>2. Fits(c, hand[c])'
        BY <1>1, <1>3, <3>1 DEF InTransit, Fits, channels, listening
      <3>3. \A i \in 1..Len(queue'[c]) : Fits(c, queue[c][i])'
        BY <1>1, <1>4, <3>1 DEF InTransit, Fits, channels, listening
      <3>4. \A i \in 1..Len(queue'[c]) :
              /\ B!Last(written[c]) < queue'[c][i]
              /\ hand'[c] < queue'[c][i]
              /\ writing[c] # None => writing[c] < queue'[c][i]
        <4> TAKE i \in 1..Len(queue'[c])
        <4>1. i + 1 \in 1..Len(queue[c]) /\ 1 < i + 1
          BY <1>2, <1>4
        <4> QED BY <1>3, <1>4, <3>1, <4>1 DEF InTransit
      <3>5. \A i, j \in 1..Len(queue'[c]) : i < j => queue'[c][i] < queue'[c][j]
        <4> TAKE i, j \in 1..Len(queue'[c])
        <4> HAVE i < j
        <4>1. i + 1 < j + 1
          BY <1>2, <1>4
        <4> QED BY <1>4, <3>1, <4>1 DEF InTransit
      <3>6. B!Last(written[c]) < hand'[c] /\ (writing[c] # None => writing[c] < hand'[c])
        BY <1>3, <3>1 DEF InTransit
      <3>7. writing' = writing /\ written' = written /\ published' = published
            /\ since' = since
        BY <1>1 DEF listening
      <3>8. writing[c] # None => Fits(c, writing[c])' /\ B!Last(written[c]) < writing[c]
        BY <3>1, <3>7 DEF InTransit, Fits
      <3> QED BY <2>2, <3>1, <3>2, <3>3, <3>4, <3>5, <3>6, <3>7, <3>8 DEF InTransit
    <2> QED BY <2>1, <2>2
  <1> QED BY <1>8, <1>9, <1>10, <1>11 DEF Inv

LEMMA PassInv ==
  ASSUME Inv, TypeOK', ~panicked, NEW c \in Conns, Pass(c)
  PROVE  Inv'
  <1>1. /\ TypeOK /\ Lifecycle /\ Attaching /\ OnlyOvertakenPanics
        /\ hand[c] # None /\ writing[c] = None
        /\ writing' = [writing EXCEPT ![c] = hand[c]]
        /\ hand' = [hand EXCEPT ![c] = None]
        /\ UNCHANGED <<channels, listening, queue, reader, handler, cancelled, written>>
    BY DEF Inv, Pass
  <1>2. writing'[c] = hand[c] /\ hand'[c] = None
    BY <1>1 DEF TypeOK
  <1>3. \A d \in Conns : d # c => writing'[d] = writing[d] /\ hand'[d] = hand[d]
    BY <1>1 DEF TypeOK
  <1>4. since[c] # -1
    BY <1>1 DEF Lifecycle
  <1>5. Lifecycle'
    BY <1>1, <1>3, <1>4 DEF Lifecycle, channels, listening
  <1>6. Attaching' /\ OnlyOvertakenPanics'
    BY <1>1 DEF Attaching, OnlyOvertakenPanics, channels, listening
  <1>7. \A d \in Conns : InTransit(d)' /\ B!Last(written'[d]) <= Len(published')
    <2> TAKE d \in Conns
    <2>1. CASE d # c
      BY <1>1, <1>3, <2>1, TransitStays DEF channels, listening
    <2>2. CASE d = c
      <3>1. InTransit(c) /\ B!Last(written[c]) <= Len(published)
        BY DEF Inv
      <3> QED BY <1>1, <1>2, <2>2, <3>1 DEF InTransit, Fits, channels, listening
    <2> QED BY <2>1, <2>2
  <1> QED BY <1>5, <1>6, <1>7 DEF Inv

LEMMA GiveUpInv ==
  ASSUME Inv, TypeOK', ~panicked, NEW c \in Conns, GiveUp(c)
  PROVE  Inv'
  <1>1. /\ TypeOK /\ Lifecycle /\ Attaching /\ OnlyOvertakenPanics
        /\ hand' = [hand EXCEPT ![c] = None]
        /\ UNCHANGED <<channels, listening, queue, reader, writing, handler, cancelled, written>>
    BY DEF Inv, GiveUp
  <1>2. \A d \in Conns : hand'[d] = IF d = c THEN None ELSE hand[d]
    BY <1>1 DEF TypeOK
  <1>3. Lifecycle'
    BY <1>1, <1>2 DEF Lifecycle, channels, listening
  <1>4. Attaching' /\ OnlyOvertakenPanics'
    BY <1>1 DEF Attaching, OnlyOvertakenPanics, channels, listening
  <1>5. \A d \in Conns : InTransit(d)' /\ B!Last(written'[d]) <= Len(published')
    <2> TAKE d \in Conns
    <2>1. InTransit(d) /\ B!Last(written[d]) <= Len(published)
      BY DEF Inv
    <2> QED BY <1>1, <1>2, <2>1 DEF InTransit, Fits, channels, listening
  <1> QED BY <1>3, <1>4, <1>5 DEF Inv

LEMMA WriteInv ==
  ASSUME Inv, TypeOK', ~panicked, NEW c \in Conns, Write(c)
  PROVE  Inv'
  <1>1. /\ TypeOK /\ Lifecycle /\ Attaching /\ OnlyOvertakenPanics
        /\ writing[c] # None
        /\ written' = [written EXCEPT ![c] = Append(@, writing[c])]
        /\ writing' = [writing EXCEPT ![c] = None]
        /\ UNCHANGED <<channels, listening, queue, reader, hand, handler, cancelled>>
    BY DEF Inv, Write
  <1>2. writing[c] \in Nat /\ written[c] \in Seq(Nat)
    BY <1>1 DEF TypeOK
  <1>3. writing'[c] = None /\ written'[c] = Append(written[c], writing[c])
    BY <1>1 DEF TypeOK
  <1>4. B!Last(written'[c]) = writing[c]
    BY <1>2, <1>3, LastAppend
  <1>5. \A d \in Conns : d # c => writing'[d] = writing[d] /\ written'[d] = written[d]
    BY <1>1 DEF TypeOK
  <1>6. since[c] # -1
    BY <1>1 DEF Lifecycle
  <1>7. Lifecycle'
    BY <1>1, <1>5, <1>6 DEF Lifecycle, channels, listening
  <1>8. Attaching' /\ OnlyOvertakenPanics'
    <2>1. clients \cap closed = {}
      BY <1>1 DEF OnlyOvertakenPanics
    <2> QED BY <1>1, <2>1 DEF Attaching, OnlyOvertakenPanics, channels, listening
  <1>9. \A d \in Conns : InTransit(d)' /\ B!Last(written'[d]) <= Len(published')
    <2> TAKE d \in Conns
    <2>1. CASE d # c
      BY <1>1, <1>5, <2>1, TransitStays DEF channels, listening
    <2>2. CASE d = c
      <3>1. InTransit(c)
        BY DEF Inv
      <3> QED BY <1>1, <1>3, <1>4, <2>2, <3>1 DEF InTransit, Fits, channels, listening
    <2> QED BY <2>1, <2>2
  <1> QED BY <1>7, <1>8, <1>9 DEF Inv

LEMMA LeaveInv ==
  ASSUME Inv, TypeOK', ~panicked, NEW c \in Conns, Leave(c)
  PROVE  Inv'
  <1>1. /\ TypeOK /\ Lifecycle /\ Attaching /\ OnlyOvertakenPanics
        /\ handler[c] = "open"
        /\ writing' = [writing EXCEPT ![c] = None]
        /\ handler' = [handler EXCEPT ![c] = "leaving"]
        /\ unsubscribing' = Append(unsubscribing, c)
        /\ UNCHANGED <<publish, subscribing, listening, queue, reader, hand, cancelled, written>>
    BY DEF Inv, Leave
  <1>2. \A d \in Conns : /\ writing'[d] = IF d = c THEN None ELSE writing[d]
                         /\ handler'[d] = IF d = c THEN "leaving" ELSE handler[d]
    BY <1>1 DEF TypeOK
  <1>3. Lifecycle'
    BY <1>1, <1>2 DEF Lifecycle, listening
  <1>4. OnlyOvertakenPanics'
    <2>1. clients \cap closed = {}
      BY <1>1 DEF OnlyOvertakenPanics
    <2> QED BY <1>1, <2>1 DEF OnlyOvertakenPanics, listening
  <1>5. Attaching'
    <2>1. /\ unsubscribing \in Seq(Conns) /\ Len(unsubscribing) \in Nat
          /\ subscribing \in Seq(Conns)
      BY <1>1 DEF TypeOK
    <2>2. /\ Len(unsubscribing') = Len(unsubscribing) + 1
          /\ unsubscribing'[Len(unsubscribing) + 1] = c
          /\ \A i \in 1..Len(unsubscribing) : /\ unsubscribing'[i] = unsubscribing[i]
                                              /\ unsubscribing[i] \in Conns
      BY <1>1, <2>1
    <2>3. \A i \in 1..Len(unsubscribing') : handler'[unsubscribing'[i]] \in {"leaving", "gone"}
      <3> TAKE i \in 1..Len(unsubscribing')
      <3>1. CASE i = Len(unsubscribing) + 1
        BY <1>2, <2>2, <3>1
      <3>2. CASE i \in 1..Len(unsubscribing)
        BY <1>1, <1>2, <2>2, <3>2 DEF Attaching
      <3> QED BY <2>1, <2>2, <3>1, <3>2
    <2>4. \A i \in 1..Len(subscribing) : subscribing[i] \in Conns
      BY <2>1
    <2>5. \A i \in 1..Len(subscribing) : handler'[subscribing[i]] # "new"
      BY <1>1, <1>2, <2>4 DEF Attaching
    <2> QED BY <1>1, <2>3, <2>5 DEF Attaching, listening
  <1>6. \A d \in Conns : InTransit(d)' /\ B!Last(written'[d]) <= Len(published')
    <2> TAKE d \in Conns
    <2>1. InTransit(d) /\ B!Last(written[d]) <= Len(published)
      BY DEF Inv
    <2> QED BY <1>1, <1>2, <2>1 DEF InTransit, Fits, listening
  <1> QED BY <1>3, <1>4, <1>5, <1>6 DEF Inv

LEMMA SubscribeInv ==
  ASSUME Inv, TypeOK', ~panicked, NEW c \in Conns, Subscribe(c)
  PROVE  Inv'
  <1>1. /\ TypeOK /\ Lifecycle /\ Attaching /\ OnlyOvertakenPanics
        /\ handler[c] = "new"
        /\ handler' = [handler EXCEPT ![c] = "subscribing"]
        /\ subscribing' = Append(subscribing, c)
        /\ UNCHANGED <<publish, unsubscribing, listening, queue, reader, hand, writing, cancelled, written>>
    BY DEF Inv, Subscribe
  <1>2. \A d \in Conns : handler'[d] = IF d = c THEN "subscribing" ELSE handler[d]
    BY <1>1 DEF TypeOK
  <1>3. Lifecycle'
    BY <1>1, <1>2 DEF Lifecycle, listening
  <1>4. OnlyOvertakenPanics'
    <2>1. clients \cap closed = {}
      BY <1>1 DEF OnlyOvertakenPanics
    <2> QED BY <1>1, <2>1 DEF OnlyOvertakenPanics, listening
  <1>5. Attaching'
    <2>1. /\ unsubscribing \in Seq(Conns) /\ Len(subscribing) \in Nat
          /\ subscribing \in Seq(Conns)
      BY <1>1 DEF TypeOK
    <2>2. /\ Len(subscribing') = Len(subscribing) + 1
          /\ subscribing'[Len(subscribing) + 1] = c
          /\ \A i \in 1..Len(subscribing) : /\ subscribing'[i] = subscribing[i]
                                            /\ subscribing[i] \in Conns
      BY <1>1, <2>1
    <2>3. \A i \in 1..Len(subscribing) : subscribing[i] # c
      BY <1>1 DEF Attaching
    <2>4. since[c] = -1 /\ since' = since
      BY <1>1 DEF Lifecycle, listening
    <2>5. \A i \in 1..Len(subscribing') : since'[subscribing'[i]] = -1 /\ handler'[subscribing'[i]] # "new"
      <3> TAKE i \in 1..Len(subscribing')
      <3>1. CASE i = Len(subscribing) + 1
        BY <1>2, <2>2, <2>4, <3>1
      <3>2. CASE i \in 1..Len(subscribing)
        BY <1>1, <1>2, <2>2, <2>4, <3>2 DEF Attaching
      <3> QED BY <2>1, <2>2, <3>1, <3>2
    <2>6. \A i, j \in 1..Len(subscribing') : i # j => subscribing'[i] # subscribing'[j]
      <3> TAKE i, j \in 1..Len(subscribing')
      <3> HAVE i # j
      <3>1. CASE i \in 1..Len(subscribing) /\ j \in 1..Len(subscribing)
        BY <1>1, <2>2, <3>1 DEF Attaching
      <3>2. CASE i = Len(subscribing) + 1 \/ j = Len(subscribing) + 1
        BY <2>1, <2>2, <2>3, <3>2
      <3> QED BY <2>1, <2>2, <3>1, <3>2
    <2>7. \A i \in 1..Len(unsubscribing) : handler'[unsubscribing[i]] \in {"leaving", "gone"}
      <3>1. \A i \in 1..Len(unsubscribing) : unsubscribing[i] \in Conns
        BY <2>1
      <3> QED BY <1>1, <1>2, <3>1 DEF Attaching
    <2> QED BY <1>1, <2>5, <2>6, <2>7 DEF Attaching, listening
  <1>6. \A d \in Conns : InTransit(d)' /\ B!Last(written'[d]) <= Len(published')
    <2> TAKE d \in Conns
    <2>1. InTransit(d) /\ B!Last(written[d]) <= Len(published)
      BY DEF Inv
    <2> QED BY <1>1, <2>1 DEF InTransit, Fits, listening
  <1> QED BY <1>3, <1>4, <1>5, <1>6 DEF Inv

(* The handler moves on, in the way Lifecycle allows. *)
LEMMA HandlerInv ==
  ASSUME Inv, TypeOK', ~panicked, NEW c \in Conns, Open(c) \/ Return(c)
  PROVE  Inv'
  <1>1. /\ TypeOK /\ Lifecycle /\ Attaching /\ OnlyOvertakenPanics
        /\ UNCHANGED <<channels, listening, queue, hand, writing, cancelled, written>>
    BY DEF Inv, Open, Return
  <1>2. \A d \in Conns : d # c => handler'[d] = handler[d]
    BY <1>1 DEF TypeOK, Open, Return
  <1>3. \/ handler[c] = "subscribing" /\ handler'[c] = "open"
        \/ handler[c] = "leaving" /\ handler'[c] = "gone"
    BY <1>1 DEF TypeOK, Open, Return
  <1>4. Lifecycle'
    BY <1>1, <1>2, <1>3 DEF Lifecycle, channels, listening
  <1>5. OnlyOvertakenPanics'
    <2>1. clients \cap closed = {}
      BY <1>1 DEF OnlyOvertakenPanics
    <2> QED BY <1>1, <2>1 DEF OnlyOvertakenPanics, listening
  <1>6. Attaching'
    <2>0. subscribing \in Seq(Conns) /\ unsubscribing \in Seq(Conns)
      BY <1>1 DEF TypeOK
    <2>1. /\ \A i \in 1..Len(subscribing) : subscribing[i] \in Conns
          /\ \A i \in 1..Len(unsubscribing) : unsubscribing[i] \in Conns
      BY <2>0
    <2>2. \A i \in 1..Len(subscribing) : handler'[subscribing[i]] # "new"
      BY <1>1, <1>2, <1>3, <2>1 DEF Attaching
    <2>3. \A i \in 1..Len(unsubscribing) : handler'[unsubscribing[i]] \in {"leaving", "gone"}
      BY <1>1, <1>2, <1>3, <2>1 DEF Attaching
    <2> QED BY <1>1, <2>2, <2>3 DEF Attaching, channels, listening
  <1>7. \A d \in Conns : InTransit(d)' /\ B!Last(written'[d]) <= Len(published')
    <2> TAKE d \in Conns
    <2>1. InTransit(d) /\ B!Last(written[d]) <= Len(published)
      BY DEF Inv
    <2> QED BY <1>1, <2>1 DEF InTransit, Fits, listening
  <1> QED BY <1>4, <1>5, <1>6, <1>7 DEF Inv

(* What Inv does not speak about may change. *)
LEMMA QuietInv ==
  ASSUME Inv, TypeOK',
         UNCHANGED <<subscribing, unsubscribing, listening, queue, hand, writing, handler, written>>
  PROVE  Inv'
  <1>1. Lifecycle' /\ Attaching' /\ OnlyOvertakenPanics'
    BY DEF Inv, Lifecycle, Attaching, OnlyOvertakenPanics, listening
  <1>2. \A d \in Conns : InTransit(d)' /\ B!Last(written'[d]) <= Len(published')
    BY DEF Inv, InTransit, Fits, listening
  <1> QED BY <1>1, <1>2 DEF Inv

LEMMA NextInv == Inv /\ [Next]_vars => Inv'
  <1> SUFFICES ASSUME Inv, [Next]_vars PROVE Inv'
    OBVIOUS
  <1>0. TypeOK /\ TypeOK'
    BY NextTypeOK DEF Inv
  <1>1. ASSUME NEW s \in Senders, SendMessage(s) PROVE Inv'
    BY <1>0, <1>1, QuietInv DEF SendMessage, streams
  <1>2. CASE ~panicked /\ Register
    BY <1>0, <1>2, RegisterInv
  <1>3. CASE ~panicked /\ Detach
    BY <1>0, <1>3, DetachInv
  <1>4. CASE ~panicked /\ Distribute
    <2> DEFINE S == [by : Senders, ctx : Contexts]
    <2>1. publish \in Seq(S) /\ publish # <<>>
      BY <1>0, <1>4 DEF Distribute, TypeOK
    <2>2. Head(publish) \in S
      <3> HIDE DEF S
      <3> QED BY <2>1
    <2>3. Head(publish).ctx \in Events
      BY <2>2 DEF Events
    <2> QED BY <1>0, <1>4, <2>3, NumberInv DEF Distribute
  <1>5. CASE ~panicked /\ Tick
    BY <1>0, <1>5, NumberInv DEF Tick, Events
  <1>6. ASSUME NEW c \in Conns, ~panicked, Subscribe(c) PROVE Inv'
    BY <1>0, <1>6, SubscribeInv
  <1>7. ASSUME NEW c \in Conns, ~panicked, Handler(c) PROVE Inv'
    BY <1>0, <1>7, HandlerInv, PassInv, WriteInv, LeaveInv DEF Handler
  <1>8. ASSUME NEW c \in Conns, ReaderEnds(c) PROVE Inv'
    BY <1>0, <1>8, QuietInv DEF ReaderEnds, channels
  <1>9. ASSUME NEW c \in Conns, ~panicked, Reader(c) PROVE Inv'
    BY <1>0, <1>8, <1>9, TakeInv, GiveUpInv DEF Reader
  <1>10. ASSUME NEW c \in Conns, Cancel(c) PROVE Inv'
    BY <1>0, <1>10, QuietInv DEF Cancel, channels
  <1>11. CASE UNCHANGED vars
    BY <1>0, <1>11, QuietInv DEF vars, channels, streams
  <1> QED BY <1>1, <1>2, <1>3, <1>4, <1>5, <1>6, <1>7, <1>9, <1>10, <1>11 DEF Next, Listen

(* The process panics only on the greeting of a connection that left before  *)
(* it was registered and was never sent anything (listen, sendOrDrop).       *)
THEOREM Panics == Spec => []OnlyOvertakenPanics
  <1>1. Inv => OnlyOvertakenPanics
    BY DEF Inv
  <1> QED BY InitInv, NextInv, <1>1, PTL DEF Spec

----------------------------------------------------------------------------
(* The refinement *)

(* An event given an id is a Publish of Broadcast. *)
LEMMA NumberRefines ==
  ASSUME NEW x \in Events, Number(x)
  PROVE  B!Next
  <1>1. published' = Append(published, x) /\ since' = since /\ written' = written
    BY DEF Number, streams
  <1>2. B!Publish
    BY <1>1 DEF B!Publish
  <1> QED BY <1>2 DEF B!Next

LEMMA NextRefines == Inv /\ [Next]_vars => [B!Next]_(B!vars)
  <1> SUFFICES ASSUME Inv, [Next]_vars PROVE [B!Next]_(B!vars)
    OBVIOUS
  <1>0. TypeOK /\ Lifecycle /\ Attaching
    BY DEF Inv
  <1>1. CASE published' = published /\ since' = since /\ written' = written
    BY <1>1 DEF B!vars
  <1>2. CASE Register
    <2>1. subscribing \in Seq(Conns) /\ subscribing # <<>>
      BY <1>0, <1>2 DEF Register, TypeOK
    <2>2. PICK c \in Conns : c = Head(subscribing) /\ c = subscribing[1] /\ 1 \in 1..Len(subscribing)
      BY <2>1
    <2>3. since[c] = -1
      BY <1>0, <2>2 DEF Attaching
    <2>4. B!Join(c)
      BY <1>2, <2>2, <2>3 DEF B!Join, Register, streams
    <2> QED BY <2>4 DEF B!Next
  <1>3. CASE Distribute
    <2> DEFINE S == [by : Senders, ctx : Contexts]
    <2>1. publish \in Seq(S) /\ publish # <<>>
      BY <1>0, <1>3 DEF Distribute, TypeOK
    <2>2. Head(publish) \in S
      <3> HIDE DEF S
      <3> QED BY <2>1
    <2>3. Head(publish).ctx \in Events
      BY <2>2 DEF Events
    <2> QED BY <1>3, <2>3, NumberRefines DEF Distribute
  <1>4. CASE Tick
    BY <1>4, NumberRefines DEF Tick, Events
  <1>5. ASSUME NEW c \in Conns, Write(c) PROVE B!Next
    <2>1. writing[c] # None /\ written' = [written EXCEPT ![c] = Append(@, writing[c])]
          /\ published' = published /\ since' = since
      BY <1>5 DEF Write, listening
    <2>2. writing[c] \in Nat /\ Len(published) \in Nat
      BY <1>0, <2>1 DEF TypeOK
    <2>3. Fits(c, writing[c]) /\ B!Last(written[c]) < writing[c]
      BY <2>1 DEF Inv, InTransit
    <2>4. writing[c] \in 0..Len(published)
      BY <2>2, <2>3 DEF Fits
    <2>5. B!Receive(c, writing[c])
      BY <2>1, <2>3 DEF B!Receive, Fits
    <2> QED BY <2>4, <2>5 DEF B!Next
  <1>6. ASSUME NEW c \in Conns, Subscribe(c) \/ Open(c) \/ Pass(c) \/ Leave(c) \/ Return(c)
        PROVE published' = published /\ since' = since /\ written' = written
    BY <1>6 DEF Subscribe, Open, Pass, Leave, Return, listening
  <1>7. ASSUME NEW c \in Conns, Reader(c) \/ Cancel(c)
        PROVE published' = published /\ since' = since /\ written' = written
    BY <1>7 DEF Reader, Take, GiveUp, ReaderEnds, Cancel, listening
  <1>8. ASSUME Detach PROVE published' = published /\ since' = since /\ written' = written
    BY <1>8 DEF Detach, streams
  <1>9. ASSUME NEW s \in Senders, SendMessage(s)
        PROVE published' = published /\ since' = since /\ written' = written
    BY <1>9 DEF SendMessage, listening, streams
  <1>10. ASSUME UNCHANGED vars PROVE published' = published /\ since' = since /\ written' = written
    BY <1>10 DEF vars, listening, streams
  <1> QED BY <1>1, <1>2, <1>3, <1>4, <1>5, <1>6, <1>7, <1>8, <1>9, <1>10 DEF Next, Listen, Handler

(* Whatever the number of connections, senders and events and the sizes of   *)
(* the buffers, each connection is written a selection of the events meant   *)
(* for it, in the order of their ids and each once (server/events/sse.go).   *)
THEOREM BrokerImplementsBroadcast == Spec => ImplementsBroadcast
  <1>1. Init => B!Init
    BY DEF Init, B!Init
  <1> QED BY <1>1, InitInv, NextInv, NextRefines, PTL DEF Spec, ImplementsBroadcast, B!Spec
=============================================================================
