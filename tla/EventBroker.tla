----------------------------- MODULE EventBroker -----------------------------
(***************************************************************************)
(* server/events/sse.go: the goroutine listen, the goroutines that publish, *)
(* and for each open event stream its handler ServeHTTP and the goroutine   *)
(* of pl.ReadOrDone between the handler and its channel.                    *)
(*                                                                         *)
(* A channel of Go is first in, first out, and so are the goroutines that   *)
(* wait to send to it: a channel is modelled by one sequence, its buffer    *)
(* followed by what the waiting goroutines hold. A sender is blocked while  *)
(* its element is beyond the buffer.                                        *)
(***************************************************************************)
EXTENDS Integers, Sequences, FiniteSets

CONSTANTS Conns,            \* the requests for an event stream
          Senders,          \* the goroutines that call SendMessage
          Contexts,         \* the contexts they call it with
          UidOf, UserOf,    \* the client id and the user of a connection
          PublishBuffer,    \* 2, the buffer of publish
          AttachBuffer,     \* 1, the buffers of subscribing and unsubscribing
          ClientBuffer,     \* 1, bufferSize
          MaxEvents,        \* bound: events given an id
          None              \* no client id, no user, no event

ASSUME BuffersAssumption ==
  PublishBuffer \in Nat \ {0} /\ AttachBuffer \in Nat \ {0} /\ ClientBuffer \in Nat \ {0}

ASSUME BoundAssumption == MaxEvents \in Nat

ASSUME NoneAssumption == None \notin Nat

VARIABLES publish,          \* the channel of events: who sent them, in what context
          subscribing,      \* the channel of connections to register
          unsubscribing,    \* the channel of connections to forget
          clients,          \* the map of listen
          closed,           \* the connections whose channel was closed
          queue,            \* each connection's channel msgC: ids
          reader,           \* the goroutine of ReadOrDone
          hand,             \* the id it has taken and not passed on, or None
          writing,          \* the id the handler is writing, or None
          handler,          \* where ServeHTTP is
          cancelled,        \* the connections whose request context is done
          panicked,         \* a send on a closed channel has ended the process
          published,        \* history: the contexts of the events, by id
          since,            \* history: the last id before a connection was registered, or -1
          written           \* history: the ids written to each connection

channels == <<publish, subscribing, unsubscribing>>
listening == <<clients, closed, panicked, published, since>>
streams == <<reader, hand, writing, handler, cancelled, written>>
vars == <<channels, listening, queue, streams>>

(* The ticker's message goes to everyone, as a broadcast does. *)
KeepAlive == [all |-> TRUE, uid |-> None, user |-> None]
Events == Contexts \cup {KeepAlive}

Elements(s) == {s[i] : i \in 1..Len(s)}

(* shouldSend: not to the page that caused it, nor to another user's. *)
ShouldSend(x, c) ==
  \/ x.all
  \/ x.uid = None
  \/ /\ x.uid # UidOf[c]
     /\ x.user \in {None, UserOf[c]}

Init ==
  /\ publish = <<>> /\ subscribing = <<>> /\ unsubscribing = <<>>
  /\ clients = {} /\ closed = {} /\ panicked = FALSE
  /\ queue = [c \in Conns |-> <<>>]
  /\ reader = [c \in Conns |-> "none"]
  /\ hand = [c \in Conns |-> None]
  /\ writing = [c \in Conns |-> None]
  /\ handler = [c \in Conns |-> "new"]
  /\ cancelled = {}
  /\ published = <<>>
  /\ since = [c \in Conns |-> -1]
  /\ written = [c \in Conns |-> <<>>]

----------------------------------------------------------------------------
(* Publishing *)

(* A goroutine waits in SendMessage while its event is beyond the buffer. *)
Blocked(s) == \E i \in 1..Len(publish) : i > PublishBuffer /\ publish[i].by = s

SendMessage(s) ==
  /\ ~Blocked(s)
  /\ Len(publish) + Len(published) < MaxEvents
  /\ \E x \in Contexts : publish' = Append(publish, [by |-> s, ctx |-> x])
  /\ UNCHANGED <<subscribing, unsubscribing, listening, queue, streams>>

----------------------------------------------------------------------------
(* The goroutine listen: one action per case of its select *)

(* Mutant: the channel of a slow client grows. *)
SendOrDropBug(cs, id) ==
  /\ panicked' = (cs \cap closed # {})
  /\ queue' = [c \in Conns |-> IF c \in cs \ closed THEN Append(queue[c], id) ELSE queue[c]]

(* sendOrDrop to the connections in cs: a full channel drops the event, a   *)
(* closed one panics and ends the process.                                  *)
SendOrDrop(cs, id) ==
  /\ panicked' = (cs \cap closed # {})
  /\ queue' = [c \in Conns |-> IF c \in cs \ closed /\ Len(queue[c]) < ClientBuffer
                                THEN Append(queue[c], id) ELSE queue[c]]

Register ==
  /\ subscribing # <<>>
  /\ LET c == Head(subscribing) IN
       /\ clients' = clients \cup {c}
       /\ since' = [since EXCEPT ![c] = Len(published)]
       /\ SendOrDrop({c}, 0)
  /\ subscribing' = Tail(subscribing)
  /\ UNCHANGED <<publish, unsubscribing, closed, published, streams>>

(* Mutant: the connection stays in the map. *)
DetachBug ==
  /\ unsubscribing # <<>>
  /\ closed' = closed \cup {Head(unsubscribing)}
  /\ unsubscribing' = Tail(unsubscribing)
  /\ UNCHANGED <<publish, subscribing, clients, panicked, published, since, queue, streams>>

Detach ==
  /\ unsubscribing # <<>>
  /\ closed' = closed \cup {Head(unsubscribing)}
  /\ clients' = clients \ {Head(unsubscribing)}
  /\ unsubscribing' = Tail(unsubscribing)
  /\ UNCHANGED <<publish, subscribing, panicked, published, since, queue, streams>>

(* Mutant: the page that caused the event is told too. *)
NumberBug(x) ==
  /\ published' = Append(published, x)
  /\ SendOrDrop(clients, Len(published) + 1)
  /\ UNCHANGED <<subscribing, unsubscribing, clients, closed, since, streams>>

(* The next id goes to event x, and x to those of the clients it is for. *)
Number(x) ==
  /\ published' = Append(published, x)
  /\ SendOrDrop({c \in clients : ShouldSend(x, c)}, Len(published) + 1)
  /\ UNCHANGED <<subscribing, unsubscribing, clients, closed, since, streams>>

(* Mutant: events wait for a client, as the ticker's do. *)
DistributeBug ==
  /\ publish # <<>> /\ clients # {}
  /\ publish' = Tail(publish)
  /\ Number(Head(publish).ctx)

Distribute ==
  /\ publish # <<>>
  /\ publish' = Tail(publish)
  /\ Number(Head(publish).ctx)

Tick ==
  /\ clients # {}
  /\ Len(publish) + Len(published) < MaxEvents
  /\ Number(KeepAlive)
  /\ UNCHANGED publish

----------------------------------------------------------------------------
(* A connection *)

Subscribe(c) ==
  /\ handler[c] = "new"
  /\ handler' = [handler EXCEPT ![c] = "subscribing"]
  /\ subscribing' = Append(subscribing, c)
  /\ UNCHANGED <<publish, unsubscribing, listening, queue, reader, hand, writing, cancelled, written>>

(* subscribe returns once the connection is in the buffer or was taken out  *)
(* of it; ReadOrDone starts its goroutine.                                  *)
Open(c) ==
  /\ handler[c] = "subscribing"
  /\ \A i \in 1..Len(subscribing) : subscribing[i] = c => i <= AttachBuffer
  /\ handler' = [handler EXCEPT ![c] = "open"]
  /\ reader' = [reader EXCEPT ![c] = "running"]
  /\ UNCHANGED <<channels, listening, queue, hand, writing, cancelled, written>>

(* The client goes away; the server does the same when ServeHTTP returns. *)
Cancel(c) ==
  /\ handler[c] # "new" /\ c \notin cancelled
  /\ cancelled' = cancelled \cup {c}
  /\ UNCHANGED <<channels, listening, queue, reader, hand, writing, handler, written>>

(* ReadOrDone takes an event, also when the context is done: select picks   *)
(* either case.                                                             *)
Take(c) ==
  /\ reader[c] = "running" /\ hand[c] = None /\ queue[c] # <<>>
  /\ hand' = [hand EXCEPT ![c] = Head(queue[c])]
  /\ queue' = [queue EXCEPT ![c] = Tail(@)]
  /\ UNCHANGED <<channels, listening, reader, writing, handler, cancelled, written>>

(* The handler receives it from the unbuffered channel in between. *)
Pass(c) ==
  /\ handler[c] = "open" /\ hand[c] # None /\ writing[c] = None
  /\ writing' = [writing EXCEPT ![c] = hand[c]]
  /\ hand' = [hand EXCEPT ![c] = None]
  /\ UNCHANGED <<channels, listening, queue, reader, handler, cancelled, written>>

(* Mutant: what the handler does not take at once is given up. *)
GiveUpBug(c) ==
  /\ hand[c] # None
  /\ hand' = [hand EXCEPT ![c] = None]
  /\ UNCHANGED <<channels, listening, queue, reader, writing, handler, cancelled, written>>

(* ReadOrDone gives up what it holds. *)
GiveUp(c) ==
  /\ hand[c] # None /\ c \in cancelled
  /\ hand' = [hand EXCEPT ![c] = None]
  /\ UNCHANGED <<channels, listening, queue, reader, writing, handler, cancelled, written>>

ReaderEnds(c) ==
  /\ reader[c] = "running" /\ hand[c] = None
  /\ c \in cancelled \/ (c \in closed /\ queue[c] = <<>>)
  /\ reader' = [reader EXCEPT ![c] = "ended"]
  /\ UNCHANGED <<channels, listening, queue, hand, writing, handler, cancelled, written>>

Write(c) ==
  /\ writing[c] # None
  /\ written' = [written EXCEPT ![c] = Append(@, writing[c])]
  /\ writing' = [writing EXCEPT ![c] = None]
  /\ UNCHANGED <<channels, listening, queue, reader, hand, handler, cancelled>>

(* Mutant: after a failed write the connection is not unsubscribed. *)
LeaveBug(c) ==
  /\ handler[c] = "open"
  /\ writing[c] # None \/ reader[c] = "ended"
  /\ handler' = [handler EXCEPT ![c] = IF writing[c] # None THEN "gone" ELSE "leaving"]
  /\ unsubscribing' = IF writing[c] # None THEN unsubscribing ELSE Append(unsubscribing, c)
  /\ writing' = [writing EXCEPT ![c] = None]
  /\ UNCHANGED <<publish, subscribing, listening, queue, reader, hand, cancelled, written>>

(* unsubscribe, deferred: after a failed write or when the events end. *)
Leave(c) ==
  /\ handler[c] = "open"
  /\ writing[c] # None \/ reader[c] = "ended"
  /\ writing' = [writing EXCEPT ![c] = None]
  /\ handler' = [handler EXCEPT ![c] = "leaving"]
  /\ unsubscribing' = Append(unsubscribing, c)
  /\ UNCHANGED <<publish, subscribing, listening, queue, reader, hand, cancelled, written>>

Return(c) ==
  /\ handler[c] = "leaving"
  /\ \A i \in 1..Len(unsubscribing) : unsubscribing[i] = c => i <= AttachBuffer
  /\ handler' = [handler EXCEPT ![c] = "gone"]
  /\ UNCHANGED <<channels, listening, queue, reader, hand, writing, cancelled, written>>

----------------------------------------------------------------------------

Listen == Register \/ Detach \/ Distribute \/ Tick

Handler(c) == Open(c) \/ Pass(c) \/ Write(c) \/ Leave(c) \/ Return(c)

Reader(c) == Take(c) \/ GiveUp(c) \/ ReaderEnds(c)

Next ==
  /\ ~panicked
  /\ \/ \E s \in Senders : SendMessage(s)
     \/ Listen
     \/ \E c \in Conns : Subscribe(c) \/ Handler(c) \/ Reader(c) \/ Cancel(c)

Spec == Init /\ [][Next]_vars

(* A goroutine that can run does run. listen's select picks at random among  *)
(* the cases that are ready, and a ready case stays so until it is picked.   *)
(* A write ends within its deadline, in success or not.                      *)
FairSpec ==
  /\ Spec
  /\ WF_vars(~panicked /\ Register)
  /\ WF_vars(~panicked /\ Detach)
  /\ WF_vars(~panicked /\ Distribute)
  /\ \A c \in Conns : /\ WF_vars(~panicked /\ Handler(c))
                       /\ WF_vars(~panicked /\ Reader(c))

----------------------------------------------------------------------------
(* Properties *)

(* Every variable keeps its type: channels, goroutines and the map of       *)
(* server/events/sse.go.                                                    *)
TypeOK ==
  /\ publish \in Seq([by : Senders, ctx : Contexts])
  /\ subscribing \in Seq(Conns) /\ unsubscribing \in Seq(Conns)
  /\ clients \subseteq Conns /\ closed \subseteq Conns /\ cancelled \subseteq Conns
  /\ panicked \in BOOLEAN
  /\ queue \in [Conns -> Seq(Nat)]
  /\ \A c \in Conns : Len(queue[c]) <= ClientBuffer
  /\ reader \in [Conns -> {"none", "running", "ended"}]
  /\ hand \in [Conns -> Nat \cup {None}]
  /\ writing \in [Conns -> Nat \cup {None}]
  /\ handler \in [Conns -> {"new", "subscribing", "open", "leaving", "gone"}]
  /\ published \in Seq(Events)
  /\ since \in [Conns -> Int]
  /\ written \in [Conns -> Seq(Nat)]

B == INSTANCE Broadcast
       WITH Kinds <- Events, Concerns <- ShouldSend, received <- written

(* Through the channels, the goroutine of ReadOrDone and the handler, each  *)
(* connection is written the greeting and events meant for it, in the  *)
(* order of their ids, none twice and none from before it was registered    *)
(* (listen, sendOrDrop, ServeHTTP).                                         *)
ImplementsBroadcast == B!Spec

(* The only send on a closed channel is the greeting of a connection that   *)
(* left before listen had registered it: unsubscribing was picked before    *)
(* subscribing. A connection that was ever sent something is never sent     *)
(* anything after its channel was closed (listen, the first two cases).     *)
OnlyOvertakenPanics ==
  /\ panicked <=> clients \cap closed # {}
  /\ \A c \in clients \cap closed :
       /\ handler[c] \in {"leaving", "gone"}
       /\ queue[c] = <<>> /\ hand[c] = None /\ writing[c] = None /\ written[c] = <<>>

(* SendMessage is called from scans, requests and services: it never waits  *)
(* for good, however slow the clients are (sendOrDrop never blocks).        *)
SendersReturn == \A s \in Senders : Blocked(s) ~> panicked \/ ~Blocked(s)

(* An event that listen has put on a client's channel is written to the     *)
(* client, unless the connection ends first (ReadOrDone, ServeHTTP).        *)
QueuedIsWritten ==
  \A c \in Conns, i \in 0..MaxEvents :
    i \in Elements(queue[c]) ~>
      \/ i \in Elements(written[c])
      \/ c \in cancelled \/ handler[c] \in {"leaving", "gone"} \/ panicked

(* A connection whose request has returned leaves the map, which does not   *)
(* keep growing (unsubscribe, listen).                                      *)
Forgotten ==
  \A c \in Conns : handler[c] = "gone" /\ c \in clients ~> panicked \/ c \notin clients
=============================================================================
