------------------------------ MODULE Broadcast ------------------------------
(***************************************************************************)
(* What server/events promises to the pages that keep an event stream      *)
(* open, whatever queues and goroutines are behind it: events are put in    *)
(* one order, and each connection sees a selection of those that concern    *)
(* it and came after it joined, in that order and each at most once.        *)
(* Events may be left out, they are never invented, repeated or reordered.  *)
(* EventBroker is the detailed module, and is shown to implement this one.  *)
(***************************************************************************)
EXTENDS Integers, Sequences

CONSTANTS Conns,            \* the connections
          Kinds,            \* what an event may be
          Concerns(_, _)    \* whether an event concerns a connection

VARIABLES published,        \* the events, in the order of their ids
          since,            \* how many there were when a connection joined, or -1
          received          \* the ids each connection has received, 0 for the greeting

vars == <<published, since, received>>

(* The last id received, -1 before the first. *)
Last(s) == IF s = <<>> THEN -1 ELSE s[Len(s)]

Init == /\ published = <<>>
        /\ since = [c \in Conns |-> -1]
        /\ received = [c \in Conns |-> <<>>]

(* An event gets the next id. *)
Publish == /\ \E k \in Kinds : published' = Append(published, k)
           /\ UNCHANGED <<since, received>>

(* A connection joins, once. *)
Join(c) == /\ since[c] = -1
           /\ since' = [since EXCEPT ![c] = Len(published)]
           /\ UNCHANGED <<published, received>>

(* A connection receives the greeting, id 0, or an event that concerns it   *)
(* and came after it joined, later than all it received so far.             *)
Receive(c, i) == /\ since[c] # -1
                 /\ Last(received[c]) < i
                 /\ i = 0 \/ (since[c] < i /\ Concerns(published[i], c))
                 /\ received' = [received EXCEPT ![c] = Append(@, i)]
                 /\ UNCHANGED <<published, since>>

Next == \/ Publish
        \/ \E c \in Conns : Join(c) \/ \E i \in 0..Len(published) : Receive(c, i)

Spec == Init /\ [][Next]_vars
==============================================================================
