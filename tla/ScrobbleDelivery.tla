--------------------------- MODULE ScrobbleDelivery ---------------------------
(***************************************************************************)
(* What the scrobble buffer promises for one external service, without     *)
(* workers, timers, failures or restarts: every scrobble that was accepted *)
(* stays pending until the service's scrobbler has answered for it or the  *)
(* row goes away with its track, and the scrobbles of one user are         *)
(* answered for in the order in which they were played.                    *)
(*                                                                         *)
(* A scrobble is named by its position in "accepted".  Nothing is said of  *)
(* how often it is sent: delivery is at least once.                        *)
(***************************************************************************)
EXTENDS Naturals, Sequences

CONSTANTS Users, Tracks, PlayTimes

VARIABLES
  accepted,  \* every scrobble accepted so far, in order of acceptance
  pending,   \* those that are still kept
  answered   \* those the scrobbler has answered for

Scrobble == [user: Users, track: Tracks, time: PlayTimes]

\* i has to be answered for before j.
Earlier(i, j) ==
  /\ i < j
  /\ accepted[i].user = accepted[j].user
  /\ accepted[i].time <= accepted[j].time

Init ==
  /\ accepted = <<>>
  /\ pending = {}
  /\ answered = {}

Accept(s) ==
  /\ accepted' = Append(accepted, s)
  /\ pending' = pending \cup {Len(accepted) + 1}
  /\ UNCHANGED answered

\* Also of a scrobble that is no longer kept: a call made twice.
Answer(j) ==
  /\ \A i \in pending : ~Earlier(i, j)
  /\ answered' = answered \cup {j}
  /\ UNCHANGED <<accepted, pending>>

Forget(j) ==
  /\ j \in pending \cap answered
  /\ pending' = pending \ {j}
  /\ UNCHANGED <<accepted, answered>>

TrackGone(t) ==
  /\ pending' = {i \in pending : accepted[i].track # t}
  /\ UNCHANGED <<accepted, answered>>

Next ==
  \/ \E s \in Scrobble : Accept(s)
  \/ \E j \in DOMAIN accepted : Answer(j) \/ Forget(j)
  \/ \E t \in Tracks : TrackGone(t)

Spec == Init /\ [][Next]_<<accepted, pending, answered>>
===============================================================================
