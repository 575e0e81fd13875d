----------------------------- MODULE CacheWarmer -----------------------------
(***************************************************************************)
(* core/artwork/cache_warmer.go above the file cache of images: the scanner  *)
(* puts artworks into a buffer, a goroutine takes the whole buffer at a time *)
(* and lets two workers ask the cache for them, while users do so too.       *)
(***************************************************************************)
EXTENDS FileCache

CONSTANTS Workers,      \* goroutines of processBatch
          MaxAsks,      \* bound: calls of PreCache
          MaxGets       \* bound: requests of users

VARIABLES buffer,       \* a.buffer
          wake,         \* wakeSignal holds a signal
          warmer,       \* run: "waiting", "batch" or "gone"
          batch,        \* what no worker has taken yet
          asked,        \* history: what PreCache was called for and no worker has taken since
          used          \* bounds: how many calls

warmerVars == <<buffer, wake, warmer, batch, asked>>
vars == <<cacheVars, warmerVars, used>>

ASSUME WarmerAssumption ==
  Workers \subseteq Callers /\ MaxAsks \in Nat /\ MaxGets \in Nat

Init ==
  /\ CacheInit
  /\ buffer = {} /\ wake = FALSE /\ warmer = "waiting" /\ batch = {} /\ asked = {}
  /\ used = [asks |-> 0, gets |-> 0]

Count(what, max) == used[what] < max /\ used' = [used EXCEPT ![what] = @ + 1]

----------------------------------------------------------------------------
(* Mutant: what comes while a signal is pending is taken to be in the buffer. *)
PreCacheBug(k) ==
  /\ Count("asks", MaxAsks)
  /\ cache # "disabled"
  /\ buffer' = IF wake THEN buffer ELSE buffer \cup {k}
  /\ wake' = TRUE
  /\ asked' = asked \cup {k}
  /\ UNCHANGED <<cacheVars, warmer, batch>>

PreCache(k) ==
  /\ Count("asks", MaxAsks)
  /\ cache # "disabled"
  /\ buffer' = buffer \cup {k}
  /\ wake' = TRUE
  /\ asked' = asked \cup {k}
  /\ UNCHANGED <<cacheVars, warmer, batch>>

(* The signal, or the timer of ten seconds. *)
Woken == wake' = FALSE \/ wake' = wake

(* run gives up where the cache is disabled, goes on waiting where it is not *)
(* there yet or nothing was asked for, and else takes the buffer.           *)
Run ==
  /\ warmer = "waiting"
  /\ Woken
  /\ CASE cache = "disabled" -> /\ buffer' = {} /\ asked' = {} /\ warmer' = "gone"
                                /\ UNCHANGED batch
       [] cache = "ready" /\ buffer # {} -> /\ batch' = buffer /\ buffer' = {} /\ warmer' = "batch"
                                            /\ UNCHANGED asked
       [] OTHER -> UNCHANGED <<buffer, asked, warmer, batch>>
  /\ UNCHANGED <<cacheVars, used>>

(* doCacheImage: the artwork's reader is made and the cache asked. *)
Take(w) ==
  /\ \E k \in batch :
       /\ Lookup(w, k)
       /\ batch' = batch \ {k} /\ asked' = asked \ {k}
  /\ UNCHANGED <<buffer, wake, warmer, used>>

(* The reader cannot be made: the artwork is gone. *)
TakeFails(w) ==
  /\ call[w].pc = "idle" /\ Fault
  /\ \E k \in batch : batch' = batch \ {k} /\ asked' = asked \ {k}
  /\ UNCHANGED <<cache, entry, streams, call, crossed, buffer, wake, warmer, used>>

(* A worker reads to the end of the stream. *)
Warmed(w) ==
  /\ call[w].pc = "reading" /\ streams[call[w].stream].final
  /\ Close(w)
  /\ UNCHANGED <<warmerVars, used>>

BatchEnds ==
  /\ warmer = "batch" /\ batch = {} /\ \A w \in Workers : call[w].pc = "idle"
  /\ warmer' = "waiting"
  /\ UNCHANGED <<cacheVars, buffer, wake, batch, asked, used>>

UserGets(g) ==
  /\ Count("gets", MaxGets)
  /\ \E k \in Keys : Lookup(g, k)
  /\ UNCHANGED warmerVars

UserCloses(g) == Close(g) /\ UNCHANGED <<warmerVars, used>>

(* The steps of the cache that nobody decides on. *)
Made(g) == Opened(g) /\ UNCHANGED <<warmerVars, used>>
Failed(g) == OpenFails(g) /\ UNCHANGED <<warmerVars, used>>

CacheSteps ==
  /\ \/ Initialize \/ Scrub
     \/ \E s \in DOMAIN streams : CopyEnds(s) \/ CopyFails(s) \/ Invalidate(s)
  /\ UNCHANGED <<warmerVars, used>>

ProcessRestarts ==
  /\ Restart
  /\ buffer' = {} /\ wake' = FALSE /\ warmer' = "waiting" /\ batch' = {} /\ asked' = {}
  /\ UNCHANGED used

Step ==
  \/ \E k \in Keys : PreCache(k)
  \/ Run \/ BatchEnds \/ CacheSteps \/ ProcessRestarts
  \/ \E w \in Workers : Take(w) \/ TakeFails(w) \/ Warmed(w)
  \/ \E g \in Callers \ Workers : UserGets(g) \/ UserCloses(g)
  \/ \E g \in Callers : Made(g) \/ Failed(g)

Next == Step

Spec == Init /\ [][Next]_vars

(* The goroutines run, the cache is initialised, and a content that is being *)
(* made is made or fails (doCacheImage gives it ten seconds).               *)
FairSpec ==
  /\ Spec
  /\ WF_vars(Run) /\ WF_vars(BatchEnds)
  /\ WF_vars(Initialize /\ UNCHANGED <<warmerVars, used>>)
  /\ \A w \in Workers : WF_vars(Take(w)) /\ WF_vars(Warmed(w))
  /\ \A g \in Callers : WF_vars(Made(g) \/ Failed(g))
  /\ WF_vars(\E s \in DOMAIN streams : (CopyEnds(s) \/ Invalidate(s)) /\ UNCHANGED <<warmerVars, used>>)

----------------------------------------------------------------------------
TypeOK ==
  /\ CacheTypeOK
  /\ buffer \subseteq Keys /\ batch \subseteq Keys /\ asked \subseteq Keys
  /\ wake \in BOOLEAN /\ warmer \in {"waiting", "batch", "gone"}
  /\ used \in [asks : 0 .. MaxAsks, gets : 0 .. MaxGets]

(* Whatever PreCache is called for is in the end asked of the cache by a     *)
(* worker, however many calls come while a batch is at work, the cache is    *)
(* not there yet, or a signal is pending; or it is given up with the cache.  *)
EventuallyWarmed == \A k \in Keys : (k \in asked) ~> (k \notin asked)
=============================================================================
