------------------------------ MODULE FileCache ------------------------------
(***************************************************************************)
(* utils/cache/file_caches.go: a cache of files, for resized images and      *)
(* transcoded songs. The first to ask for a key makes the content, everybody *)
(* else reads the stream while it is still being written. The library below  *)
(* it (fscache) is modelled by what the code uses of it: a map from keys to  *)
(* streams, which survives a restart as the files on disk.                   *)
(***************************************************************************)
EXTENDS Integers, Sequences, FiniteSets

CONSTANTS Keys,         \* what may be asked for
          Callers,      \* goroutines that call Get
          MaxItems,     \* maxItems: how many files cleaning up leaves
          MaxFaults     \* bound: failures to make a content, and restarts

VARIABLES cache,        \* fc: "starting", "ready" or "disabled"
          entry,        \* the cache's map from keys to streams, 0 for none
          streams,      \* the contents made so far
          call,         \* per goroutine: the Get under way and the stream it reads
          crossed,      \* history: keys of which an invalidation took a newer entry
          faults        \* bound: how many faults

cacheVars == <<cache, entry, streams, call, crossed, faults>>

ASSUME CacheAssumption ==
  MaxItems \in Nat /\ MaxFaults \in Nat

(* content: what has been written. final: the writer is closed. writer: who  *)
(* works on it: the caller that makes the reader, the goroutine that copies, *)
(* one of them on its way to invalidate, nobody any more, or one that died   *)
(* with its process.                                                        *)
Stream == [key : Keys, content : {"empty", "part", "full"}, final : BOOLEAN,
           writer : {"opening", "copying", "failed", "done", "dead"}]

(* A call makes a content, or has got a stream and reads it. *)
Get == [pc : {"idle", "opening", "reading"}, stream : Nat]

Idle == [pc |-> "idle", stream |-> 0]

CacheInit ==
  /\ cache = "starting"
  /\ entry = [k \in Keys |-> 0]
  /\ streams = <<>>
  /\ call = [g \in Callers |-> Idle]
  /\ crossed = {}
  /\ faults = 0

Fault == faults < MaxFaults /\ faults' = faults + 1

----------------------------------------------------------------------------
(* The goroutine of NewFileCache is done: the cache is there, with what the  *)
(* reload found, or disabled, by its size or by an error.                    *)
Initialize ==
  /\ cache = "starting"
  /\ cache' \in {"ready", "disabled"}
  /\ UNCHANGED <<entry, streams, call, crossed, faults>>

Available == cache = "ready"

(* Mutant: an entry is a hit only when it is complete. *)
HitBug(k) == entry[k] # 0 /\ streams[entry[k]].final

Hit(k) == entry[k] # 0

(* Get: a hit, complete or not, or a miss. (While the cache is not there the *)
(* content is made for the caller alone, which changes nothing here.)       *)
Lookup(g, k) ==
  /\ Available /\ call[g].pc = "idle"
  /\ IF Hit(k)
     THEN /\ call' = [call EXCEPT ![g] = [pc |-> "reading", stream |-> entry[k]]]
          /\ UNCHANGED <<entry, streams>>
     ELSE /\ streams' = Append(streams, [key |-> k, content |-> "empty", final |-> FALSE,
                                         writer |-> "opening"])
          /\ entry' = [entry EXCEPT ![k] = Len(streams) + 1]
          /\ call' = [call EXCEPT ![g] = [pc |-> "opening", stream |-> Len(streams) + 1]]
  /\ UNCHANGED <<cache, crossed, faults>>

(* getReader succeeds: a goroutine copies and the caller goes off to read.   *)
Opened(g) ==
  /\ call[g].pc = "opening" /\ streams[call[g].stream].writer = "opening"
  /\ streams' = [streams EXCEPT ![call[g].stream].writer = "copying"]
  /\ call' = [call EXCEPT ![g].pc = "reading"]
  /\ UNCHANGED <<cache, entry, crossed, faults>>

(* getReader fails: reader and writer are closed. *)
OpenFails(g) ==
  /\ call[g].pc = "opening" /\ streams[call[g].stream].writer = "opening"
  /\ Fault
  /\ streams' = [streams EXCEPT ![call[g].stream] = [@ EXCEPT !.final = TRUE, !.writer = "failed"]]
  /\ UNCHANGED <<cache, entry, call, crossed>>

CopyEnds(s) ==
  /\ streams[s].writer = "copying"
  /\ streams' = [streams EXCEPT ![s] = [@ EXCEPT !.content = "full", !.final = TRUE, !.writer = "done"]]
  /\ UNCHANGED <<cache, entry, call, crossed, faults>>

(* Mutant: an error of the copy is not looked at. *)
CopyFailsBug(s) ==
  /\ streams[s].writer = "copying"
  /\ Fault
  /\ \E c \in {"empty", "part"} :
       streams' = [streams EXCEPT ![s] = [@ EXCEPT !.content = c, !.final = TRUE, !.writer = "done"]]
  /\ UNCHANGED <<cache, entry, call, crossed>>

(* The copy breaks off somewhere, the writer is closed all the same. *)
CopyFails(s) ==
  /\ streams[s].writer = "copying"
  /\ Fault
  /\ \E c \in {"empty", "part"} :
       streams' = [streams EXCEPT ![s] = [@ EXCEPT !.content = c, !.final = TRUE, !.writer = "failed"]]
  /\ UNCHANGED <<cache, entry, call, crossed>>

(* invalidate removes the key, whatever stream it has by now. *)
Invalidate(s) ==
  /\ streams[s].writer = "failed"
  /\ LET k == streams[s].key
     IN /\ crossed' = IF entry[k] \notin {0, s} THEN crossed \cup {k} ELSE crossed
        /\ entry' = [entry EXCEPT ![k] = 0]
  /\ streams' = [streams EXCEPT ![s].writer = "done"]
  /\ call' = [g \in Callers |-> IF call[g].pc = "opening" /\ call[g].stream = s THEN Idle ELSE call[g]]
  /\ UNCHANGED <<cache, faults>>

(* Mutant: the stream is kept. *)
CloseBug(g) ==
  /\ call[g].pc = "reading"
  /\ call' = [call EXCEPT ![g].pc = "idle"]
  /\ UNCHANGED <<cache, entry, streams, crossed, faults>>

(* A reader is closed: at the end of a complete stream, or before. *)
Close(g) ==
  /\ call[g].pc = "reading"
  /\ call' = [call EXCEPT ![g] = Idle]
  /\ UNCHANGED <<cache, entry, streams, crossed, faults>>

----------------------------------------------------------------------------
(* fscache: a stream that is written or read. *)
InUse(s) ==
  ~streams[s].final \/ \E g \in Callers : call[g].pc = "reading" /\ call[g].stream = s

(* The haunter takes what is empty, and of the rest as many as are too many: *)
(* the least recently read, so any of them. What is in use is not counted.  *)
Scrub ==
  /\ Available
  /\ LET idle == {k \in Keys : entry[k] # 0 /\ ~InUse(entry[k])}
         empty == {k \in idle : streams[entry[k]].content = "empty"}
         extra == IF Cardinality(idle) > MaxItems THEN Cardinality(idle) - MaxItems ELSE 0
     IN \E old \in SUBSET idle :
          /\ Cardinality(old) = extra /\ empty \cup old # {}
          /\ entry' = [k \in Keys |-> IF k \in empty \cup old THEN 0 ELSE entry[k]]
  /\ UNCHANGED <<cache, streams, call, crossed, faults>>

(* The process ends, with some contents half written. The next one takes the *)
(* files it finds for complete.                                             *)
Restart ==
  /\ Fault
  /\ cache' = "starting"
  /\ call' = [g \in Callers |-> Idle]
  /\ \E begun \in SUBSET {s \in DOMAIN streams : streams[s].writer = "copying"} :
       streams' = [s \in DOMAIN streams |->
         [streams[s] EXCEPT !.content = IF s \in begun THEN "part" ELSE @,
                            !.final = TRUE, !.writer = IF @ = "done" THEN "done" ELSE "dead"]]
  /\ crossed' = {}
  /\ UNCHANGED entry

CacheStep ==
  \/ Initialize \/ Scrub \/ Restart
  \/ \E g \in Callers : Opened(g) \/ OpenFails(g) \/ Close(g) \/ \E k \in Keys : Lookup(g, k)
  \/ \E s \in DOMAIN streams : CopyEnds(s) \/ CopyFails(s) \/ Invalidate(s)

CacheSpec == CacheInit /\ [][CacheStep]_cacheVars

----------------------------------------------------------------------------
CacheTypeOK ==
  /\ cache \in {"starting", "ready", "disabled"}
  /\ streams \in Seq(Stream)
  /\ entry \in [Keys -> 0 .. Len(streams)]
  /\ \A k \in Keys : entry[k] # 0 => streams[entry[k]].key = k
  /\ call \in [Callers -> Get]
  /\ \A g \in Callers : call[g].stream \in 0 .. Len(streams) /\ (call[g].stream = 0 <=> call[g].pc = "idle")
  /\ crossed \subseteq Keys
  /\ faults \in 0 .. MaxFaults

(* An entry that is served as complete (getFinalCachedSize) is the whole     *)
(* content, but for the moment between a failure and its invalidation, and   *)
(* for what a process that ended has left half written on the disk.         *)
FailedNotKept ==
  \A k \in Keys : LET s == entry[k] IN
    s # 0 /\ streams[s].final /\ streams[s].content # "full"
      => streams[s].writer \in {"failed", "dead"}

(* A content is made once at a time: whoever asks while it is being made     *)
(* reads along. Except for a key of which a late invalidation took the entry *)
(* that somebody had made anew after a clean-up.                            *)
SingleFlight ==
  \A s, t \in DOMAIN streams :
    /\ streams[s].writer \in {"opening", "copying"} /\ streams[t].writer \in {"opening", "copying"}
    /\ streams[s].key = streams[t].key /\ streams[s].key \notin crossed
    => s = t
=============================================================================
