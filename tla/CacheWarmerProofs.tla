-------------------------- MODULE CacheWarmerProofs --------------------------
(***************************************************************************)
(* Proofs about CacheWarmer and the FileCache below it: their types, that a  *)
(* failed content is not kept as a complete one, and that a content is made  *)
(* once at a time, for any numbers of keys, callers and faults.              *)
(***************************************************************************)
EXTENDS CacheWarmer, TLAPS

Active(s) == streams[s].writer \in {"opening", "copying"}

(* The writer is closed as soon as nobody writes. *)
Closed == \A s \in DOMAIN streams : streams[s].final <=> ~Active(s)

(* What is left of a content that broke off is not in the cache. *)
NoRemains ==
  \A s \in DOMAIN streams :
    streams[s].writer = "done" /\ streams[s].content # "full" => \A k \in Keys : entry[k] # s

(* A content that is being made is the one the cache has for its key. *)
Entered ==
  \A s \in DOMAIN streams :
    Active(s) /\ streams[s].key \notin crossed => entry[streams[s].key] = s

IInv == TypeOK /\ Closed /\ NoRemains /\ Entered

(* What a step of the whole does to the cache: one of its own steps, or a    *)
(* fault that only counts.                                                  *)
CacheMove ==
  \/ CacheStep
  \/ Fault /\ UNCHANGED <<cache, entry, streams, call, crossed>>
  \/ UNCHANGED cacheVars

LEMMA NextMovesCache == TypeOK /\ [Next]_vars => CacheMove
  <1> SUFFICES ASSUME TypeOK, [Next]_vars PROVE CacheMove
    OBVIOUS
  <1>1. ASSUME NEW k \in Keys, PreCache(k) PROVE CacheMove
    BY <1>1 DEF PreCache, CacheMove
  <1>2. CASE Run \/ BatchEnds
    BY <1>2 DEF Run, BatchEnds, CacheMove
  <1>3. CASE CacheSteps
    BY <1>3 DEF CacheSteps, CacheMove, CacheStep
  <1>4. CASE ProcessRestarts
    BY <1>4 DEF ProcessRestarts, CacheMove, CacheStep
  <1>5. ASSUME NEW w \in Workers, Take(w) \/ TakeFails(w) \/ Warmed(w) PROVE CacheMove
    <2>1. w \in Callers
      BY WarmerAssumption
    <2>2. CASE Take(w)
      <3>1. PICK k \in batch : Lookup(w, k)
        BY <2>2 DEF Take
      <3>2. k \in Keys
        BY DEF TypeOK
      <3> QED BY <2>1, <3>1, <3>2 DEF CacheMove, CacheStep
    <2>3. CASE TakeFails(w)
      BY <2>3 DEF TakeFails, CacheMove
    <2>4. CASE Warmed(w)
      BY <2>1, <2>4 DEF Warmed, CacheMove, CacheStep
    <2> QED BY <1>5, <2>2, <2>3, <2>4
  <1>6. ASSUME NEW g \in Callers \ Workers, UserGets(g) \/ UserCloses(g) PROVE CacheMove
    <2>1. g \in Callers
      OBVIOUS
    <2>2. CASE UserGets(g)
      BY <2>1, <2>2 DEF UserGets, CacheMove, CacheStep
    <2>3. CASE UserCloses(g)
      BY <2>1, <2>3 DEF UserCloses, CacheMove, CacheStep
    <2> QED BY <1>6, <2>2, <2>3
  <1>7. ASSUME NEW g \in Callers, Made(g) \/ Failed(g) PROVE CacheMove
    <2>1. CASE Made(g)
      BY <2>1 DEF Made, CacheMove, CacheStep
    <2>2. CASE Failed(g)
      BY <2>2 DEF Failed, CacheMove, CacheStep
    <2> QED BY <1>7, <2>1, <2>2
  <1>8. CASE UNCHANGED vars
    BY <1>8 DEF vars, CacheMove
  <1> QED BY <1>1, <1>2, <1>3, <1>4, <1>5, <1>6, <1>7, <1>8 DEF Next, Step

----------------------------------------------------------------------------
(* Replacing one element of a sequence. *)
LEMMA Replaced ==
  ASSUME NEW S, NEW q \in Seq(S), NEW i \in DOMAIN q, NEW x \in S
  PROVE  LET r == [q EXCEPT ![i] = x]
         IN /\ r \in Seq(S) /\ Len(r) = Len(q) /\ DOMAIN r = DOMAIN q
            /\ r[i] = x /\ \A j \in DOMAIN q : j # i => r[j] = q[j]
  OBVIOUS

(* Adding one element to a sequence. *)
LEMMA Added ==
  ASSUME NEW S, NEW q \in Seq(S), NEW x \in S
  PROVE  LET r == Append(q, x)
         IN /\ r \in Seq(S) /\ Len(r) = Len(q) + 1
            /\ DOMAIN r = DOMAIN q \cup {Len(q) + 1} /\ Len(q) + 1 \notin DOMAIN q
            /\ r[Len(q) + 1] = x /\ \A j \in DOMAIN q : r[j] = q[j]
  OBVIOUS

(* The part of the invariant that is about the cache. *)
CacheInv == CacheTypeOK /\ Closed /\ NoRemains /\ Entered

LEMMA FaultType ==
  ASSUME CacheTypeOK, Fault PROVE faults' \in 0 .. MaxFaults
  BY CacheAssumption DEF CacheTypeOK, Fault

(* A step that changes one stream, and the entries and keys of none. *)
LEMMA OneStream ==
  ASSUME CacheInv, NEW s \in DOMAIN streams, NEW x \in Stream,
         streams' = [streams EXCEPT ![s] = x],
         x.key = streams[s].key,
         x.final <=> x.writer \notin {"opening", "copying"},
         x.writer \in {"opening", "copying"} => Active(s),
         x.writer = "done" => x.content = "full",
         UNCHANGED <<cache, entry, crossed>>, faults' \in 0 .. MaxFaults,
         call' \in [Callers -> Get],
         \A g \in Callers : /\ call'[g].stream \in 0 .. Len(streams)
                            /\ call'[g].stream = 0 <=> call'[g].pc = "idle"
  PROVE  CacheInv'
  <1>1. /\ streams' \in Seq(Stream) /\ Len(streams') = Len(streams)
        /\ DOMAIN streams' = DOMAIN streams
        /\ streams'[s] = x /\ \A t \in DOMAIN streams : t # s => streams'[t] = streams[t]
    BY Replaced, streams \in Seq(Stream) DEF CacheInv, CacheTypeOK
  <1>2. \A t \in DOMAIN streams : streams'[t].key = streams[t].key
    BY <1>1
  <1>3. CacheTypeOK'
    <2>1. \A k \in Keys : entry[k] # 0 => entry[k] \in DOMAIN streams
      BY DEF CacheInv, CacheTypeOK
    <2>2. \A k \in Keys : entry'[k] # 0 => streams'[entry'[k]].key = k
      BY <1>2, <2>1 DEF CacheInv, CacheTypeOK
    <2> QED BY <1>1, <2>2 DEF CacheInv, CacheTypeOK
  <1>4. Closed'
    BY <1>1 DEF CacheInv, Closed, Active
  <1>5. NoRemains'
    BY <1>1 DEF CacheInv, NoRemains
  <1>6. Entered'
    BY <1>1, <1>2 DEF CacheInv, Entered, Active
  <1> QED BY <1>3, <1>4, <1>5, <1>6 DEF CacheInv

LEMMA StreamFields ==
  ASSUME CacheInv, NEW s \in DOMAIN streams
  PROVE  /\ streams[s] \in Stream /\ streams[s].key \in Keys
         /\ streams[s].content \in {"empty", "part", "full"} /\ streams[s].final \in BOOLEAN
         /\ streams[s].writer \in {"opening", "copying", "failed", "done", "dead"}
  <1>1. streams[s] \in Stream
    BY DEF CacheInv, CacheTypeOK
  <1> QED BY <1>1 DEF Stream

LEMMA CallFields ==
  ASSUME CacheInv, NEW g \in Callers
  PROVE  /\ call[g] \in Get /\ call[g].pc \in {"idle", "opening", "reading"}
         /\ call[g].stream \in 0 .. Len(streams) /\ (call[g].stream = 0 <=> call[g].pc = "idle")
         /\ call[g].pc # "idle" => call[g].stream \in DOMAIN streams
         /\ call \in [Callers -> Get]
  <1>1. /\ call \in [Callers -> Get] /\ streams \in Seq(Stream)
        /\ call[g].stream \in 0 .. Len(streams) /\ (call[g].stream = 0 <=> call[g].pc = "idle")
    BY DEF CacheInv, CacheTypeOK
  <1>2. call[g] \in Get
    BY <1>1
  <1>3. call[g].pc \in {"idle", "opening", "reading"}
    BY <1>2 DEF Get
  <1>4. DOMAIN streams = 1 .. Len(streams) /\ Len(streams) \in Nat
    BY <1>1
  <1> QED BY <1>1, <1>2, <1>3, <1>4

LEMMA OpenedInv == ASSUME CacheInv, NEW g \in Callers, Opened(g) PROVE CacheInv'
  <1> DEFINE s == call[g].stream
             x == [streams[s] EXCEPT !.writer = "copying"]
  <1>1. s \in DOMAIN streams /\ call[g].pc = "opening" /\ streams[s].writer = "opening"
    BY CallFields DEF Opened
  <1>2. streams' = [streams EXCEPT ![s] = x]
    BY DEF Opened
  <1>3. x \in Stream /\ x.key = streams[s].key /\ x.final = streams[s].final /\ x.writer = "copying"
    BY <1>1, StreamFields DEF Stream
  <1>4. Active(s) /\ ~streams[s].final
    BY <1>1 DEF Active, CacheInv, Closed
  <1>5. call' = [call EXCEPT ![g] = [call[g] EXCEPT !.pc = "reading"]]
    BY DEF Opened
  <1>6. [call[g] EXCEPT !.pc = "reading"] \in Get /\ [call[g] EXCEPT !.pc = "reading"].stream = s
        /\ [call[g] EXCEPT !.pc = "reading"].pc = "reading"
    BY CallFields DEF Get
  <1>7. call' \in [Callers -> Get]
    BY <1>5, <1>6, CallFields
  <1>8. \A h \in Callers : /\ call'[h].stream \in 0 .. Len(streams)
                           /\ call'[h].stream = 0 <=> call'[h].pc = "idle"
    <2> TAKE h \in Callers
    <2>1. CASE h = g
      <3>1. call'[h].stream = s /\ call'[h].pc = "reading"
        BY <1>5, <1>6, <2>1, CallFields
      <3> QED BY <1>1, <3>1, CallFields
    <2>2. CASE h # g
      BY <1>5, <2>2, CallFields
    <2> QED BY <2>1, <2>2
  <1>9. UNCHANGED <<cache, entry, crossed>> /\ faults' \in 0 .. MaxFaults
    BY DEF Opened, CacheInv, CacheTypeOK
  <1> HIDE DEF x, s
  <1> QED BY <1>1, <1>2, <1>3, <1>4, <1>7, <1>8, <1>9, OneStream

LEMMA CallsKept ==
  ASSUME CacheInv, UNCHANGED call
  PROVE  /\ call' \in [Callers -> Get]
         /\ \A g \in Callers : /\ call'[g].stream \in 0 .. Len(streams)
                               /\ call'[g].stream = 0 <=> call'[g].pc = "idle"
  BY CallFields DEF CacheInv, CacheTypeOK

LEMMA OpenFailsInv == ASSUME CacheInv, NEW g \in Callers, OpenFails(g) PROVE CacheInv'
  <1> DEFINE s == call[g].stream
             x == [streams[s] EXCEPT !.final = TRUE, !.writer = "failed"]
  <1>1. s \in DOMAIN streams
    BY CallFields DEF OpenFails
  <1>2. streams' = [streams EXCEPT ![s] = x]
    BY DEF OpenFails
  <1>3. x \in Stream /\ x.key = streams[s].key /\ x.final = TRUE /\ x.writer = "failed"
    BY <1>1, StreamFields DEF Stream
  <1>4. UNCHANGED <<cache, entry, crossed, call>> /\ faults' \in 0 .. MaxFaults
    BY FaultType DEF OpenFails, CacheInv
  <1> HIDE DEF x, s
  <1> QED BY <1>1, <1>2, <1>3, <1>4, CallsKept, OneStream

LEMMA CopyEndsInv == ASSUME CacheInv, NEW s \in DOMAIN streams, CopyEnds(s) PROVE CacheInv'
  <1> DEFINE x == [streams[s] EXCEPT !.content = "full", !.final = TRUE, !.writer = "done"]
  <1>1. streams' = [streams EXCEPT ![s] = x]
    BY DEF CopyEnds
  <1>2. x \in Stream /\ x.key = streams[s].key /\ x.final = TRUE /\ x.writer = "done"
        /\ x.content = "full"
    BY StreamFields DEF Stream
  <1>3. UNCHANGED <<cache, entry, crossed, call>> /\ faults' \in 0 .. MaxFaults
    BY DEF CopyEnds, CacheInv, CacheTypeOK
  <1> HIDE DEF x
  <1> QED BY <1>1, <1>2, <1>3, CallsKept, OneStream

LEMMA CopyFailsInv == ASSUME CacheInv, NEW s \in DOMAIN streams, CopyFails(s) PROVE CacheInv'
  <1>0. PICK c \in {"empty", "part"} :
          streams' = [streams EXCEPT ![s] = [@ EXCEPT !.content = c, !.final = TRUE, !.writer = "failed"]]
    BY DEF CopyFails
  <1> DEFINE x == [streams[s] EXCEPT !.content = c, !.final = TRUE, !.writer = "failed"]
  <1>1. streams' = [streams EXCEPT ![s] = x]
    BY <1>0
  <1>2. x \in Stream /\ x.key = streams[s].key /\ x.final = TRUE /\ x.writer = "failed"
    BY StreamFields DEF Stream
  <1>3. UNCHANGED <<cache, entry, crossed, call>> /\ faults' \in 0 .. MaxFaults
    BY FaultType DEF CopyFails, CacheInv
  <1> HIDE DEF x
  <1> QED BY <1>1, <1>2, <1>3, CallsKept, OneStream

(* Nothing but the calls and the state of the cache changes. *)
LEMMA CallsOnly ==
  ASSUME CacheInv, UNCHANGED <<entry, streams, crossed, faults>>,
         cache' \in {"starting", "ready", "disabled"}, call' \in [Callers -> Get],
         \A g \in Callers : /\ call'[g].stream \in 0 .. Len(streams)
                            /\ call'[g].stream = 0 <=> call'[g].pc = "idle"
  PROVE  CacheInv'
  <1>1. CacheTypeOK'
    BY DEF CacheInv, CacheTypeOK
  <1>2. Closed' /\ NoRemains' /\ Entered'
    BY DEF CacheInv, Closed, NoRemains, Entered, Active
  <1> QED BY <1>1, <1>2 DEF CacheInv

LEMMA IdleCall == Idle \in Get /\ Idle.stream = 0 /\ Idle.pc = "idle"
  BY DEF Idle, Get

LEMMA InitializeInv == ASSUME CacheInv, Initialize PROVE CacheInv'
  BY CallsOnly, CallsKept DEF Initialize

LEMMA CloseInv == ASSUME CacheInv, NEW g \in Callers, Close(g) PROVE CacheInv'
  <1>1. call' = [call EXCEPT ![g] = Idle]
    BY DEF Close
  <1>2. call' \in [Callers -> Get]
    BY <1>1, IdleCall, CallFields
  <1>3. \A h \in Callers : /\ call'[h].stream \in 0 .. Len(streams)
                           /\ call'[h].stream = 0 <=> call'[h].pc = "idle"
    <2> TAKE h \in Callers
    <2>1. CASE h = g
      <3>1. call'[h] = Idle /\ Len(streams) \in Nat
        BY <1>1, <2>1, CallFields DEF CacheInv, CacheTypeOK
      <3> QED BY <3>1, IdleCall
    <2>2. CASE h # g
      BY <1>1, <2>2, CallFields
    <2> QED BY <2>1, <2>2
  <1>4. UNCHANGED <<entry, streams, crossed, faults>> /\ cache' \in {"starting", "ready", "disabled"}
    BY DEF Close, CacheInv, CacheTypeOK
  <1> QED BY <1>2, <1>3, <1>4, CallsOnly

LEMMA LookupInv ==
  ASSUME CacheInv, NEW g \in Callers, NEW k \in Keys, Lookup(g, k) PROVE CacheInv'
  <1>1. streams \in Seq(Stream) /\ Len(streams) \in Nat /\ entry \in [Keys -> 0 .. Len(streams)]
        /\ DOMAIN streams = 1 .. Len(streams)
    BY DEF CacheInv, CacheTypeOK
  <1>2. UNCHANGED <<cache, crossed, faults>>
    BY DEF Lookup
  <1>3. CASE Hit(k)
    <2> DEFINE c == [pc |-> "reading", stream |-> entry[k]]
    <2>1. call' = [call EXCEPT ![g] = c] /\ UNCHANGED <<entry, streams>>
      BY <1>3 DEF Lookup
    <2>2. c \in Get /\ c.stream \in 1 .. Len(streams) /\ c.stream # 0 /\ c.pc = "reading"
      BY <1>1, <1>3 DEF Hit, Get
    <2> HIDE DEF c
    <2>3. call' \in [Callers -> Get]
      BY <2>1, <2>2, CallFields
    <2>4. \A h \in Callers : /\ call'[h].stream \in 0 .. Len(streams)
                             /\ call'[h].stream = 0 <=> call'[h].pc = "idle"
      <3> TAKE h \in Callers
      <3>1. CASE h = g
        <4>1. call'[h] = c
          BY <2>1, <3>1, CallFields
        <4> QED BY <1>1, <2>2, <4>1
      <3>2. CASE h # g
        BY <2>1, <3>2, CallFields
      <3> QED BY <3>1, <3>2
    <2>5. cache' \in {"starting", "ready", "disabled"}
      BY <1>2 DEF CacheInv, CacheTypeOK
    <2> QED BY <1>2, <2>1, <2>3, <2>4, <2>5, CallsOnly
  <1>4. CASE ~Hit(k)
    <2> DEFINE n == Len(streams) + 1
               x == [key |-> k, content |-> "empty", final |-> FALSE, writer |-> "opening"]
               c == [pc |-> "opening", stream |-> n]
    <2>1. /\ streams' = Append(streams, x) /\ entry' = [entry EXCEPT ![k] = n]
          /\ call' = [call EXCEPT ![g] = c]
      BY <1>4 DEF Lookup
    <2>2. x \in Stream /\ x.key = k /\ x.content = "empty" /\ x.final = FALSE /\ x.writer = "opening"
      BY DEF Stream
    <2>3. c \in Get /\ c.stream = n /\ c.pc = "opening" /\ n \in Nat /\ n # 0 /\ n = Len(streams) + 1
      BY <1>1 DEF Get
    <2> HIDE DEF x, c
    <2>4. /\ streams' \in Seq(Stream) /\ Len(streams') = n /\ DOMAIN streams' = DOMAIN streams \cup {n}
          /\ n \notin DOMAIN streams
          /\ streams'[n] = x /\ \A t \in DOMAIN streams : streams'[t] = streams[t]
      BY <1>1, <2>1, <2>2, Added
    <2> HIDE DEF n
    <2>5. entry[k] = 0 /\ entry'[k] = n /\ \A j \in Keys : j # k => entry'[j] = entry[j]
      BY <1>1, <1>4, <2>1 DEF Hit
    <2>6. \A j \in Keys : entry[j] # 0 => entry[j] \in DOMAIN streams /\ streams[entry[j]].key = j
      BY <1>1 DEF CacheInv, CacheTypeOK
    <2>7. CacheTypeOK'
      <3>1. entry' \in [Keys -> 0 .. Len(streams')]
        BY <1>1, <2>1, <2>3, <2>4
      <3>2. \A j \in Keys : entry'[j] # 0 => streams'[entry'[j]].key = j
        BY <2>2, <2>4, <2>5, <2>6
      <3>3. call' \in [Callers -> Get]
        BY <2>1, <2>3, CallFields
      <3>4. \A h \in Callers : /\ call'[h].stream \in 0 .. Len(streams')
                               /\ call'[h].stream = 0 <=> call'[h].pc = "idle"
        <4> TAKE h \in Callers
        <4>1. CASE h = g
          <5>1. call'[h] = c
            BY <2>1, <4>1, CallFields
          <5> QED BY <2>3, <2>4, <5>1
        <4>2. CASE h # g
          <5>1. call'[h] = call[h]
            BY <2>1, <4>2, CallFields
          <5> QED BY <1>1, <2>3, <2>4, <5>1, CallFields
        <4> QED BY <4>1, <4>2
      <3> QED BY <1>2, <2>4, <3>1, <3>2, <3>3, <3>4 DEF CacheInv, CacheTypeOK
    <2>8. Closed'
      BY <2>2, <2>4 DEF CacheInv, Closed, Active
    <2>9. NoRemains'
      <3> SUFFICES ASSUME NEW t \in DOMAIN streams', streams'[t].writer = "done",
                          streams'[t].content # "full", NEW j \in Keys
                   PROVE  entry'[j] # t
        BY DEF NoRemains
      <3>1. t \in DOMAIN streams /\ streams'[t] = streams[t] /\ t # n
        BY <2>2, <2>4
      <3>2. entry[j] # t
        BY <3>1 DEF CacheInv, NoRemains
      <3> QED BY <2>5, <3>1, <3>2
    <2>10. Entered'
      <3> SUFFICES ASSUME NEW t \in DOMAIN streams', Active(t)', streams'[t].key \notin crossed'
                   PROVE  entry'[streams'[t].key] = t
        BY DEF Entered
      <3>1. CASE t = n
        BY <2>2, <2>4, <2>5, <3>1
      <3>2. CASE t # n
        <4>1. t \in DOMAIN streams /\ streams'[t] = streams[t]
          BY <2>4, <3>2
        <4>2. entry[streams[t].key] = t /\ streams[t].key \in Keys
          BY <1>2, <4>1, StreamFields DEF CacheInv, Entered, Active
        <4>3. t # 0
          BY <1>1, <4>1
        <4>4. streams[t].key # k
          BY <2>5, <4>2, <4>3
        <4> QED BY <2>5, <4>1, <4>2, <4>4
      <3> QED BY <3>1, <3>2
    <2> QED BY <2>7, <2>8, <2>9, <2>10 DEF CacheInv
  <1> QED BY <1>3, <1>4

LEMMA InvalidateInv == ASSUME CacheInv, NEW s \in DOMAIN streams, Invalidate(s) PROVE CacheInv'
  <1> DEFINE k == streams[s].key
             x == [streams[s] EXCEPT !.writer = "done"]
  <1>1. streams \in Seq(Stream) /\ entry \in [Keys -> 0 .. Len(streams)] /\ Len(streams) \in Nat
        /\ DOMAIN streams = 1 .. Len(streams) /\ crossed \subseteq Keys
    BY DEF CacheInv, CacheTypeOK
  <1>2. /\ streams[s].writer = "failed" /\ streams' = [streams EXCEPT ![s] = x]
        /\ entry' = [entry EXCEPT ![k] = 0] /\ UNCHANGED <<cache, faults>>
        /\ crossed' = IF entry[k] \notin {0, s} THEN crossed \cup {k} ELSE crossed
        /\ call' = [g \in Callers |-> IF call[g].pc = "opening" /\ call[g].stream = s
                                      THEN Idle ELSE call[g]]
    BY DEF Invalidate
  <1>3. k \in Keys /\ x \in Stream /\ x.key = k /\ x.final = streams[s].final /\ x.writer = "done"
    BY StreamFields DEF Stream
  <1>4. streams[s].final
    BY <1>2 DEF CacheInv, Closed, Active
  <1> HIDE DEF x
  <1>5. /\ streams' \in Seq(Stream) /\ Len(streams') = Len(streams)
        /\ DOMAIN streams' = DOMAIN streams
        /\ streams'[s] = x /\ \A t \in DOMAIN streams : t # s => streams'[t] = streams[t]
    BY <1>1, <1>2, <1>3, Replaced
  <1>6. \A t \in DOMAIN streams : streams'[t].key = streams[t].key
    BY <1>3, <1>5
  <1>7. entry'[k] = 0 /\ \A j \in Keys : j # k => entry'[j] = entry[j]
    BY <1>1, <1>2, <1>3
  <1>8. \A j \in Keys : entry[j] # 0 => entry[j] \in DOMAIN streams /\ streams[entry[j]].key = j
    BY <1>1 DEF CacheInv, CacheTypeOK
  <1>9. CacheTypeOK'
    <2>1. entry' \in [Keys -> 0 .. Len(streams')]
      <3>1. 0 \in 0 .. Len(streams)
        BY <1>1
      <3>2. entry' \in [Keys -> 0 .. Len(streams)]
        BY <1>1, <1>2, <1>3, <3>1
      <3> QED BY <1>5, <3>2
    <2>2. \A j \in Keys : entry'[j] # 0 => streams'[entry'[j]].key = j
      BY <1>6, <1>7, <1>8
    <2>3. call' \in [Callers -> Get]
      BY <1>2, IdleCall, CallFields
    <2>4. \A h \in Callers : /\ call'[h].stream \in 0 .. Len(streams')
                             /\ call'[h].stream = 0 <=> call'[h].pc = "idle"
      <3> TAKE h \in Callers
      <3>1. call'[h] = Idle \/ call'[h] = call[h]
        BY <1>2
      <3> QED BY <1>1, <1>5, <3>1, IdleCall, CallFields
    <2>5. crossed' \subseteq Keys
      BY <1>1, <1>2, <1>3
    <2> QED BY <1>2, <1>5, <2>1, <2>2, <2>3, <2>4, <2>5 DEF CacheInv, CacheTypeOK
  <1>10. Closed'
    BY <1>3, <1>4, <1>5 DEF CacheInv, Closed, Active
  <1>11. NoRemains'
    <2> SUFFICES ASSUME NEW t \in DOMAIN streams', streams'[t].writer = "done",
                        streams'[t].content # "full", NEW j \in Keys
                 PROVE  entry'[j] # t
      BY DEF NoRemains
    <2>1. t \in DOMAIN streams /\ t # 0
      BY <1>1, <1>5
    <2>2. CASE t = s
      BY <1>7, <1>8, <2>1, <2>2
    <2>3. CASE t # s
      <3>1. entry[j] # t
        BY <1>5, <2>1, <2>3 DEF CacheInv, NoRemains
      <3> QED BY <1>7, <2>1, <3>1
    <2> QED BY <2>2, <2>3
  <1>12. Entered'
    <2> SUFFICES ASSUME NEW t \in DOMAIN streams', Active(t)', streams'[t].key \notin crossed'
                 PROVE  entry'[streams'[t].key] = t
      BY DEF Entered
    <2>1. t \in DOMAIN streams /\ t # 0 /\ t # s /\ streams'[t] = streams[t]
      BY <1>1, <1>3, <1>5 DEF Active
    <2>2. Active(t) /\ streams[t].key \notin crossed
      BY <1>2, <2>1 DEF Active
    <2>3. entry[streams[t].key] = t /\ streams[t].key \in Keys
      BY <2>1, <2>2, StreamFields DEF CacheInv, Entered
    <2>4. streams[t].key # k
      BY <1>2, <2>1, <2>3
    <2> QED BY <1>7, <2>1, <2>3, <2>4
  <1> QED BY <1>9, <1>10, <1>11, <1>12 DEF CacheInv

LEMMA ScrubInv == ASSUME CacheInv, Scrub PROVE CacheInv'
  <1>1. PICK gone \in SUBSET {k \in Keys : entry[k] # 0 /\ ~InUse(entry[k])} :
          entry' = [k \in Keys |-> IF k \in gone THEN 0 ELSE entry[k]]
    BY DEF Scrub
  <1>2. UNCHANGED <<cache, streams, call, crossed, faults>>
    BY DEF Scrub
  <1>3. streams \in Seq(Stream) /\ entry \in [Keys -> 0 .. Len(streams)] /\ Len(streams) \in Nat
        /\ DOMAIN streams = 1 .. Len(streams)
    BY DEF CacheInv, CacheTypeOK
  <1>4. CacheTypeOK'
    BY <1>1, <1>2, <1>3 DEF CacheInv, CacheTypeOK
  <1>5. Closed'
    BY <1>2 DEF CacheInv, Closed, Active
  <1>6. NoRemains'
    BY <1>1, <1>2, <1>3 DEF CacheInv, NoRemains
  <1>7. Entered'
    <2> SUFFICES ASSUME NEW t \in DOMAIN streams, Active(t), streams[t].key \notin crossed
                 PROVE  entry'[streams[t].key] = t
      BY <1>2 DEF Entered, Active
    <2>1. entry[streams[t].key] = t /\ streams[t].key \in Keys
      BY StreamFields DEF CacheInv, Entered
    <2>2. InUse(t)
      BY DEF InUse, CacheInv, Closed
    <2>3. streams[t].key \notin gone
      BY <2>1, <2>2
    <2> QED BY <1>1, <2>1, <2>3
  <1> QED BY <1>4, <1>5, <1>6, <1>7 DEF CacheInv

LEMMA RestartInv == ASSUME CacheInv, Restart PROVE CacheInv'
  <1>1. PICK begun \in SUBSET {s \in DOMAIN streams : streams[s].writer = "copying"} :
          streams' = [s \in DOMAIN streams |->
            [streams[s] EXCEPT !.content = IF s \in begun THEN "part" ELSE @,
                               !.final = TRUE, !.writer = IF @ = "done" THEN "done" ELSE "dead"]]
    BY DEF Restart
  <1>2. /\ cache' = "starting" /\ call' = [g \in Callers |-> Idle] /\ crossed' = {}
        /\ entry' = entry /\ faults' \in 0 .. MaxFaults
    BY FaultType DEF Restart, CacheInv
  <1>3. streams \in Seq(Stream) /\ entry \in [Keys -> 0 .. Len(streams)] /\ Len(streams) \in Nat
        /\ DOMAIN streams = 1 .. Len(streams)
    BY DEF CacheInv, CacheTypeOK
  <1>4. ASSUME NEW s \in DOMAIN streams
        PROVE  /\ streams'[s] \in Stream /\ streams'[s].key = streams[s].key /\ streams'[s].final = TRUE
               /\ streams'[s].writer = IF streams[s].writer = "done" THEN "done" ELSE "dead"
               /\ streams[s].writer = "done" => streams'[s].content = streams[s].content
    <2>1. s \in begun => streams[s].writer = "copying"
      OBVIOUS
    <2> DEFINE c == IF s \in begun THEN "part" ELSE streams[s].content
               w == IF streams[s].writer = "done" THEN "done" ELSE "dead"
    <2>2. streams'[s] = [streams[s] EXCEPT !.content = c, !.final = TRUE, !.writer = w]
      BY <1>1
    <2>3. c \in {"empty", "part", "full"} /\ w \in {"opening", "copying", "failed", "done", "dead"}
      BY StreamFields
    <2>4. streams[s] \in Stream
      BY StreamFields
    <2>5. streams[s].writer = "done" => c = streams[s].content
      BY <2>1
    <2> HIDE DEF c
    <2>6. /\ streams'[s] \in Stream /\ streams'[s].key = streams[s].key /\ streams'[s].final = TRUE
          /\ streams'[s].writer = w /\ streams'[s].content = c
      BY <2>2, <2>3, <2>4 DEF Stream
    <2> QED BY <2>5, <2>6
  <1>5. streams' \in Seq(Stream) /\ Len(streams') = Len(streams) /\ DOMAIN streams' = DOMAIN streams
    <2>1. streams' = [s \in 1 .. Len(streams) |-> streams'[s]]
      BY <1>1, <1>3
    <2>2. \A s \in 1 .. Len(streams) : streams'[s] \in Stream
      BY <1>3, <1>4
    <2> QED BY <1>3, <2>1, <2>2
  <1>6. CacheTypeOK'
    <2>1. \A k \in Keys : entry'[k] # 0 => streams'[entry'[k]].key = k
      <3>1. \A k \in Keys : entry[k] # 0 => entry[k] \in DOMAIN streams /\ streams[entry[k]].key = k
        BY <1>3 DEF CacheInv, CacheTypeOK
      <3>2. \A s \in DOMAIN streams : streams'[s].key = streams[s].key
        BY <1>4
      <3> QED BY <1>2, <3>1, <3>2
    <2>2. call' \in [Callers -> Get]
      BY <1>2, IdleCall
    <2>3. \A g \in Callers : /\ call'[g].stream \in 0 .. Len(streams')
                             /\ call'[g].stream = 0 <=> call'[g].pc = "idle"
      BY <1>2, <1>3, <1>5, IdleCall
    <2> QED BY <1>2, <1>3, <1>5, <2>1, <2>2, <2>3 DEF CacheTypeOK
  <1>7. \A s \in DOMAIN streams' : streams'[s].final /\ streams'[s].writer \in {"done", "dead"}
    BY <1>4, <1>5
  <1>8. Closed' /\ Entered'
    BY <1>7 DEF Closed, Entered, Active
  <1>9. NoRemains'
    <2> SUFFICES ASSUME NEW s \in DOMAIN streams, streams'[s].writer = "done",
                        streams'[s].content # "full", NEW k \in Keys
                 PROVE  entry[k] # s
      BY <1>2, <1>5 DEF NoRemains
    <2>1. streams[s].writer = "done" /\ streams[s].content # "full"
      BY <1>4
    <2> QED BY <2>1 DEF CacheInv, NoRemains
  <1> QED BY <1>6, <1>8, <1>9 DEF CacheInv

LEMMA CacheMoveInv == CacheInv /\ CacheMove => CacheInv'
  <1> SUFFICES ASSUME CacheInv, CacheMove PROVE CacheInv'
    OBVIOUS
  <1>1. CASE Initialize \/ Scrub \/ Restart
    BY <1>1, InitializeInv, ScrubInv, RestartInv
  <1>2. ASSUME NEW g \in Callers, Opened(g) \/ OpenFails(g) \/ Close(g) PROVE CacheInv'
    BY <1>2, OpenedInv, OpenFailsInv, CloseInv
  <1>3. ASSUME NEW g \in Callers, NEW k \in Keys, Lookup(g, k) PROVE CacheInv'
    BY <1>3, LookupInv
  <1>4. ASSUME NEW s \in DOMAIN streams, CopyEnds(s) \/ CopyFails(s) \/ Invalidate(s) PROVE CacheInv'
    BY <1>4, CopyEndsInv, CopyFailsInv, InvalidateInv
  <1>5. CASE Fault /\ UNCHANGED <<cache, entry, streams, call, crossed>>
    <2>1. CacheTypeOK'
      BY <1>5, FaultType DEF CacheInv, CacheTypeOK
    <2>2. Closed' /\ NoRemains' /\ Entered'
      BY <1>5 DEF CacheInv, Closed, NoRemains, Entered, Active
    <2> QED BY <2>1, <2>2 DEF CacheInv
  <1>6. CASE UNCHANGED cacheVars
    <2>1. CacheTypeOK'
      BY <1>6 DEF CacheInv, CacheTypeOK, cacheVars
    <2>2. Closed' /\ NoRemains' /\ Entered'
      BY <1>6 DEF CacheInv, Closed, NoRemains, Entered, Active, cacheVars
    <2> QED BY <2>1, <2>2 DEF CacheInv
  <1> QED BY <1>1, <1>2, <1>3, <1>4, <1>5, <1>6 DEF CacheMove, CacheStep

----------------------------------------------------------------------------
(* The warmer's own variables. *)
WarmerTypeOK ==
  /\ buffer \subseteq Keys /\ batch \subseteq Keys /\ asked \subseteq Keys
  /\ wake \in BOOLEAN /\ warmer \in {"waiting", "batch", "gone"}
  /\ used \in [asks : 0 .. MaxAsks, gets : 0 .. MaxGets]

LEMMA CountType ==
  ASSUME WarmerTypeOK, Count("asks", MaxAsks) \/ Count("gets", MaxGets)
  PROVE  used' \in [asks : 0 .. MaxAsks, gets : 0 .. MaxGets]
  BY WarmerAssumption DEF WarmerTypeOK, Count

LEMMA WarmerStep == WarmerTypeOK /\ [Next]_vars => WarmerTypeOK'
  <1> SUFFICES ASSUME WarmerTypeOK, [Next]_vars PROVE WarmerTypeOK'
    OBVIOUS
  <1>1. ASSUME NEW k \in Keys, PreCache(k) PROVE WarmerTypeOK'
    BY <1>1, CountType DEF PreCache, WarmerTypeOK
  <1>2. CASE Run
    <2>1. wake' \in BOOLEAN /\ UNCHANGED used
      BY <1>2 DEF Run, Woken, WarmerTypeOK
    <2>2. CASE cache = "disabled"
      BY <1>2, <2>1, <2>2 DEF Run, WarmerTypeOK
    <2>3. CASE cache = "ready" /\ buffer # {}
      BY <1>2, <2>1, <2>3 DEF Run, WarmerTypeOK
    <2>4. CASE cache # "disabled" /\ ~(cache = "ready" /\ buffer # {})
      <3>1. UNCHANGED <<buffer, asked, warmer, batch>>
        BY <1>2, <2>4 DEF Run
      <3> QED BY <2>1, <3>1 DEF WarmerTypeOK
    <2> QED BY <2>2, <2>3, <2>4
  <1>3. CASE BatchEnds
    BY <1>3 DEF BatchEnds, WarmerTypeOK
  <1>4. CASE CacheSteps
    BY <1>4 DEF CacheSteps, warmerVars, WarmerTypeOK
  <1>5. CASE ProcessRestarts
    BY <1>5 DEF ProcessRestarts, WarmerTypeOK
  <1>6. ASSUME NEW w \in Workers, Take(w) \/ TakeFails(w) \/ Warmed(w) PROVE WarmerTypeOK'
    <2>1. CASE Take(w)
      BY <2>1 DEF Take, WarmerTypeOK
    <2>2. CASE TakeFails(w)
      BY <2>2 DEF TakeFails, WarmerTypeOK
    <2>3. CASE Warmed(w)
      BY <2>3 DEF Warmed, warmerVars, WarmerTypeOK
    <2> QED BY <1>6, <2>1, <2>2, <2>3
  <1>7. ASSUME NEW g \in Callers \ Workers, UserGets(g) \/ UserCloses(g) PROVE WarmerTypeOK'
    <2>1. CASE UserGets(g)
      BY <2>1, CountType DEF UserGets, warmerVars, WarmerTypeOK
    <2>2. CASE UserCloses(g)
      BY <2>2 DEF UserCloses, warmerVars, WarmerTypeOK
    <2> QED BY <1>7, <2>1, <2>2
  <1>8. ASSUME NEW g \in Callers, Made(g) \/ Failed(g) PROVE WarmerTypeOK'
    BY <1>8 DEF Made, Failed, warmerVars, WarmerTypeOK
  <1>9. CASE UNCHANGED vars
    BY <1>9 DEF vars, warmerVars, WarmerTypeOK
  <1> QED BY <1>1, <1>2, <1>3, <1>4, <1>5, <1>6, <1>7, <1>8, <1>9 DEF Next, Step

LEMMA InitInv == Init => IInv
  <1> SUFFICES ASSUME Init PROVE IInv
    OBVIOUS
  <1>1. streams = <<>> /\ DOMAIN streams = {} /\ Len(streams) = 0
    BY DEF Init, CacheInit
  <1>2. CacheTypeOK
    <2>1. streams \in Seq(Stream)
      BY <1>1
    <2>2. entry \in [Keys -> 0 .. Len(streams)] /\ \A k \in Keys : entry[k] = 0
      BY <1>1 DEF Init, CacheInit
    <2>3. call \in [Callers -> Get]
      BY IdleCall DEF Init, CacheInit
    <2>4. \A g \in Callers : /\ call[g].stream \in 0 .. Len(streams)
                             /\ call[g].stream = 0 <=> call[g].pc = "idle"
      BY <1>1, IdleCall DEF Init, CacheInit
    <2>5. faults \in 0 .. MaxFaults /\ crossed \subseteq Keys /\ cache = "starting"
      BY CacheAssumption DEF Init, CacheInit
    <2> QED BY <2>1, <2>2, <2>3, <2>4, <2>5 DEF CacheTypeOK
  <1>3. WarmerTypeOK
    <2>1. used \in [asks : 0 .. MaxAsks, gets : 0 .. MaxGets]
      BY WarmerAssumption DEF Init
    <2>2. buffer = {} /\ batch = {} /\ asked = {} /\ wake = FALSE /\ warmer = "waiting"
      BY DEF Init
    <2> QED BY <2>1, <2>2 DEF WarmerTypeOK
  <1>4. Closed /\ NoRemains /\ Entered
    BY <1>1 DEF Closed, NoRemains, Entered
  <1> QED BY <1>2, <1>3, <1>4 DEF IInv, TypeOK, WarmerTypeOK

LEMMA NextInv == IInv /\ [Next]_vars => IInv'
  <1> SUFFICES ASSUME IInv, [Next]_vars PROVE IInv'
    OBVIOUS
  <1>1. TypeOK /\ CacheInv /\ WarmerTypeOK
    BY DEF IInv, TypeOK, WarmerTypeOK, CacheInv
  <1>2. CacheInv' /\ WarmerTypeOK'
    BY <1>1, NextMovesCache, CacheMoveInv, WarmerStep
  <1> QED BY <1>2 DEF IInv, TypeOK, WarmerTypeOK, CacheInv

(* IInv always holds. *)
THEOREM Invariant == Spec => []IInv
  BY InitInv, NextInv, PTL DEF Spec

(* Every variable of the cache and of the warmer keeps its type, and an      *)
(* entry names a content that was made for its key.                         *)
THEOREM TypeCorrect == Spec => []TypeOK
  <1>1. IInv => TypeOK
    BY DEF IInv
  <1> QED BY <1>1, Invariant, PTL

(* What broke off (copyAndClose, getReader) is out of the cache as soon as   *)
(* invalidate is done, whoever cleaned up or asked in between.               *)
THEOREM FailedAreInvalidated == Spec => []FailedNotKept
  <1>1. IInv => FailedNotKept
    <2> SUFFICES ASSUME IInv, NEW k \in Keys, entry[k] # 0, streams[entry[k]].final,
                        streams[entry[k]].content # "full"
                 PROVE  streams[entry[k]].writer \in {"failed", "dead"}
      BY DEF FailedNotKept
    <2>1. CacheInv
      BY DEF IInv, TypeOK, CacheInv
    <2>2. entry[k] \in DOMAIN streams
      BY <2>1 DEF CacheInv, CacheTypeOK
    <2>3. ~Active(entry[k])
      BY <2>1, <2>2 DEF CacheInv, Closed
    <2>4. streams[entry[k]].writer # "done"
      BY <2>1, <2>2 DEF CacheInv, NoRemains
    <2> QED BY <2>1, <2>2, <2>3, <2>4, StreamFields DEF Active
  <1> QED BY <1>1, Invariant, PTL

(* Two contents of one key are never made at a time (Get with its lock in    *)
(* fscache), but for keys of which a late invalidation took a newer entry.   *)
THEOREM MadeOnce == Spec => []SingleFlight
  <1>1. IInv => SingleFlight
    BY DEF IInv, Entered, Active, SingleFlight
  <1> QED BY <1>1, Invariant, PTL
=============================================================================
