------------------------- MODULE LibraryScanProofs -------------------------
(* Theorems about the scan pipeline, for every library and every bound. *)
EXTENDS LibraryScan, TLAPS

\* What a proof needs of the constants.
LEMMA ConstantTypes ==
    /\ \A p \in Paths : FolderOf[p] \in Folders
    /\ \A c \in Contents : AlbumOf[c] \in Albums /\ PidOf[c] \in Contents
BY ScanAssumption

\* The null values belong to the types of their tables.
LEMMA NullValues ==
    /\ FreeRow \in Row /\ FreeTable \in [Ids -> Row]
    /\ NoRow \in FolderRow
    /\ NoAlbum \in Album
    /\ NoEntry \in Entry
BY ScanAssumption DEF FreeRow, FreeTable, Row, NoRow, FolderRow, NoHash, NoAlbum, Album, TrackPart, NoEntry, Entry, Nothing

\* Records keep their type when one field changes.
LEMMA RecordUpdates ==
    /\ \A r \in Row : \A b \in BOOLEAN : [r EXCEPT !.recent = b] \in Row
    /\ \A r \in Row : [r EXCEPT !.st = "missing"] \in Row
    /\ \A r \in FolderRow : [r EXCEPT !.fresh = FALSE] \in FolderRow
    /\ \A r \in FolderRow : [r EXCEPT !.st = "missing", !.fresh = TRUE] \in FolderRow
    /\ \A r \in Album : \A b \in BOOLEAN : [r EXCEPT !.touched = b] \in Album
    /\ \A e \in Entry : [e EXCEPT !.stage = "processed"] \in Entry
<1>1. \A r \in Row : \A b \in BOOLEAN : [r EXCEPT !.recent = b] \in Row
  BY DEF Row
<1>2. \A r \in Row : [r EXCEPT !.st = "missing"] \in Row
  BY DEF Row
<1>3. \A r \in FolderRow : [r EXCEPT !.fresh = FALSE] \in FolderRow
  BY DEF FolderRow
<1>4. \A r \in FolderRow : [r EXCEPT !.st = "missing", !.fresh = TRUE] \in FolderRow
  BY DEF FolderRow
<1>5. \A r \in Album : \A b \in BOOLEAN : [r EXCEPT !.touched = b] \in Album
  BY DEF Album
<1>6. \A e \in Entry : [e EXCEPT !.stage = "processed"] \in Entry
  BY DEF Entry
<1> QED
  BY <1>1, <1>2, <1>3, <1>4, <1>5, <1>6

\* An album aggregates well-typed tracks.
LEMMA SummaryType ==
    ASSUME tracks \in [Ids -> Row]
    PROVE  \A a : Summary(a) \subseteq TrackPart
<1>1. \A i \in Ids : tracks[i].path \in Paths /\ tracks[i].content \in Contents
  BY DEF Row
<1>2. \A i \in Ids : Part(tracks[i]) \in TrackPart
  BY <1>1 DEF Part, TrackPart
<1> QED
  BY <1>2 DEF Summary

\* The first state is well typed, whatever the disk and the database hold.
LEMMA InitTypeOK == Init => TypeOK
<1>1. SUFFICES ASSUME Init PROVE TypeOK
  OBVIOUS
<1>2. InitTracks \in [Ids -> Row]
  BY ScanAssumption, NullValues DEF InitTracks, Row
<1>3. tracks \in [Ids -> Row]
  BY <1>1, <1>2, NullValues DEF Init, Album
<1>4. folders \in [Folders -> FolderRow]
  BY <1>1, NullValues DEF Init, FolderRow
<1>5. \A a \in Albums : Summary(a) \subseteq TrackPart
  BY <1>3, SummaryType
<1>6. albums \in [Albums -> Album]
  BY <1>1, <1>5, NullValues DEF Init, Album
<1>7. files \in [Paths -> File \cup {NoFile}]
  BY <1>1, ScanAssumption DEF Init, File
<1>8. dirs \subseteq Folders
  BY <1>1, ScanAssumption DEF Init, InitDirs
<1> QED
  BY <1>1, <1>3, <1>4, <1>6, <1>7, <1>8, NullValues DEF Init, TypeOK

\* Users change the disk only.
LEMMA DiskTypeOK == TypeOK /\ DiskStep => TypeOK'
<1>1. ASSUME NEW p \in Paths, NEW c \in Contents, TypeOK, Write(p, c)  PROVE TypeOK'
  <2>1. clock' \in Nat /\ FolderOf[p] \in Folders
    BY <1>1, ConstantTypes DEF Write, Tick, TypeOK
  <2>2. [content |-> c, mtime |-> clock'] \in File
    BY <2>1 DEF File
  <2>3. files' \in [Paths -> File \cup {NoFile}]
    BY <1>1, <2>2 DEF Write, TypeOK
  <2>4. ver' \in [Folders -> Nat]
    BY <1>1, <2>1 DEF Write, TypeOK
  <2> QED
    BY <1>1, <2>1, <2>3, <2>4 DEF TypeOK, Write, db, scan
<1>2. ASSUME NEW p \in Paths, NEW q \in Paths, TypeOK, Rename(p, q)  PROVE TypeOK'
  <2>1. clock' \in Nat /\ FolderOf[p] \in Folders /\ FolderOf[q] \in Folders
    BY <1>2, ConstantTypes DEF Rename, Tick, TypeOK
  <2>2. files' \in [Paths -> File \cup {NoFile}]
    BY <1>2 DEF Rename, TypeOK
  <2>3. ver' \in [Folders -> Nat]
    BY <1>2, <2>1 DEF Rename, TypeOK
  <2> QED
    BY <1>2, <2>1, <2>2, <2>3 DEF TypeOK, Rename, db, scan
<1>3. ASSUME NEW p \in Paths, TypeOK, Delete(p)  PROVE TypeOK'
  <2>1. clock' \in Nat /\ FolderOf[p] \in Folders
    BY <1>3, ConstantTypes DEF Delete, Tick, TypeOK
  <2>2. files' \in [Paths -> File \cup {NoFile}]
    BY <1>3 DEF Delete, TypeOK
  <2>3. ver' \in [Folders -> Nat]
    BY <1>3, <2>1 DEF Delete, TypeOK
  <2> QED
    BY <1>3, <2>1, <2>2, <2>3 DEF TypeOK, Delete, db, scan
<1>4. ASSUME NEW f \in Folders, TypeOK, RemoveFolder(f)  PROVE TypeOK'
  BY <1>4 DEF TypeOK, RemoveFolder, Tick, db, scan
<1> QED
  BY <1>1, <1>2, <1>3, <1>4 DEF DiskStep

\* Forgetting the scan's memory leaves null values.
LEMMA ForgetTypeOK ==
    ASSUME Forget
    PROVE  /\ pc' = "idle" /\ forced' \in BOOLEAN /\ changed' \in BOOLEAN /\ failed' \in BOOLEAN
           /\ pending' \subseteq Folders /\ todo' \subseteq Folders
           /\ left' \subseteq Ids /\ stale' \subseteq Albums
           /\ entry' \in [Folders -> Entry]
           /\ snap' \in [Ids -> Row]
BY NullValues DEF Forget

LEMMA StartTypeOK == TypeOK /\ Start => TypeOK'
<1>1. SUFFICES ASSUME TypeOK, NEW full \in BOOLEAN, NEW targets \in SUBSET Folders,
                      StartScan(full, targets)
               PROVE  TypeOK'
  BY ScanAssumption DEF Start
<1>2. forced' \in BOOLEAN /\ changed' \in BOOLEAN
  BY <1>1 DEF StartScan, TypeOK
<1>3. /\ library' \in [started : BOOLEAN, full : BOOLEAN]
      /\ folders' \in [Folders -> FolderRow]
      /\ tracks' \in [Ids -> Row]
  <2>1. CASE library.started
    BY <1>1, <2>1 DEF StartScan, PrepareLibrary, TypeOK
  <2>2. CASE ~library.started
    <3>1. \A f \in Folders : [folders[f] EXCEPT !.fresh = FALSE] \in FolderRow
      BY <1>1, RecordUpdates DEF TypeOK
    <3>2. \A i \in Ids : [tracks[i] EXCEPT !.recent = FALSE] \in Row
      BY <1>1, RecordUpdates DEF TypeOK
    <3> QED
      <4>1. PrepareLibrary(forced') /\ full \in BOOLEAN
        BY <1>1 DEF StartScan
      <4>2. library' = [started |-> TRUE, full |-> forced']
        BY <2>2, <4>1 DEF PrepareLibrary
      <4>3. folders' \in [Folders -> FolderRow]
        BY <2>2, <3>1, <4>1 DEF PrepareLibrary
      <4>4. tracks' \in [Ids -> Row]
        BY <2>2, <3>2, <4>1 DEF PrepareLibrary
      <4> QED
        BY <1>2, <4>2, <4>3, <4>4
  <2> QED
    BY <2>1, <2>2
<1>4. todo' \subseteq Folders /\ pending' \subseteq Folders
  BY <1>1 DEF StartScan, CreateJob, TypeOK
<1> QED
  BY <1>1, <1>2, <1>3, <1>4 DEF StartScan, TypeOK, disk

LEMMA WalkTypeOK == ASSUME TypeOK, NEW f \in Folders, Walk(f) PROVE TypeOK'
<1>1. OnDisk(f) \subseteq Paths
  BY DEF OnDisk, InFolder
<1>2. [NoEntry EXCEPT !.stage = "walked", !.ver = ver[f], !.list = OnDisk(f)]
        \in Entry
  <2>1. ver[f] \in Nat
    BY DEF TypeOK
  <2> QED
    BY <1>1, <2>1, NullValues DEF Entry
<1>3. entry' \in [Folders -> Entry]
  <2>1. [entry EXCEPT ![f] = [NoEntry EXCEPT !.stage = "walked", !.ver = ver[f],
                                             !.list = OnDisk(f)]] \in [Folders -> Entry]
    BY <1>2 DEF TypeOK
  <2> QED
    BY <2>1 DEF Walk, TypeOK
<1> QED
  BY <1>3 DEF Walk, TypeOK, disk, db

LEMMA ProcessTypeOK == ASSUME TypeOK, NEW f \in Folders, Process(f) PROVE TypeOK'
<1>1. GoneRows(f) \subseteq Ids
  <2>1. \A p \in Paths : RowsAt(p) # {} => RowAt(p) \in Ids
    BY DEF RowAt, RowsAt
  <2> QED
    BY <2>1 DEF GoneRows, InFolder
<1>2. \A read \in Readable(f) : [p \in Paths |-> IF p \in read THEN files[p] ELSE NoFile]
                                \in [Paths -> File \cup {NoFile}]
  BY DEF TypeOK
<1>3. entry' \in [Folders -> Entry]
  <2>1. CASE InfoFails(f)
    <3>1. entry' = [entry EXCEPT ![f] = [entry[f] EXCEPT !.stage = "processed"]]
      BY <2>1 DEF Process
    <3> QED
      BY <3>1, RecordUpdates DEF TypeOK
  <2>2. CASE ~InfoFails(f)
    <3>1. PICK read \in Readable(f) :
            entry' = [entry EXCEPT ![f] =
                       [@ EXCEPT !.stage = "processed", !.gone = GoneRows(f),
                                 !.imports = [p \in Paths |->
                                     IF p \in read THEN files[p] ELSE NoFile]]]
      BY <2>2 DEF Process
    <3>2. [entry[f] EXCEPT !.stage = "processed", !.gone = GoneRows(f),
                           !.imports = [p \in Paths |-> IF p \in read THEN files[p] ELSE NoFile]]
            \in Entry
      <4>1. entry[f] \in Entry
        BY DEF TypeOK
      <4> QED
        BY <4>1, <1>1, <1>2 DEF Entry
    <3> QED
      BY <3>1, <3>2 DEF TypeOK
  <2> QED
    BY <2>1, <2>2
<1> QED
  BY <1>3 DEF Process, TypeOK, disk, db

LEMMA PersistTypeOK == ASSUME TypeOK, NEW f \in Folders, Persist(f) PROVE TypeOK'
<1> DEFINE g == CHOOSE h \in Placement(f) : TRUE
<1>1. g \in Placement(f)
  BY DEF Persist
<1>2. HashAtStore(f) \in Nat
  BY DEF TypeOK, HashAtStore, NoHash
<1>3. \A p \in Imports(f) : p \in Paths /\ entry[f].imports[p] \in File
  BY DEF TypeOK, Entry, Imports
<1>4. tracks' \in [Ids -> Row]
  <2> DEFINE stored(i) ==
        LET p == CHOOSE q \in Imports(f) : g[q] = i
        IN [st |-> "ok", path |-> p, content |-> entry[f].imports[p].content,
            mtime |-> entry[f].imports[p].mtime, recent |-> Used(i) => tracks[i].recent]
  <2>1. ASSUME NEW i \in Ids, \E p \in Imports(f) : g[p] = i
        PROVE  stored(i) \in Row
    <3> DEFINE p == CHOOSE q \in Imports(f) : g[q] = i
    <3>1. p \in Paths /\ entry[f].imports[p] \in File
      BY <1>3, <2>1
    <3>2. (Used(i) => tracks[i].recent) \in BOOLEAN
      OBVIOUS
    <3> QED
      BY <3>1, <3>2 DEF Row, File
  <2>2. \A i \in Ids : tracks[i] \in Row /\ [tracks[i] EXCEPT !.st = "missing"] \in Row
    BY RecordUpdates DEF TypeOK
  <2>3. StoreTracks(f, g)
    BY DEF Persist
  <2> QED
    BY <2>1, <2>2, <2>3 DEF StoreTracks
<1>5. albums' \in [Albums -> Album]
  <2> DEFINE new(a) == {p \in Imports(f) : AlbumOf[entry[f].imports[p].content] = a}
             row(p) == [path |-> p, content |-> entry[f].imports[p].content, missing |-> FALSE]
  <2>1. \A p \in Imports(f) : row(p) \in TrackPart
    BY <1>3 DEF TrackPart, File
  <2>2. \A a \in Albums :
          [used |-> TRUE, touched |-> TRUE, parts |-> {row(p) : p \in new(a)}] \in Album
    BY <2>1 DEF Album
  <2>3. \A a \in Albums : albums[a] \in Album /\ albums[a].used \in BOOLEAN
    BY DEF TypeOK, Album
  <2>4. \A a \in Albums : [albums[a] EXCEPT !.touched = albums[a].used] \in Album
    BY <2>3, RecordUpdates
  <2>5. StoreAlbums(f)
    BY DEF Persist
  <2> QED
    BY <2>2, <2>3, <2>4, <2>5 DEF StoreAlbums
<1>6. folders' \in [Folders -> FolderRow]
  <2>1. [st |-> "ok", hash |-> HashAtStore(f), fresh |-> TRUE, empty |-> entry[f].list = {}]
          \in FolderRow
    BY <1>2 DEF FolderRow
  <2> QED
    BY <2>1 DEF Persist, TypeOK
<1>7. entry' \in [Folders -> Entry]
  BY NullValues DEF Persist, TypeOK
<1> QED
  BY <1>4, <1>5, <1>6, <1>7 DEF Persist, TypeOK, disk

LEMMA PersistFailsTypeOK == ASSUME TypeOK, NEW f \in Folders, PersistFails(f) PROVE TypeOK'
<1>1. entry' \in [Folders -> Entry]
  BY NullValues DEF PersistFails, TypeOK
<1> QED
  BY <1>1 DEF PersistFails, TypeOK, disk, db

LEMMA FinalizeFoldersTypeOK == ASSUME TypeOK, FinalizeFolders PROVE TypeOK'
<1>1. MarkPending
  BY DEF FinalizeFolders
<1>2. folders' \in [Folders -> FolderRow]
  BY <1>1, RecordUpdates DEF MarkPending, TypeOK
<1>3. tracks' \in [Ids -> Row]
  BY <1>1, RecordUpdates DEF MarkPending, TypeOK
<1>4. albums' \in [Albums -> Album]
  <2>1. \A a \in Albums : albums[a] \in Album /\ albums[a].used \in BOOLEAN
    BY DEF TypeOK, Album
  <2>2. \A a \in Albums : [albums[a] EXCEPT !.touched = albums[a].used] \in Album
    BY <2>1, RecordUpdates
  <2> QED
    BY <1>1, <2>1, <2>2 DEF MarkPending
<1>5. CASE failed
  BY <1>2, <1>3, <1>4, <1>5, ForgetTypeOK DEF FinalizeFolders, TypeOK, disk
<1>6. CASE ~failed
  BY <1>2, <1>3, <1>4, <1>6 DEF FinalizeFolders, TypeOK, disk
<1> QED
  BY <1>5, <1>6

LEMMA MovesTypeOK ==
    ASSUME TypeOK, LoadMissing \/ (\E i \in Ids : MoveTrack(i)) \/ FinalizeMissing
    PROVE  TypeOK'
<1>1. CASE LoadMissing
  BY <1>1 DEF LoadMissing, TypeOK, disk, db
<1>2. ASSUME NEW i \in Ids, MoveTrack(i)  PROVE TypeOK'
  <2>1. PICK j \in Targets(snap, i) :
          /\ tracks' = [tracks EXCEPT ![i] = [snap[j] EXCEPT !.recent = tracks[i].recent],
                                      ![j] = FreeRow]
          /\ doubled' = (doubled \/ tracks[j].st = "free")
    BY <1>2 DEF MoveTrack
  <2>2. j \in Ids
    BY DEF Targets, Matched
  <2>3. [snap[j] EXCEPT !.recent = tracks[i].recent] \in Row
    <3>1. snap[j] \in Row /\ tracks[i].recent \in BOOLEAN
      BY <2>2 DEF TypeOK, Row
    <3> QED
      BY <3>1, RecordUpdates
  <2>4. tracks' \in [Ids -> Row]
    BY <2>1, <2>2, <2>3, NullValues DEF TypeOK
  <2>5. doubled' \in BOOLEAN
    BY <2>1 DEF TypeOK
  <2> QED
    BY <1>2, <2>4, <2>5 DEF MoveTrack, TypeOK, disk
<1>3. CASE FinalizeMissing
  <2>1. tracks' \in [Ids -> Row] /\ changed' \in BOOLEAN
    BY <1>3, NullValues DEF FinalizeMissing, TypeOK
  <2> QED
    BY <1>3, <2>1, NullValues DEF FinalizeMissing, TypeOK, disk
<1> QED
  BY <1>1, <1>2, <1>3

LEMMA AlbumsTypeOK ==
    ASSUME TypeOK, LoadAlbums \/ (\E a \in Albums : RefreshAlbum(a)) \/ CollectGarbage
    PROVE  TypeOK'
<1>1. CASE LoadAlbums
  BY <1>1 DEF LoadAlbums, TypeOK, disk, db
<1>2. ASSUME NEW a \in Albums, RefreshAlbum(a)  PROVE TypeOK'
  <2>1. [albums[a] EXCEPT !.parts = Summary(a), !.touched = TRUE] \in Album
    <3>1. albums[a] \in Album /\ Summary(a) \subseteq TrackPart
      BY SummaryType DEF TypeOK
    <3> QED
      BY <3>1 DEF Album
  <2>2. albums' \in [Albums -> Album] /\ changed' \in BOOLEAN
    BY <1>2, <2>1 DEF RefreshAlbum, TypeOK
  <2> QED
    BY <1>2, <2>2 DEF RefreshAlbum, TypeOK, disk
<1>3. CASE CollectGarbage
  <2>1. albums' \in [Albums -> Album] /\ folders' \in [Folders -> FolderRow]
    BY <1>3, NullValues DEF CollectGarbage, TypeOK
  <2> QED
    BY <1>3, <2>1 DEF CollectGarbage, TypeOK, disk
<1> QED
  BY <1>1, <1>2, <1>3

LEMMA EndTypeOK == ASSUME TypeOK, UpdateLibraries \/ Crash PROVE TypeOK'
<1>1. CASE UpdateLibraries
  <2>1. albums' \in [Albums -> Album]
    BY <1>1, RecordUpdates DEF UpdateLibraries, TypeOK
  <2>2. library' \in [started : BOOLEAN, full : BOOLEAN]
    BY <1>1 DEF UpdateLibraries
  <2>3. Forget /\ UNCHANGED <<disk, folders, tracks, doubled, contested, crashes>>
    BY <1>1 DEF UpdateLibraries
  <2> QED
    BY <2>1, <2>2, <2>3, ForgetTypeOK DEF TypeOK, disk
<1>2. CASE Crash
  <2>1. Forget /\ UNCHANGED <<disk, db>> /\ crashes' = crashes + 1
    BY <1>2 DEF Crash
  <2> QED
    BY <2>1, ForgetTypeOK DEF TypeOK, disk, db
<1> QED
  BY <1>1, <1>2

LEMMA StutterTypeOK == ASSUME TypeOK, UNCHANGED vars PROVE TypeOK'
BY DEF TypeOK, vars, disk, db, scan

\* Every variable keeps its type in every reachable state, for every library,
\* every set of faults and every bound.
THEOREM TypeCorrect == Spec => []TypeOK
<1>1. Init => TypeOK
  BY InitTypeOK
<1>2. TypeOK /\ [Next]_vars => TypeOK'
  BY DiskTypeOK, StartTypeOK, WalkTypeOK, ProcessTypeOK, PersistTypeOK, PersistFailsTypeOK,
     FinalizeFoldersTypeOK, MovesTypeOK, AlbumsTypeOK, EndTypeOK, StutterTypeOK
  DEF Next, ScanStep
<1> QED
  BY <1>1, <1>2, PTL DEF Spec

-----------------------------------------------------------------------------
(* The scan invariant. *)

\* Users touch one or two directories at a time, and leave them newer than
\* anything the scanner has seen.
LEMMA DiskFrame ==
    ASSUME TypeOK, DiskStep
    PROVE  /\ UNCHANGED <<db, scan, crashes>>
           /\ clock' = clock + 1
           /\ \A f \in Folders :
                \/ ver'[f] = clock'
                \/ /\ ver'[f] = ver[f]
                   /\ \A p \in InFolder(f) : files'[p] = files[p]
<1>1. ASSUME NEW p \in Paths, NEW c \in Contents, Write(p, c)
      PROVE  /\ UNCHANGED <<db, scan, crashes>>
             /\ clock' = clock + 1
             /\ \A f \in Folders :
                  \/ ver'[f] = clock'
                  \/ ver'[f] = ver[f] /\ \A q \in InFolder(f) : files'[q] = files[q]
  BY <1>1, ConstantTypes DEF Write, Tick, TypeOK, InFolder
<1>2. ASSUME NEW p \in Paths, NEW q \in Paths, Rename(p, q)
      PROVE  /\ UNCHANGED <<db, scan, crashes>>
             /\ clock' = clock + 1
             /\ \A f \in Folders :
                  \/ ver'[f] = clock'
                  \/ ver'[f] = ver[f] /\ \A r \in InFolder(f) : files'[r] = files[r]
  BY <1>2, ConstantTypes DEF Rename, Tick, TypeOK, InFolder
<1>3. ASSUME NEW p \in Paths, Delete(p)
      PROVE  /\ UNCHANGED <<db, scan, crashes>>
             /\ clock' = clock + 1
             /\ \A f \in Folders :
                  \/ ver'[f] = clock'
                  \/ ver'[f] = ver[f] /\ \A q \in InFolder(f) : files'[q] = files[q]
  BY <1>3, ConstantTypes DEF Delete, Tick, TypeOK, InFolder
<1>4. ASSUME NEW g \in Folders, RemoveFolder(g)
      PROVE  /\ UNCHANGED <<db, scan, crashes>>
             /\ clock' = clock + 1
             /\ \A f \in Folders :
                  \/ ver'[f] = clock'
                  \/ ver'[f] = ver[f] /\ \A q \in InFolder(f) : files'[q] = files[q]
  BY <1>4, ConstantTypes DEF RemoveFolder, Tick, TypeOK, InFolder
<1> QED
  BY <1>1, <1>2, <1>3, <1>4 DEF DiskStep

LEMMA DiskInvariant == ASSUME TypeOK, ScanInvariant, DiskStep PROVE ScanInvariant'
<1>0. /\ UNCHANGED <<db, scan, crashes>>
      /\ clock' = clock + 1
      /\ \A f \in Folders :
           \/ ver'[f] = clock'
           \/ ver'[f] = ver[f] /\ \A p \in InFolder(f) : files'[p] = files[p]
  BY DiskFrame
<1>1. TimesBounded'
  <2>1. \A f \in Folders : ver[f] \in Nat /\ folders[f].hash \in Nat /\ entry[f].ver \in Nat
    BY DEF TypeOK, FolderRow, Entry
  <2>2. folders' = folders /\ entry' = entry /\ clock \in Nat
    BY <1>0 DEF db, scan, TypeOK
  <2> QED
    BY <1>0, <2>1, <2>2 DEF ScanInvariant, TimesBounded
<1>2. EntriesOnlyInPhase1' /\ SnapFaithful'
  BY <1>0 DEF ScanInvariant, EntriesOnlyInPhase1, SnapFaithful, db, scan
<1>3. ASSUME ~doubled'
      PROVE  UniquePaths' /\ \A f \in Folders : EntryLocal(f)'
  <2>1. entry' = entry /\ tracks' = tracks /\ doubled' = doubled
    BY <1>0 DEF db, scan
  <2>2. ~doubled
    BY <1>3, <2>1
  <2>3. UniquePaths /\ \A f \in Folders : EntryLocal(f)
    BY <2>2 DEF ScanInvariant
  <2> QED
    BY <2>1, <2>3 DEF UniquePaths, NoDoubleMove, EntryLocal, Imports, Used
<1>4. ASSUME ~doubled', NEW f \in Folders
      PROVE  EntryCurrent(f)' /\ (HashCurrent(f) => Accurate(f))'
  <2>1. folders' = folders /\ tracks' = tracks /\ entry' = entry /\ ~doubled
    BY <1>0, <1>4 DEF db, scan
  <2>2. EntryLocal(f) /\ EntryCurrent(f) /\ (HashCurrent(f) => Accurate(f))
    BY <2>1 DEF ScanInvariant
  <2>3. CASE ver'[f] = clock'
    <3>1. clock \in Nat /\ folders[f].hash \in Nat /\ entry[f].ver \in Nat
      BY DEF TypeOK, FolderRow, Entry
    <3>2. folders[f].hash # ver'[f] /\ entry[f].ver # ver'[f]
      BY <1>0, <2>3, <3>1 DEF ScanInvariant, TimesBounded
    <3> QED
      BY <2>1, <3>2 DEF EntryCurrent, HashCurrent
  <2>4. CASE ver'[f] = ver[f] /\ \A p \in InFolder(f) : files'[p] = files[p]
    <3>1. OnDisk(f)' = OnDisk(f)
      BY <2>4 DEF OnDisk, InFolder
    <3>2. EntryCurrent(f)'
      BY <2>1, <2>2, <2>4, <3>1
      DEF EntryCurrent, EntryLocal, RowsIn, RowsAt, Used, Imports
    <3>3. \A i \in RowsIn(f) : tracks[i].path \in InFolder(f)
      BY DEF RowsIn, InFolder, TypeOK, Row
    <3>4. (HashCurrent(f) => Accurate(f))'
      BY <2>1, <2>2, <2>4, <3>1, <3>3 DEF HashCurrent, Accurate, RowsIn, RowsAt, Used
    <3> QED
      BY <3>2, <3>4
  <2> QED
    BY <1>0, <2>3, <2>4
<1> QED
  BY <1>1, <1>2, <1>3, <1>4 DEF ScanInvariant

\* What holds of the rows holds after a step that leaves rows and disk alone.
LEMMA SameRows ==
    ASSUME ScanInvariant, ~doubled, UNCHANGED <<files, ver, folders, tracks>>
    PROVE  UniquePaths' /\ \A f \in Folders : (HashCurrent(f) => Accurate(f))'
<1>1. UniquePaths /\ \A f \in Folders : HashCurrent(f) => Accurate(f)
  BY DEF ScanInvariant
<1>2. UniquePaths'
  BY <1>1 DEF UniquePaths, NoDoubleMove, Used
<1> QED
  BY <1>1, <1>2 DEF HashCurrent, Accurate, RowsIn, RowsAt, OnDisk, InFolder, Used

\* An empty entry says nothing.
LEMMA NoEntryFine ==
    ASSUME NEW f \in Folders, entry[f] = NoEntry
    PROVE  EntryLocal(f) /\ EntryCurrent(f)
BY DEF EntryLocal, EntryCurrent, NoEntry, Nothing, Imports

\* An entry stays right while the rows and the places of its folder do.
LEMMA SameEntry ==
    ASSUME TypeOK, NEW f \in Folders, EntryLocal(f), EntryCurrent(f),
           entry'[f] = entry[f], ver'[f] = ver[f], files' = files,
           \A i \in Ids : i \in RowsIn(f) \/ i \in RowsIn(f)' => tracks'[i] = tracks[i]
    PROVE  EntryLocal(f)' /\ EntryCurrent(f)'
<1>1. \A i \in Ids : tracks[i].path \in Paths
  BY DEF TypeOK, Row
<1>2. OnDisk(f)' = OnDisk(f) /\ Imports(f)' = Imports(f)
  BY DEF OnDisk, InFolder, Imports
<1>3. entry[f].gone \subseteq Ids
  BY DEF TypeOK, Entry
<1>4. EntryLocal(f)'
  BY <1>1, <1>2, <1>3 DEF EntryLocal, InFolder, Used, RowsIn
<1>5. ASSUME NEW i \in Ids PROVE i \in RowsIn(f)' <=> i \in RowsIn(f)
  BY DEF RowsIn, Used
<1>6. ASSUME NEW i \in Ids, i \in RowsIn(f) PROVE tracks'[i] = tracks[i]
  BY <1>6 DEF RowsIn, Used
<1>7. ASSUME NEW p \in InFolder(f), NEW i \in RowsAt(p)
      PROVE  i \in RowsAt(p)' /\ tracks'[i] = tracks[i]
  BY <1>7 DEF RowsAt, RowsIn, InFolder, Used
<1>8. EntryCurrent(f)'
  <2>1. SUFFICES ASSUME (entry[f].stage # "none" /\ entry[f].ver = ver[f])
                 PROVE  /\ entry[f].list = OnDisk(f)
                        /\ entry[f].stage = "processed" =>
                            /\ \A i \in RowsIn(f)' : tracks'[i].path \notin entry[f].list => i \in entry[f].gone
                            /\ \A p \in Imports(f) : entry[f].imports[p] = files[p]
                            /\ \A p \in entry[f].list \ Imports(f) : \E i \in RowsAt(p)' :
                                  tracks'[i].st = "ok" /\ files[p].mtime <= tracks'[i].mtime
    BY <1>2 DEF EntryCurrent
  <2>2. entry[f].list = OnDisk(f) /\ entry[f].list \subseteq InFolder(f)
    BY <2>1 DEF EntryCurrent, EntryLocal
  <2>3. ASSUME entry[f].stage = "processed", NEW i \in RowsIn(f)',
               tracks'[i].path \notin entry[f].list
        PROVE  i \in entry[f].gone
    <3>1. i \in Ids
      BY DEF RowsIn
    <3> QED
      BY <2>1, <2>3, <3>1, <1>5, <1>6 DEF EntryCurrent
  <2>4. ASSUME entry[f].stage = "processed", NEW p \in entry[f].list \ Imports(f)
        PROVE  \E i \in RowsAt(p)' : tracks'[i].st = "ok" /\ files[p].mtime <= tracks'[i].mtime
    BY <2>1, <2>2, <2>4, <1>7 DEF EntryCurrent
  <2> QED
    BY <2>1, <2>2, <2>3, <2>4 DEF EntryCurrent
<1> QED
  BY <1>4, <1>8

\* A folder stays accurate while its hash, its rows and its places do.
LEMMA SameFolder ==
    ASSUME TypeOK, NEW f \in Folders, HashCurrent(f) => Accurate(f),
           ver'[f] = ver[f], files' = files,
           folders'[f].st = "ok" => folders'[f].hash = folders[f].hash /\ folders[f].st = "ok",
           \A i \in Ids : i \in RowsIn(f) \/ i \in RowsIn(f)' => tracks'[i] = tracks[i]
    PROVE  (HashCurrent(f) => Accurate(f))'
<1>1. SUFFICES ASSUME HashCurrent(f)' PROVE Accurate(f)'
  OBVIOUS
<1>2. Accurate(f)
  BY <1>1 DEF HashCurrent
<1>3. OnDisk(f)' = OnDisk(f)
  BY DEF OnDisk, InFolder
<1>4. ASSUME NEW i \in RowsIn(f)', tracks'[i].st = "ok"
      PROVE  /\ files[tracks'[i].path] # NoFile
             /\ \/ files[tracks'[i].path].content = tracks'[i].content
                \/ files[tracks'[i].path].mtime <= tracks'[i].mtime
  <2>1. i \in Ids /\ tracks'[i] = tracks[i] /\ i \in RowsIn(f)
    BY <1>4 DEF RowsIn, Used
  <2> QED
    BY <1>2, <1>4, <2>1 DEF Accurate
<1>5. ASSUME NEW p \in OnDisk(f) PROVE \E i \in RowsAt(p)' : tracks'[i].st = "ok"
  <2>1. PICK i \in RowsAt(p) : tracks[i].st = "ok"
    BY <1>2 DEF Accurate
  <2>2. i \in RowsIn(f) /\ i \in Ids
    BY <2>1 DEF RowsIn, RowsAt, OnDisk, InFolder
  <2> QED
    BY <2>1, <2>2 DEF RowsAt, Used
<1> QED
  BY <1>3, <1>4, <1>5 DEF Accurate

\* The end of a scan, planned or not, and phase 3 leave the rows alone.
LEMMA EndInvariant ==
    ASSUME TypeOK, ScanInvariant,
           \/ LoadAlbums \/ (\E a \in Albums : RefreshAlbum(a))
           \/ UpdateLibraries \/ Crash \/ UNCHANGED vars
    PROVE  ScanInvariant'
<1>1. UNCHANGED <<clock, files, ver, folders, tracks, doubled>>
  BY DEF LoadAlbums, RefreshAlbum, UpdateLibraries, Crash, disk, db, vars, scan
<1>2. \/ \A f \in Folders : entry'[f] = NoEntry
      \/ UNCHANGED <<pc, entry, left, snap>>
      \/ entry' = entry /\ pc # "folders" /\ pc' # "moves"
  BY DEF LoadAlbums, RefreshAlbum, UpdateLibraries, Crash, Forget, vars, scan
<1>3. pc' = "moves" => UNCHANGED <<pc, entry, left, snap>>
  BY DEF LoadAlbums, RefreshAlbum, UpdateLibraries, Crash, Forget, vars, scan
<1>4. TimesBounded'
  <2>1. \A f \in Folders : ver[f] \in Nat /\ NoEntry.ver = 0
    BY DEF TypeOK, NoEntry
  <2> QED
    BY <1>1, <1>2, <2>1 DEF ScanInvariant, TimesBounded, TypeOK
<1>5. EntriesOnlyInPhase1' /\ SnapFaithful'
  BY <1>1, <1>2, <1>3 DEF ScanInvariant, EntriesOnlyInPhase1, SnapFaithful
<1>6. ASSUME ~doubled'
      PROVE  /\ UniquePaths'
             /\ \A f \in Folders : (HashCurrent(f) => Accurate(f))'
             /\ \A f \in Folders : EntryLocal(f)' /\ EntryCurrent(f)'
  <2>1. ~doubled
    BY <1>1, <1>6
  <2>2. ASSUME NEW f \in Folders, entry'[f] = entry[f]
        PROVE  EntryLocal(f)' /\ EntryCurrent(f)'
    BY <1>1, <2>1, <2>2, SameEntry DEF ScanInvariant
  <2>3. ASSUME NEW f \in Folders, entry'[f] = NoEntry
        PROVE  EntryLocal(f)' /\ EntryCurrent(f)'
    BY <2>3 DEF EntryLocal, EntryCurrent, NoEntry, Nothing, Imports
  <2> QED
    BY <1>1, <1>2, <2>1, <2>2, <2>3, SameRows
<1> QED
  BY <1>4, <1>5, <1>6 DEF ScanInvariant

\* Starting a scan changes nothing the invariant looks at.
LEMMA StartInvariant == ASSUME TypeOK, ScanInvariant, Start PROVE ScanInvariant'
<1>1. PICK full \in BOOLEAN, targets \in SUBSET Folders : StartScan(full, targets)
  BY ScanAssumption DEF Start
<1>2. /\ pc = "idle" /\ pc' = "folders"
      /\ UNCHANGED <<clock, files, ver, doubled, entry>>
      /\ PrepareLibrary(forced')
  BY <1>1 DEF StartScan, disk
<1>3. \A f \in Folders : folders'[f].st = folders[f].st /\ folders'[f].hash = folders[f].hash
  BY <1>2 DEF PrepareLibrary, TypeOK, FolderRow
<1>4. \A i \in Ids : /\ tracks'[i].st = tracks[i].st /\ tracks'[i].path = tracks[i].path
                     /\ tracks'[i].content = tracks[i].content
                     /\ tracks'[i].mtime = tracks[i].mtime
  BY <1>2 DEF PrepareLibrary, TypeOK, Row
<1>5. \A f \in Folders : entry'[f] = NoEntry
  BY <1>2 DEF ScanInvariant, EntriesOnlyInPhase1
<1>6. TimesBounded' /\ EntriesOnlyInPhase1' /\ SnapFaithful'
  BY <1>2, <1>3 DEF ScanInvariant, TimesBounded, EntriesOnlyInPhase1, SnapFaithful
<1>7. ASSUME ~doubled'
      PROVE  UniquePaths' /\ \A f \in Folders : (HashCurrent(f) => Accurate(f))'
  <2>1. ~doubled
    BY <1>2, <1>7
  <2>2. UniquePaths /\ \A f \in Folders : HashCurrent(f) => Accurate(f)
    BY <2>1 DEF ScanInvariant
  <2>3. UniquePaths'
    BY <1>4, <2>2 DEF UniquePaths, NoDoubleMove, Used
  <2>4. ASSUME NEW f \in Folders, HashCurrent(f)' PROVE Accurate(f)'
    <3>1. Accurate(f)
      BY <1>2, <1>3, <2>2, <2>4 DEF HashCurrent
    <3>2. RowsIn(f)' = RowsIn(f) /\ OnDisk(f)' = OnDisk(f) /\ RowsIn(f) \subseteq Ids
      BY <1>2, <1>4 DEF RowsIn, OnDisk, InFolder, Used
    <3>3. \A p \in Paths : RowsAt(p)' = RowsAt(p) /\ RowsAt(p) \subseteq Ids
      BY <1>4 DEF RowsAt, Used
    <3>4. OnDisk(f) \subseteq Paths
      BY DEF OnDisk, InFolder
    <3> QED
      BY <1>2, <1>4, <3>1, <3>2, <3>3, <3>4 DEF Accurate
  <2> QED
    BY <2>3, <2>4
<1>8. \A f \in Folders : EntryLocal(f)' /\ EntryCurrent(f)'
  BY <1>5 DEF EntryLocal, EntryCurrent, NoEntry, Nothing, Imports
<1> QED
  BY <1>6, <1>7, <1>8 DEF ScanInvariant

\* The walker lists a directory as it is.
LEMMA WalkInvariant ==
    ASSUME TypeOK, ScanInvariant, NEW g \in Folders, Walk(g) PROVE ScanInvariant'
<1>1. /\ pc = "folders" /\ pc' = "folders"
      /\ UNCHANGED <<clock, files, ver, folders, tracks, doubled>>
  BY DEF Walk, disk, db
<1>2. \A f \in Folders : f # g => entry'[f] = entry[f]
  BY DEF Walk, TypeOK
<1>3. \/ entry'[g] = entry[g]
      \/ entry'[g] = [NoEntry EXCEPT !.stage = "walked", !.ver = ver[g], !.list = OnDisk(g)]
  BY DEF Walk, TypeOK
<1>4. TimesBounded'
  <2>1. \A f \in Folders : ver[f] <= clock
    BY DEF ScanInvariant, TimesBounded
  <2>2. \A f \in Folders : entry'[f].ver = entry[f].ver \/ entry'[f].ver = ver[f]
    BY <1>2, <1>3 DEF NoEntry
  <2> QED
    BY <1>1, <2>1, <2>2 DEF ScanInvariant, TimesBounded
<1>5. EntriesOnlyInPhase1' /\ SnapFaithful'
  BY <1>1, <1>2, <1>3 DEF ScanInvariant, EntriesOnlyInPhase1, SnapFaithful, NoEntry
<1>6. ASSUME ~doubled'
      PROVE  /\ UniquePaths'
             /\ \A f \in Folders : (HashCurrent(f) => Accurate(f))'
             /\ \A f \in Folders : EntryLocal(f)' /\ EntryCurrent(f)'
  <2>1. ~doubled
    BY <1>1, <1>6
  <2>2. ASSUME NEW f \in Folders, entry'[f] = entry[f]
        PROVE  EntryLocal(f)' /\ EntryCurrent(f)'
    BY <1>1, <2>1, <2>2, SameEntry DEF ScanInvariant
  <2>3. ASSUME entry'[g] = [NoEntry EXCEPT !.stage = "walked", !.ver = ver[g], !.list = OnDisk(g)]
        PROVE  EntryLocal(g)' /\ EntryCurrent(g)'
    <3>1. /\ entry'[g].stage = "walked" /\ entry'[g].list = OnDisk(g)
          /\ entry'[g].imports = Nothing /\ entry'[g].gone = {}
      BY <2>3 DEF NoEntry
    <3>2. Imports(g)' = {}
      BY <3>1 DEF Imports, Nothing
    <3>3. OnDisk(g)' = OnDisk(g) /\ OnDisk(g) \subseteq InFolder(g)
      BY <1>1 DEF OnDisk, InFolder
    <3> QED
      BY <3>1, <3>2, <3>3 DEF EntryLocal, EntryCurrent, InFolder
  <2> QED
    BY <1>1, <1>2, <1>3, <2>1, <2>2, <2>3, SameRows
<1> QED
  BY <1>4, <1>5, <1>6 DEF ScanInvariant

\* What Process finds out about a directory that did not change since the
\* listing; "tags" would let it skip a file it cannot read.
LEMMA ProcessInvariant ==
    ASSUME TypeOK, ScanInvariant, "tags" \notin Faults, NEW g \in Folders, Process(g)
    PROVE  ScanInvariant'
<1>1. /\ pc = "folders" /\ pc' = "folders"
      /\ UNCHANGED <<clock, files, ver, folders, tracks, doubled>>
  BY DEF Process, disk, db
<1>2. \A f \in Folders : f # g => entry'[f] = entry[f]
  BY DEF Process, TypeOK
<1>e. entry[g] \in Entry /\ entry \in [Folders -> Entry]
  BY DEF TypeOK
<1>p. \/ /\ InfoFails(g)
         /\ entry'[g] = [entry[g] EXCEPT !.stage = "processed"]
      \/ /\ ~InfoFails(g)
         /\ \E read \in Readable(g) :
              entry'[g] = [entry[g] EXCEPT !.stage = "processed", !.gone = GoneRows(g),
                             !.imports = [p \in Paths |-> IF p \in read THEN files[p] ELSE NoFile]]
  BY <1>e DEF Process
<1>3. /\ entry'[g].ver = entry[g].ver /\ entry'[g].list = entry[g].list
      /\ entry'[g].stage = "processed"
      /\ entry[g].stage = "walked"
  <2>1. entry[g].stage = "walked"
    BY DEF Process
  <2> QED
    BY <1>e, <1>p, <2>1 DEF Entry
<1>4. TimesBounded'
  <2>1. \A f \in Folders : entry'[f].ver = entry[f].ver
    BY <1>2, <1>3
  <2> QED
    BY <1>1, <2>1 DEF ScanInvariant, TimesBounded
<1>5. EntriesOnlyInPhase1' /\ SnapFaithful'
  BY <1>1, <1>2, <1>3 DEF ScanInvariant, EntriesOnlyInPhase1, SnapFaithful, NoEntry
<1>6. ASSUME ~doubled'
      PROVE  /\ UniquePaths'
             /\ \A f \in Folders : (HashCurrent(f) => Accurate(f))'
             /\ \A f \in Folders : EntryLocal(f)' /\ EntryCurrent(f)'
  <2>1. ~doubled
    BY <1>1, <1>6
  <2>2. ASSUME NEW f \in Folders, f # g
        PROVE  EntryLocal(f)' /\ EntryCurrent(f)'
    BY <1>1, <1>2, <2>1, <2>2, SameEntry DEF ScanInvariant
  <2>3. EntryLocal(g) /\ EntryCurrent(g) /\ UniquePaths
    BY <2>1 DEF ScanInvariant
  <2>4. ASSUME InfoFails(g) PROVE EntryLocal(g)' /\ EntryCurrent(g)'
    <3>1. entry'[g].imports = entry[g].imports /\ entry'[g].gone = entry[g].gone
      BY <1>e, <1>p, <2>4 DEF Entry
    <3>2. Imports(g)' = Imports(g) /\ entry[g].gone \subseteq Ids
      BY <3>1 DEF Imports, TypeOK, Entry
    <3>3. entry[g].ver # ver[g]
      BY <1>3, <2>3, <2>4 DEF InfoFails, EntryCurrent, OnDisk
    <3>4. EntryLocal(g)'
      BY <1>1, <1>3, <2>3, <3>1, <3>2 DEF EntryLocal, InFolder, Used
    <3> QED
      BY <1>1, <1>3, <3>3, <3>4 DEF EntryCurrent
  <2>5. ASSUME ~InfoFails(g) PROVE EntryLocal(g)' /\ EntryCurrent(g)'
    <3>1. PICK read \in Readable(g) :
            /\ entry'[g].gone = GoneRows(g)
            /\ entry'[g].imports = [p \in Paths |-> IF p \in read THEN files[p] ELSE NoFile]
      BY <1>e, <1>p, <2>5 DEF Entry
    <3>2. read \subseteq ToImport(g) /\ ToImport(g) \subseteq entry[g].list
      BY DEF Readable, ToImport
    <3>3. entry[g].list \subseteq Paths
      BY DEF TypeOK, Entry
    <3>4. Imports(g)' \subseteq read
      BY <3>1, <3>2, <3>3 DEF Imports
    <3>5. \A p \in Imports(g)' : entry'[g].imports[p] = files[p]
      BY <3>1, <3>2, <3>3, <3>4
    <3>6. \A p : RowsAt(p) # {} => RowAt(p) \in Ids /\ Used(RowAt(p)) /\ tracks[RowAt(p)].path = p
      BY DEF RowAt, RowsAt
    <3>7. \A i \in GoneRows(g) : Used(i) /\ tracks[i].path \in InFolder(g) \ entry[g].list
      BY <3>6 DEF GoneRows
    <3>8. EntryLocal(g)'
      BY <1>1, <1>3, <2>3, <3>1, <3>2, <3>4, <3>7 DEF EntryLocal, InFolder, Used
    <3>9. ASSUME entry[g].ver = ver[g]
          PROVE  /\ entry[g].list = OnDisk(g)
                 /\ \A i \in RowsIn(g) : tracks[i].path \notin entry[g].list => i \in GoneRows(g)
                 /\ \A p \in entry[g].list \ Imports(g)' :
                      \E i \in RowsAt(p) : tracks[i].st = "ok" /\ files[p].mtime <= tracks[i].mtime
      <4>1. entry[g].list = OnDisk(g)
        BY <1>3, <2>3, <3>9 DEF EntryCurrent
      <4>2. ASSUME NEW i \in RowsIn(g), tracks[i].path \notin entry[g].list
            PROVE  i \in GoneRows(g)
        <5> DEFINE p == tracks[i].path
        <5>1. i \in Ids /\ p \in InFolder(g) /\ i \in RowsAt(p)
          BY DEF RowsIn, RowsAt, InFolder, TypeOK, Row
        <5>2. RowAt(p) = i
          BY <2>3, <3>6, <5>1 DEF UniquePaths, NoDoubleMove, RowsAt
        <5> QED
          BY <4>2, <5>1, <5>2 DEF GoneRows
      <4>3. read = ToImport(g)
        BY <3>2, <4>1 DEF Readable, OnDisk
      <4>4. ASSUME NEW p \in entry[g].list \ Imports(g)'
            PROVE  \E i \in RowsAt(p) : tracks[i].st = "ok" /\ files[p].mtime <= tracks[i].mtime
        <5>1. p \in Paths /\ files[p] # NoFile
          BY <3>3, <4>1 DEF OnDisk
        <5>2. p \notin ToImport(g)
          BY <3>1, <4>3, <4>4, <5>1 DEF Imports
        <5>3. RowsAt(p) # {} /\ ~(files[p].mtime > tracks[RowAt(p)].mtime)
                             /\ tracks[RowAt(p)].st # "missing"
          BY <4>4, <5>1, <5>2 DEF ToImport
        <5>4. /\ RowAt(p) \in RowsAt(p) /\ tracks[RowAt(p)] \in Row
              /\ tracks[RowAt(p)].st # "free"
          BY <3>6, <5>3 DEF RowsAt, TypeOK, Used
        <5>5. files[p] \in File
          BY <5>1 DEF TypeOK
        <5>6. tracks[RowAt(p)].st = "ok"
          BY <5>3, <5>4 DEF Row
        <5>7. files[p].mtime <= tracks[RowAt(p)].mtime
          BY <5>3, <5>4, <5>5 DEF Row, File
        <5> QED
          BY <5>4, <5>6, <5>7
      <4> QED
        BY <4>1, <4>2, <4>4
    <3>10. OnDisk(g)' = OnDisk(g) /\ RowsIn(g)' = RowsIn(g) /\ \A p : RowsAt(p)' = RowsAt(p)
      BY <1>1 DEF OnDisk, InFolder, RowsIn, RowsAt, Used
    <3>11. EntryCurrent(g)'
      BY <1>1, <1>3, <3>1, <3>5, <3>9, <3>10 DEF EntryCurrent
    <3> QED
      BY <3>8, <3>11
  <2> QED
    BY <1>1, <2>1, <2>2, <2>4, <2>5, SameRows
<1> QED
  BY <1>4, <1>5, <1>6 DEF ScanInvariant

\* Storing a folder replaces exactly what the entry says about it.
LEMMA PersistRows ==
    ASSUME TypeOK, NEW g \in Folders, NEW h \in Placement(g), StoreTracks(g, h)
    PROVE  /\ h \in [Imports(g) -> Ids]
           /\ \A p \in Imports(g) :
                /\ tracks'[h[p]].st = "ok" /\ tracks'[h[p]].path = p
                /\ tracks'[h[p]].content = entry[g].imports[p].content
                /\ tracks'[h[p]].mtime = entry[g].imports[p].mtime
                /\ RowsAt(p) # {} => h[p] \in RowsAt(p)
                /\ RowsAt(p) = {} => ~Used(h[p])
           /\ \A i \in Ids : (\A p \in Imports(g) : h[p] # i) =>
                IF i \in entry[g].gone
                THEN tracks'[i].st = "missing" /\ tracks'[i].path = tracks[i].path
                ELSE tracks'[i] = tracks[i]
<1>1. h \in [Imports(g) -> Ids] /\ Injective(h)
  BY DEF Placement
<1>2. \A p : RowsAt(p) # {} => RowAt(p) \in RowsAt(p)
  BY DEF RowAt
<1>3. \A p \in Imports(g) : IF RowsAt(p) # {} THEN h[p] \in RowsAt(p) ELSE ~Used(h[p])
  BY <1>2 DEF Placement
<1>4. ASSUME NEW p \in Imports(g)
      PROVE  /\ tracks'[h[p]].st = "ok" /\ tracks'[h[p]].path = p
             /\ tracks'[h[p]].content = entry[g].imports[p].content
             /\ tracks'[h[p]].mtime = entry[g].imports[p].mtime
  <2>1. \A q \in Imports(g) : h[q] = h[p] => q = p
    BY <1>1 DEF Injective
  <2>2. (CHOOSE q \in Imports(g) : h[q] = h[p]) = p
    BY <2>1
  <2>3. h[p] \in Ids
    BY <1>1
  <2> QED
    BY <2>2, <2>3 DEF StoreTracks
<1>5. ASSUME NEW i \in Ids, \A p \in Imports(g) : h[p] # i
      PROVE  IF i \in entry[g].gone
             THEN tracks'[i].st = "missing" /\ tracks'[i].path = tracks[i].path
             ELSE tracks'[i] = tracks[i]
  <2>1. tracks[i] \in Row
    BY DEF TypeOK
  <2>2. tracks'[i] = IF i \in entry[g].gone THEN [tracks[i] EXCEPT !.st = "missing"]
                     ELSE tracks[i]
    BY <1>5 DEF StoreTracks
  <2> QED
    BY <2>1, <2>2 DEF Row
<1> QED
  BY <1>1, <1>3, <1>4, <1>5

\* A folder is stored with the rows its files call for: if its hash is the one of
\* the directory now, then nothing changed since the listing.
LEMMA PersistInvariant ==
    ASSUME TypeOK, ScanInvariant, NEW g \in Folders, Persist(g) PROVE ScanInvariant'
<1>1. /\ pc = "folders" /\ pc' = "folders" /\ entry[g].stage = "processed"
      /\ UNCHANGED <<clock, files, ver, doubled>>
      /\ folders' = [folders EXCEPT ![g] = [st |-> "ok", hash |-> HashAtStore(g),
                                          fresh |-> TRUE, empty |-> entry[g].list = {}]]
      /\ entry' = [entry EXCEPT ![g] = NoEntry]
  BY DEF Persist, disk
<1>2. PICK h \in Placement(g) : StoreTracks(g, h)
  BY DEF Persist
<1>3. /\ folders'[g].st = "ok" /\ folders'[g].hash = HashAtStore(g)
      /\ entry'[g] = NoEntry
      /\ \A f \in Folders : f # g => folders'[f] = folders[f] /\ entry'[f] = entry[f]
  BY <1>1 DEF TypeOK
<1>4. TimesBounded'
  <2>1. \A f \in Folders : 1 <= ver[f] /\ ver[f] <= clock /\ folders[f].hash <= clock
                           /\ entry[f].ver <= clock
    BY DEF ScanInvariant, TimesBounded
  <2>2. clock \in Nat /\ \A f \in Folders : ver[f] \in Nat
    BY DEF TypeOK
  <2>3. folders'[g].hash <= clock /\ entry'[g].ver <= clock
    BY <1>3, <2>1, <2>2 DEF HashAtStore, NoHash, NoEntry
  <2> QED
    BY <1>1, <1>3, <2>1, <2>3 DEF TimesBounded
<1>5. EntriesOnlyInPhase1' /\ SnapFaithful'
  BY <1>1, <1>3 DEF ScanInvariant, EntriesOnlyInPhase1, SnapFaithful
<1>6. ASSUME ~doubled'
      PROVE  /\ UniquePaths'
             /\ \A f \in Folders : EntryLocal(f)' /\ EntryCurrent(f)'
             /\ \A f \in Folders : (HashCurrent(f) => Accurate(f))'
  <2>1. ~doubled
    BY <1>1, <1>6
  <2>2. /\ UniquePaths
        /\ \A f \in Folders : EntryLocal(f) /\ EntryCurrent(f)
        /\ \A f \in Folders : HashCurrent(f) => Accurate(f)
    BY <2>1 DEF ScanInvariant
  <2>3. /\ h \in [Imports(g) -> Ids]
        /\ \A p \in Imports(g) :
             /\ tracks'[h[p]].st = "ok" /\ tracks'[h[p]].path = p
             /\ tracks'[h[p]].content = entry[g].imports[p].content
             /\ tracks'[h[p]].mtime = entry[g].imports[p].mtime
             /\ RowsAt(p) # {} => h[p] \in RowsAt(p)
             /\ RowsAt(p) = {} => ~Used(h[p])
        /\ \A i \in Ids : (\A p \in Imports(g) : h[p] # i) =>
             IF i \in entry[g].gone
             THEN tracks'[i].st = "missing" /\ tracks'[i].path = tracks[i].path
             ELSE tracks'[i] = tracks[i]
    BY <1>2, PersistRows
  <2>4. /\ entry[g].list \subseteq InFolder(g)
        /\ Imports(g) \subseteq entry[g].list
        /\ entry[g].gone \subseteq Ids
        /\ \A i \in entry[g].gone : Used(i) /\ tracks[i].path \in InFolder(g) \ entry[g].list
    BY <2>2 DEF EntryLocal, TypeOK, Entry
  <2>5. ASSUME NEW p \in Imports(g), NEW i \in RowsAt(p) PROVE h[p] = i
    <3>1. h[p] \in RowsAt(p)
      BY <2>3
    <3> QED
      BY <2>2, <3>1 DEF UniquePaths, NoDoubleMove, RowsAt
  <2>6. ASSUME NEW p \in Imports(g), Used(h[p]) PROVE tracks[h[p]].path = p
    BY <2>3, <2>6 DEF RowsAt
  <2>7. ASSUME NEW i \in Ids, \A p \in Imports(g) : h[p] # i
        PROVE  /\ Used(i)' <=> Used(i)
               /\ tracks'[i].path = tracks[i].path
    BY <2>3, <2>4, <2>7 DEF Used
  <2>8. UniquePaths'
    <3>1. SUFFICES ASSUME NEW i \in Ids, NEW j \in Ids, Used(i)', Used(j)',
                          tracks'[i].path = tracks'[j].path
                   PROVE  i = j
      BY DEF UniquePaths, NoDoubleMove
    <3>2. ASSUME NEW a \in Ids, NEW b \in Ids, Used(b)', tracks'[a].path = tracks'[b].path,
                 NEW p \in Imports(g), h[p] = a
          PROVE  a = b
      <4>1. tracks'[a].path = p
        BY <2>3, <3>2
      <4>2. ASSUME NEW q \in Imports(g), h[q] = b PROVE a = b
        <5>1. tracks'[b].path = q
          BY <2>3, <4>2
        <5> QED
          BY <3>2, <4>1, <4>2, <5>1
      <4>3. ASSUME \A q \in Imports(g) : h[q] # b PROVE a = b
        <5>1. b \in RowsAt(p)
          BY <2>7, <3>2, <4>1, <4>3 DEF RowsAt
        <5> QED
          BY <2>5, <3>2, <5>1
      <4> QED
        BY <4>2, <4>3
    <3>3. CASE \E p \in Imports(g) : h[p] = i
      BY <3>1, <3>2, <3>3
    <3>4. CASE \E p \in Imports(g) : h[p] = j
      BY <3>1, <3>2, <3>4
    <3>5. ASSUME \A p \in Imports(g) : h[p] # i /\ h[p] # j PROVE i = j
      BY <2>2, <2>7, <3>1, <3>5 DEF UniquePaths, NoDoubleMove
    <3> QED
      BY <3>3, <3>4, <3>5
  <2>9. ASSUME NEW f \in Folders, f # g
        PROVE  EntryLocal(f)' /\ EntryCurrent(f)' /\ (HashCurrent(f) => Accurate(f))'
    <3>1. ASSUME NEW i \in Ids, i \in RowsIn(f) \/ i \in RowsIn(f)'
          PROVE  tracks'[i] = tracks[i]
      <4>1. \A p \in Imports(g) : FolderOf[p] = g
        BY <2>4 DEF InFolder
      <4>2. ASSUME NEW p \in Imports(g), h[p] = i PROVE FALSE
        BY <2>3, <2>6, <2>9, <3>1, <4>1, <4>2 DEF RowsIn
      <4>3. i \notin entry[g].gone
        <5>1. SUFFICES ASSUME i \in entry[g].gone PROVE FALSE
          OBVIOUS
        <5>2. FolderOf[tracks[i].path] = g
          BY <2>4, <5>1 DEF InFolder
        <5>3. tracks'[i].path = tracks[i].path
          BY <2>7, <4>2
        <5> QED
          BY <2>9, <3>1, <5>2, <5>3 DEF RowsIn
      <4> QED
        BY <2>3, <4>2, <4>3
    <3> QED
      BY <1>1, <1>3, <2>2, <2>9, <3>1, SameEntry, SameFolder
  <2>10. EntryLocal(g)' /\ EntryCurrent(g)'
    BY <1>3 DEF EntryLocal, EntryCurrent, NoEntry, Nothing, Imports
  <2>11. ASSUME HashCurrent(g)' PROVE Accurate(g)'
    <3>1. entry[g].ver = ver[g]
      <4>1. 1 <= ver[g] /\ ver[g] \in Nat
        BY DEF ScanInvariant, TimesBounded, TypeOK
      <4>2. HashAtStore(g) = ver[g]
        BY <1>1, <1>3, <2>11 DEF HashCurrent
      <4> QED
        BY <4>1, <4>2 DEF HashAtStore, NoHash
    <3>2. /\ entry[g].list = OnDisk(g)
          /\ \A i \in RowsIn(g) : tracks[i].path \notin entry[g].list => i \in entry[g].gone
          /\ \A p \in Imports(g) : entry[g].imports[p] = files[p]
          /\ \A p \in entry[g].list \ Imports(g) :
               \E i \in RowsAt(p) : tracks[i].st = "ok" /\ files[p].mtime <= tracks[i].mtime
      BY <1>1, <2>2, <3>1 DEF EntryCurrent
    <3>3. OnDisk(g)' = OnDisk(g) /\ OnDisk(g) \subseteq Paths
          /\ \A p \in OnDisk(g) : files[p] # NoFile
      BY <1>1 DEF OnDisk, InFolder
    <3>4. ASSUME NEW i \in RowsIn(g)', tracks'[i].st = "ok"
          PROVE  /\ files[tracks'[i].path] # NoFile
                 /\ \/ files[tracks'[i].path].content = tracks'[i].content
                    \/ files[tracks'[i].path].mtime <= tracks'[i].mtime
      <4>0. i \in Ids /\ Used(i)' /\ FolderOf[tracks'[i].path] = g
        BY DEF RowsIn
      <4>1. ASSUME NEW p \in Imports(g), h[p] = i
            PROVE  tracks'[i].path = p /\ files[p] # NoFile
                   /\ files[p].content = tracks'[i].content
        BY <2>3, <3>2, <4>1 DEF Imports
      <4>2. ASSUME \A p \in Imports(g) : h[p] # i
            PROVE  /\ files[tracks'[i].path] # NoFile
                   /\ files[tracks'[i].path].mtime <= tracks'[i].mtime
        <5> DEFINE p == tracks[i].path
        <5>1. i \notin entry[g].gone /\ tracks'[i] = tracks[i]
          BY <2>3, <3>4, <4>0, <4>2
        <5>2. i \in RowsIn(g) /\ i \in RowsAt(p)
          BY <4>0, <5>1 DEF RowsIn, RowsAt, Used
        <5>3. p \in entry[g].list
          BY <3>2, <5>1, <5>2
        <5>4. p \notin Imports(g)
          BY <2>5, <4>2, <5>2
        <5>5. PICK k \in RowsAt(p) : tracks[k].st = "ok" /\ files[p].mtime <= tracks[k].mtime
          BY <3>2, <5>3, <5>4
        <5>6. k = i
          BY <2>2, <5>2, <5>5 DEF UniquePaths, NoDoubleMove, RowsAt
        <5> QED
          BY <3>2, <3>3, <5>1, <5>3, <5>5, <5>6
      <4> QED
        BY <4>1, <4>2
    <3>5. ASSUME NEW p \in OnDisk(g) PROVE \E i \in RowsAt(p)' : tracks'[i].st = "ok"
      <4>1. CASE p \in Imports(g)
        <5>1. h[p] \in Ids
          BY <2>3, <4>1
        <5> QED
          BY <2>3, <4>1, <5>1 DEF RowsAt, Used
      <4>2. ASSUME p \notin Imports(g) PROVE \E i \in RowsAt(p)' : tracks'[i].st = "ok"
        <5>1. PICK i \in RowsAt(p) : tracks[i].st = "ok"
          BY <3>2, <4>2
        <5>2. i \in Ids /\ Used(i) /\ tracks[i].path = p
          BY <5>1 DEF RowsAt
        <5>3. \A q \in Imports(g) : h[q] # i
          BY <2>6, <4>2, <5>2
        <5>4. i \notin entry[g].gone
          BY <2>4, <3>2, <5>2
        <5>5. tracks'[i] = tracks[i]
          BY <2>3, <5>2, <5>3, <5>4
        <5> QED
          BY <5>1, <5>2, <5>5 DEF RowsAt, Used
      <4> QED
        BY <4>1, <4>2
    <3> QED
      BY <1>1, <3>3, <3>4, <3>5 DEF Accurate
  <2> QED
    BY <2>8, <2>9, <2>10, <2>11
<1> QED
  BY <1>4, <1>5, <1>6 DEF ScanInvariant

\* After an error the scan goes on as if the folder had not been read.
LEMMA PersistFailsInvariant ==
    ASSUME TypeOK, ScanInvariant, NEW g \in Folders, PersistFails(g) PROVE ScanInvariant'
<1>1. /\ pc = "folders" /\ pc' = "folders"
      /\ UNCHANGED <<clock, files, ver, folders, tracks, doubled>>
      /\ entry' = [entry EXCEPT ![g] = NoEntry]
  BY DEF PersistFails, disk, db
<1>2. /\ entry'[g] = NoEntry
      /\ \A f \in Folders : f # g => entry'[f] = entry[f]
  BY <1>1 DEF TypeOK
<1>3. TimesBounded'
  <2>1. \A f \in Folders : /\ 1 <= ver[f] /\ ver[f] <= clock
                           /\ folders[f].hash <= clock /\ entry[f].ver <= clock
    BY DEF ScanInvariant, TimesBounded
  <2>2. clock \in Nat /\ entry'[g].ver <= clock
    BY <1>2 DEF TypeOK, NoEntry
  <2> QED
    BY <1>1, <1>2, <2>1, <2>2 DEF TimesBounded
<1>4. EntriesOnlyInPhase1' /\ SnapFaithful'
  BY <1>1, <1>2 DEF ScanInvariant, EntriesOnlyInPhase1, SnapFaithful
<1>5. ASSUME ~doubled'
      PROVE  /\ UniquePaths'
             /\ \A f \in Folders : (HashCurrent(f) => Accurate(f))'
             /\ \A f \in Folders : EntryLocal(f)' /\ EntryCurrent(f)'
  <2>1. ~doubled
    BY <1>1, <1>5
  <2>2. ASSUME NEW f \in Folders, f # g
        PROVE  EntryLocal(f)' /\ EntryCurrent(f)'
    BY <1>1, <1>2, <2>1, <2>2, SameEntry DEF ScanInvariant
  <2>3. EntryLocal(g)' /\ EntryCurrent(g)'
    BY <1>2 DEF EntryLocal, EntryCurrent, NoEntry, Nothing, Imports
  <2> QED
    BY <1>1, <2>1, <2>2, <2>3, SameRows
<1> QED
  BY <1>3, <1>4, <1>5 DEF ScanInvariant

\* Finalizing phase 1 marks whole folders missing, with all their rows.
LEMMA FinalizeFoldersInvariant ==
    ASSUME TypeOK, ScanInvariant, FinalizeFolders PROVE ScanInvariant'
<1>1. /\ pc = "folders" /\ pc' \in {"idle", "missing"}
      /\ UNCHANGED <<clock, files, ver, doubled>>
      /\ MarkPending
  BY DEF FinalizeFolders, Forget, disk
<1>2. \A f \in Folders : entry'[f] = NoEntry
  <2>1. CASE failed
    BY <2>1 DEF FinalizeFolders, Forget
  <2>2. ASSUME ~failed, NEW f \in Folders PROVE entry'[f] = NoEntry
    <3>1. entry' = entry /\ entry[f].stage = "none"
      BY <2>2 DEF FinalizeFolders
    <3> QED
      BY <3>1 DEF ScanInvariant, EntriesOnlyInPhase1
  <2> QED
    BY <2>1, <2>2
<1>3. ASSUME NEW f \in Folders
      PROVE  /\ folders'[f].hash = folders[f].hash
             /\ IF f \in pending THEN folders'[f].st = "missing"
                ELSE folders'[f] = folders[f]
  <2>1. folders[f] \in FolderRow
    BY DEF TypeOK
  <2> QED
    BY <1>1, <2>1 DEF MarkPending, FolderRow
<1>4. ASSUME NEW i \in Ids
      PROVE  /\ tracks'[i].path = tracks[i].path
             /\ Used(i)' <=> Used(i)
             /\ FolderOf[tracks[i].path] \notin pending => tracks'[i] = tracks[i]
  <2>1. tracks[i] \in Row
    BY DEF TypeOK
  <2> QED
    BY <1>1, <2>1 DEF MarkPending, Row, Used
<1>5. TimesBounded'
  <2>1. \A f \in Folders : /\ 1 <= ver[f] /\ ver[f] <= clock /\ folders[f].hash <= clock
    BY DEF ScanInvariant, TimesBounded
  <2>2. clock \in Nat /\ NoEntry.ver = 0
    BY DEF TypeOK, NoEntry
  <2> QED
    BY <1>1, <1>2, <1>3, <2>1, <2>2 DEF TimesBounded
<1>6. EntriesOnlyInPhase1' /\ SnapFaithful'
  BY <1>1, <1>2 DEF EntriesOnlyInPhase1, SnapFaithful
<1>7. ASSUME ~doubled'
      PROVE  /\ UniquePaths'
             /\ \A f \in Folders : (HashCurrent(f) => Accurate(f))'
             /\ \A f \in Folders : EntryLocal(f)' /\ EntryCurrent(f)'
  <2>1. ~doubled
    BY <1>1, <1>7
  <2>2. UniquePaths /\ \A f \in Folders : HashCurrent(f) => Accurate(f)
    BY <2>1 DEF ScanInvariant
  <2>3. UniquePaths'
    BY <1>4, <2>2 DEF UniquePaths, NoDoubleMove
  <2>4. ASSUME NEW f \in Folders, f \notin pending PROVE (HashCurrent(f) => Accurate(f))'
    <3>1. \A i \in Ids : i \in RowsIn(f) \/ i \in RowsIn(f)' => tracks'[i] = tracks[i]
      BY <1>4, <2>4 DEF RowsIn
    <3> QED
      BY <1>1, <1>3, <2>2, <2>4, <3>1, SameFolder
  <2>5. ASSUME NEW f \in Folders, f \in pending PROVE (HashCurrent(f) => Accurate(f))'
    BY <1>3, <2>5 DEF HashCurrent
  <2>6. \A f \in Folders : EntryLocal(f)' /\ EntryCurrent(f)'
    BY <1>2 DEF EntryLocal, EntryCurrent, NoEntry, Nothing, Imports
  <2> QED
    BY <2>3, <2>4, <2>5, <2>6
<1> QED
  BY <1>5, <1>6, <1>7 DEF ScanInvariant

\* Outside phase 1 no folder is in the pipeline.
LEMMA AfterPhase1 ==
    ASSUME TypeOK, ScanInvariant, pc # "folders", pc' # "folders",
           UNCHANGED <<clock, ver, entry>>,
           \A f \in Folders : folders'[f].hash = folders[f].hash \/ folders'[f].hash = NoHash
    PROVE  /\ TimesBounded' /\ EntriesOnlyInPhase1'
           /\ \A f \in Folders : EntryLocal(f)' /\ EntryCurrent(f)'
<1>1. \A f \in Folders : entry[f] = NoEntry
  BY DEF ScanInvariant, EntriesOnlyInPhase1
<1>2. \A f \in Folders : EntryLocal(f)' /\ EntryCurrent(f)'
  BY <1>1 DEF EntryLocal, EntryCurrent, NoEntry, Nothing, Imports
<1>3. TimesBounded'
  BY DEF ScanInvariant, TimesBounded, TypeOK, NoHash
<1> QED
  BY <1>1, <1>2, <1>3 DEF EntriesOnlyInPhase1

\* Phase 2 reads the missing rows and their matches.
LEMMA LoadMissingInvariant == ASSUME TypeOK, ScanInvariant, LoadMissing PROVE ScanInvariant'
<1>1. /\ pc = "missing" /\ pc' = "moves" /\ snap' = tracks
      /\ \A i \in left' : tracks[i].st = "missing"
      /\ UNCHANGED <<clock, files, ver, folders, tracks, doubled, entry>>
  BY DEF LoadMissing, disk, db
<1>2. /\ TimesBounded' /\ EntriesOnlyInPhase1'
      /\ \A f \in Folders : EntryLocal(f)' /\ EntryCurrent(f)'
  BY <1>1, AfterPhase1
<1>3. SnapFaithful'
  BY <1>1 DEF SnapFaithful
<1>4. ASSUME ~doubled'
      PROVE  UniquePaths' /\ \A f \in Folders : (HashCurrent(f) => Accurate(f))'
  <2>1. ~doubled
    BY <1>1, <1>4
  <2> QED
    BY <1>1, <2>1, SameRows
<1> QED
  BY <1>2, <1>3, <1>4 DEF ScanInvariant

\* A missing row takes the place of its match, once.
LEMMA MoveTrackInvariant ==
    ASSUME TypeOK, ScanInvariant, NEW i \in Ids, MoveTrack(i) PROVE ScanInvariant'
<1>1. /\ pc = "moves" /\ pc' = "moves" /\ i \in left /\ left' = left \ {i}
      /\ UNCHANGED <<clock, files, ver, folders, entry, snap>>
  BY DEF MoveTrack, disk
<1>2. PICK j \in Targets(snap, i) :
        /\ tracks' = [tracks EXCEPT ![i] = [snap[j] EXCEPT !.recent = tracks[i].recent],
                                    ![j] = FreeRow]
        /\ doubled' = (doubled \/ tracks[j].st = "free")
  BY DEF MoveTrack
<1>3. j \in Ids /\ snap[j].st = "ok"
  BY DEF Targets, Matched
<1>4. /\ \A k \in left : snap[k].st = "missing" /\ tracks[k] = snap[k]
      /\ \A k \in Ids : snap[k].st = "ok" => tracks[k] = snap[k] \/ tracks[k].st = "free"
  BY <1>1 DEF ScanInvariant, SnapFaithful
<1>5. i # j /\ tracks[i].st = "missing"
  BY <1>1, <1>3, <1>4
<1>6. /\ tracks'[i] = [snap[j] EXCEPT !.recent = tracks[i].recent]
      /\ tracks'[j] = FreeRow
      /\ \A k \in Ids : k # i /\ k # j => tracks'[k] = tracks[k]
  BY <1>2, <1>3, <1>5 DEF TypeOK
<1>7. tracks'[j].st = "free"
  BY <1>6 DEF FreeRow
<1>8. /\ TimesBounded' /\ EntriesOnlyInPhase1'
      /\ \A f \in Folders : EntryLocal(f)' /\ EntryCurrent(f)'
  BY <1>1, AfterPhase1
<1>9. SnapFaithful'
  <2>1. \A k \in left' : k \in Ids /\ k # i /\ k # j
    BY <1>1, <1>3, <1>4 DEF TypeOK
  <2>2. \A k \in left' : snap[k].st = "missing" /\ tracks'[k] = snap[k]
    BY <1>1, <1>4, <1>6, <2>1
  <2>3. \A k \in Ids : snap[k].st = "ok" => k # i
    BY <1>1, <1>4
  <2>4. \A k \in Ids : snap[k].st = "ok" => tracks'[k] = snap[k] \/ tracks'[k].st = "free"
    BY <1>4, <1>6, <1>7, <2>3
  <2> QED
    BY <1>1, <2>2, <2>4 DEF SnapFaithful
<1>10. ASSUME ~doubled'
       PROVE  UniquePaths' /\ \A f \in Folders : (HashCurrent(f) => Accurate(f))'
  <2>1. ~doubled /\ tracks[j].st # "free"
    BY <1>2, <1>10
  <2>2. UniquePaths /\ \A f \in Folders : HashCurrent(f) => Accurate(f)
    BY <2>1 DEF ScanInvariant
  <2>3. tracks[j] = snap[j]
    BY <1>3, <1>4, <2>1
  <2>4. /\ tracks'[i].st = tracks[j].st /\ tracks'[i].path = tracks[j].path
        /\ tracks'[i].content = tracks[j].content /\ tracks'[i].mtime = tracks[j].mtime
    <3>1. tracks[j] \in Row
      BY <1>3 DEF TypeOK
    <3> QED
      BY <1>6, <2>3, <3>1 DEF Row
  <2> DEFINE old(k) == IF k = i THEN j ELSE k
  <2>5. ASSUME NEW k \in Ids, Used(k)'
        PROVE  /\ old(k) \in Ids /\ k # j
               /\ tracks'[k].st = tracks[old(k)].st /\ tracks'[k].path = tracks[old(k)].path
               /\ tracks'[k].content = tracks[old(k)].content
               /\ tracks'[k].mtime = tracks[old(k)].mtime
               /\ Used(old(k))
    BY <1>3, <1>6, <1>7, <2>4, <2>5 DEF Used
  <2>6. UniquePaths'
    BY <2>2, <2>5 DEF UniquePaths, NoDoubleMove
  <2>7. ASSUME NEW f \in Folders, HashCurrent(f)' PROVE Accurate(f)'
    <3>1. Accurate(f)
      BY <1>1, <2>2, <2>7 DEF HashCurrent
    <3>2. OnDisk(f)' = OnDisk(f)
      BY <1>1 DEF OnDisk, InFolder
    <3>3. ASSUME NEW k \in RowsIn(f)', tracks'[k].st = "ok"
          PROVE  /\ files[tracks'[k].path] # NoFile
                 /\ \/ files[tracks'[k].path].content = tracks'[k].content
                    \/ files[tracks'[k].path].mtime <= tracks'[k].mtime
      <4>1. k \in Ids /\ Used(k)' /\ FolderOf[tracks'[k].path] = f
        BY DEF RowsIn
      <4>2. old(k) \in RowsIn(f) /\ tracks[old(k)].st = "ok"
        BY <2>5, <3>3, <4>1 DEF RowsIn
      <4> QED
        BY <2>5, <3>1, <4>1, <4>2 DEF Accurate
    <3>4. ASSUME NEW p \in OnDisk(f) PROVE \E k \in RowsAt(p)' : tracks'[k].st = "ok"
      <4>1. PICK k \in RowsAt(p) : tracks[k].st = "ok"
        BY <3>1 DEF Accurate
      <4>2. k \in Ids /\ Used(k) /\ tracks[k].path = p /\ k # i
        BY <1>5, <4>1 DEF RowsAt
      <4>3. CASE k = j
        BY <2>4, <4>1, <4>2, <4>3 DEF RowsAt, Used
      <4>4. CASE k # j
        BY <1>6, <4>1, <4>2, <4>4 DEF RowsAt, Used
      <4> QED
        BY <4>3, <4>4
    <3> QED
      BY <1>1, <3>2, <3>3, <3>4 DEF Accurate
  <2> QED
    BY <2>6, <2>7
<1> QED
  BY <1>8, <1>9, <1>10 DEF ScanInvariant

\* Purging removes missing rows only.
LEMMA FinalizeMissingInvariant ==
    ASSUME TypeOK, ScanInvariant, FinalizeMissing PROVE ScanInvariant'
<1>1. /\ pc = "moves" /\ pc' = "touched"
      /\ UNCHANGED <<clock, files, ver, folders, doubled, entry>>
  BY DEF FinalizeMissing, disk
<1>2. \A i \in Ids : \/ tracks'[i] = tracks[i]
                     \/ tracks'[i] = FreeRow /\ tracks[i].st = "missing"
  <2> DEFINE purged == [i \in Ids |-> IF tracks[i].st = "missing" THEN FreeRow ELSE tracks[i]]
  <2>1. tracks' = tracks \/ tracks' = purged
    BY DEF FinalizeMissing
  <2>2. \A i \in Ids : \/ purged[i] = tracks[i]
                       \/ purged[i] = FreeRow /\ tracks[i].st = "missing"
    OBVIOUS
  <2> HIDE DEF purged
  <2> QED
    BY <2>1, <2>2
<1>3. /\ TimesBounded' /\ EntriesOnlyInPhase1'
      /\ \A f \in Folders : EntryLocal(f)' /\ EntryCurrent(f)'
  BY <1>1, AfterPhase1
<1>4. SnapFaithful'
  BY <1>1 DEF SnapFaithful
<1>5. \A i \in Ids : Used(i)' => tracks'[i] = tracks[i] /\ Used(i)
  <2>1. FreeRow.st = "free"
    BY DEF FreeRow
  <2> QED
    BY <1>2, <2>1 DEF Used
<1>6. ASSUME ~doubled'
      PROVE  UniquePaths' /\ \A f \in Folders : (HashCurrent(f) => Accurate(f))'
  <2>1. ~doubled
    BY <1>1, <1>6
  <2>2. UniquePaths /\ \A f \in Folders : HashCurrent(f) => Accurate(f)
    BY <2>1 DEF ScanInvariant
  <2>3. UniquePaths'
    BY <1>5, <2>2 DEF UniquePaths, NoDoubleMove
  <2>4. ASSUME NEW f \in Folders, HashCurrent(f)' PROVE Accurate(f)'
    <3>1. Accurate(f)
      BY <1>1, <2>2, <2>4 DEF HashCurrent
    <3>2. OnDisk(f)' = OnDisk(f)
      BY <1>1 DEF OnDisk, InFolder
    <3>3. \A i \in RowsIn(f)' : i \in RowsIn(f) /\ tracks'[i] = tracks[i]
      BY <1>5 DEF RowsIn
    <3>4. ASSUME NEW p \in OnDisk(f) PROVE \E i \in RowsAt(p)' : tracks'[i].st = "ok"
      <4>1. PICK i \in RowsAt(p) : tracks[i].st = "ok"
        BY <3>1 DEF Accurate
      <4> QED
        BY <1>2, <4>1 DEF RowsAt, Used
    <3> QED
      BY <1>1, <3>1, <3>2, <3>3, <3>4 DEF Accurate
  <2> QED
    BY <2>3, <2>4
<1> QED
  BY <1>3, <1>4, <1>6 DEF ScanInvariant

\* Removing a folder row removes its hash.
LEMMA CollectGarbageInvariant ==
    ASSUME TypeOK, ScanInvariant, CollectGarbage PROVE ScanInvariant'
<1>1. /\ pc = "albums" /\ pc' = "finish"
      /\ UNCHANGED <<clock, files, ver, tracks, doubled, entry>>
  BY DEF CollectGarbage, disk
<1>2. \A f \in Folders : folders'[f] = folders[f] \/ folders'[f] = NoRow
  BY DEF CollectGarbage
<1>3. NoRow.hash = NoHash /\ NoRow.st = "none"
  BY DEF NoRow
<1>4. /\ TimesBounded' /\ EntriesOnlyInPhase1'
      /\ \A f \in Folders : EntryLocal(f)' /\ EntryCurrent(f)'
  BY <1>1, <1>2, <1>3, AfterPhase1
<1>5. SnapFaithful'
  BY <1>1 DEF SnapFaithful
<1>6. ASSUME ~doubled'
      PROVE  UniquePaths' /\ \A f \in Folders : (HashCurrent(f) => Accurate(f))'
  <2>1. ~doubled
    BY <1>1, <1>6
  <2>2. UniquePaths /\ \A f \in Folders : HashCurrent(f) => Accurate(f)
    BY <2>1 DEF ScanInvariant
  <2>3. UniquePaths'
    BY <1>1, <2>2 DEF UniquePaths, NoDoubleMove, Used
  <2>4. ASSUME NEW f \in Folders PROVE (HashCurrent(f) => Accurate(f))'
    <3>1. folders'[f].st = "ok" => folders'[f].hash = folders[f].hash /\ folders[f].st = "ok"
      BY <1>2, <1>3
    <3> QED
      BY <1>1, <2>2, <3>1, SameFolder
  <2> QED
    BY <2>3, <2>4
<1> QED
  BY <1>4, <1>5, <1>6 DEF ScanInvariant

\* The ids of the first state tell its files apart.
LEMMA InitIdsInjective == InitIds \in [Paths -> Ids] /\ Injective(InitIds)
BY IdsAssumption DEF InitIds

\* A library that was scanned has one row for each of its files, and one that was
\* not has no row and no hash.
LEMMA InitInvariant == Init => ScanInvariant
<1>1. SUFFICES ASSUME Init PROVE ScanInvariant
  OBVIOUS
<1>2. /\ clock = 1 /\ pc = "idle" /\ ver = [f \in Folders |-> 1]
      /\ entry = [f \in Folders |-> NoEntry]
      /\ files = [p \in Paths |-> IF InitFiles[p] = NoFile THEN NoFile
                                  ELSE [content |-> InitFiles[p], mtime |-> 1]]
  BY <1>1 DEF Init
<1>3. PICK imported \in Imported :
        /\ tracks = IF imported THEN InitTracks ELSE FreeTable
        /\ folders = [f \in Folders |->
             IF imported /\ f \in InitDirs
             THEN [st |-> "ok", hash |-> 1, fresh |-> FALSE, empty |-> FALSE] ELSE NoRow]
  BY <1>1 DEF Init
<1>4. NoRow.st = "none" /\ NoRow.hash = 0 /\ NoEntry.ver = 0
  BY DEF NoRow, NoHash, NoEntry
<1>5. TimesBounded
  BY <1>2, <1>3, <1>4 DEF TimesBounded
<1>6. EntriesOnlyInPhase1 /\ SnapFaithful
  BY <1>2 DEF EntriesOnlyInPhase1, SnapFaithful
<1>7. \A f \in Folders : EntryLocal(f) /\ EntryCurrent(f)
  BY <1>2 DEF EntryLocal, EntryCurrent, NoEntry, Nothing, Imports
<1>8. ASSUME NEW i \in Ids, Used(i)
      PROVE  \E p \in Paths : /\ InitFiles[p] # NoFile /\ InitIds[p] = i
                              /\ imported /\ tracks[i].st = "ok" /\ tracks[i].path = p
                              /\ tracks[i].content = InitFiles[p]
  <2>1. tracks = InitTracks /\ imported
    <3>1. FreeTable[i].st = "free"
      BY DEF FreeTable, FreeRow
    <3> QED
      BY <1>3, <1>8, <3>1 DEF Used
  <2>2. \E p \in Paths : InitFiles[p] # NoFile /\ InitIds[p] = i
    BY <1>8, <2>1 DEF InitTracks, Used, FreeRow
  <2>3. PICK p \in Paths :
          /\ InitFiles[p] # NoFile /\ InitIds[p] = i
          /\ p = CHOOSE q \in Paths : InitFiles[q] # NoFile /\ InitIds[q] = i
    BY <2>2
  <2>4. tracks[i] = [st |-> "ok", path |-> p, content |-> InitFiles[p], mtime |-> 1,
                     recent |-> FALSE]
    BY <2>1, <2>2, <2>3 DEF InitTracks
  <2>5. tracks[i].st = "ok" /\ tracks[i].path = p /\ tracks[i].content = InitFiles[p]
    BY <2>4
  <2> QED
    BY <2>1, <2>3, <2>5
<1>9. UniquePaths
  BY <1>8 DEF UniquePaths, NoDoubleMove
<1>10. ASSUME NEW f \in Folders, HashCurrent(f) PROVE Accurate(f)
  <2>1. imported
    BY <1>3, <1>4, <1>10 DEF HashCurrent
  <2>2. ASSUME NEW i \in RowsIn(f)
        PROVE  /\ files[tracks[i].path] # NoFile
               /\ files[tracks[i].path].content = tracks[i].content
    <3>1. PICK p \in Paths : InitFiles[p] # NoFile /\ tracks[i].path = p
                             /\ tracks[i].content = InitFiles[p]
      BY <1>8 DEF RowsIn
    <3>2. files[p] = [content |-> InitFiles[p], mtime |-> 1]
      BY <1>2, <3>1
    <3>3. files[p] \in File
      <4>1. InitFiles[p] \in Contents
        BY <3>1, ScanAssumption
      <4> QED
        BY <3>2, <4>1 DEF File
    <3>4. files[p] # NoFile
      BY <3>3, ScanAssumption
    <3> QED
      BY <3>1, <3>2, <3>4
  <2>3. ASSUME NEW p \in OnDisk(f) PROVE \E i \in RowsAt(p) : tracks[i].st = "ok"
    <3>1. p \in Paths /\ InitFiles[p] # NoFile
      BY <1>2 DEF OnDisk, InFolder
    <3> DEFINE i == InitIds[p]
    <3>2. i \in Ids
      BY <3>1, InitIdsInjective
    <3>3. (CHOOSE q \in Paths : InitFiles[q] # NoFile /\ InitIds[q] = i) = p
      <4>1. \A q \in Paths : InitIds[q] = i => q = p
        BY <3>1, InitIdsInjective DEF Injective
      <4> QED
        BY <3>1, <4>1
    <3>4. tracks = InitTracks
      BY <1>3, <2>1
    <3>5. tracks[i] = [st |-> "ok", path |-> p, content |-> InitFiles[p], mtime |-> 1,
                       recent |-> FALSE]
      BY <3>1, <3>2, <3>3, <3>4 DEF InitTracks
    <3> QED
      BY <3>2, <3>5 DEF RowsAt, Used
  <2> QED
    BY <2>2, <2>3 DEF Accurate
<1> QED
  BY <1>5, <1>6, <1>7, <1>9, <1>10 DEF ScanInvariant

LEMMA NextInvariant ==
    ASSUME "tags" \notin Faults, TypeOK, ScanInvariant, [Next]_vars
    PROVE  ScanInvariant'
BY DiskInvariant, StartInvariant, WalkInvariant, ProcessInvariant, PersistInvariant,
   PersistFailsInvariant, FinalizeFoldersInvariant, LoadMissingInvariant, MoveTrackInvariant,
   FinalizeMissingInvariant, CollectGarbageInvariant, EndInvariant
DEF Next, ScanStep

\* The inductive invariant: what each folder in the pipeline knows about its
\* directory and its rows, and what phase 2's copy of the rows still says, hold
\* in every reachable state when no file is skipped as unreadable.
THEOREM ScanInvariantHolds ==
    ASSUME "tags" \notin Faults
    PROVE  Spec => []ScanInvariant
<1>1. Init => TypeOK /\ ScanInvariant
  BY InitTypeOK, InitInvariant
<1>2. TypeOK /\ ScanInvariant /\ [Next]_vars => ScanInvariant'
  BY NextInvariant
<1> QED
  BY <1>1, <1>2, TypeCorrect, PTL DEF Spec

\* Skipping a folder whose stored hash matches the directory is sound, for every
\* library, however files change while scans run and wherever scans stop.
THEOREM SkippingIsSound ==
    ASSUME "tags" \notin Faults
    PROVE  Spec => []SkippedFoldersAccurate
<1>1. ScanInvariant => SkippedFoldersAccurate
  BY DEF ScanInvariant, SkippedFoldersAccurate
<1> QED
  BY <1>1, ScanInvariantHolds, PTL

-----------------------------------------------------------------------------
(* The album invariant. *)

\* An album's summary depends on its tracks' places, tags and missing flags.
LEMMA SummaryOf ==
    ASSUME NEW a, NEW r
    PROVE  r \in Summary(a) <=>
             \E i \in Ids : Used(i) /\ AlbumOf[tracks[i].content] = a /\ r = Part(tracks[i])
BY DEF Summary

LEMMA SummaryOfNext ==
    ASSUME NEW a, NEW r
    PROVE  r \in Summary(a)' <=>
             \E i \in Ids : Used(i)' /\ AlbumOf[tracks'[i].content] = a /\ r = Part(tracks'[i])
BY DEF Summary, Used, Part

\* A step after which every row says what some row said before adds nothing to
\* an album.
LEMMA SummaryShrinks ==
    ASSUME \A i \in Ids : Used(i)' =>
             \E k \in Ids : /\ Used(k) /\ tracks'[i].content = tracks[k].content
                            /\ Part(tracks'[i]) = Part(tracks[k])
    PROVE  \A a : Summary(a)' \subseteq Summary(a)
<1>1. ASSUME NEW a, NEW r \in Summary(a)' PROVE r \in Summary(a)
  <2>1. PICK i \in Ids : Used(i)' /\ AlbumOf[tracks'[i].content] = a /\ r = Part(tracks'[i])
    BY <1>1, SummaryOfNext
  <2>2. PICK k \in Ids : /\ Used(k) /\ tracks'[i].content = tracks[k].content
                         /\ Part(tracks'[i]) = Part(tracks[k])
    BY <2>1
  <2> QED
    BY <2>1, <2>2, SummaryOf
<1> QED
  BY <1>1

\* Such a step leaves the albums complete if it leaves them alone.
LEMMA SettledKept ==
    ASSUME SettledAlbumsComplete, UNCHANGED albums,
           \A a : Summary(a)' \subseteq Summary(a)
    PROVE  SettledAlbumsComplete'
BY DEF SettledAlbumsComplete, Settled

\* Users, and the steps of a scan that leave tracks and albums alone.
LEMMA SameAlbums ==
    ASSUME AlbumInvariant, UNCHANGED <<tracks, albums, left, stale, snap, pc>>
    PROVE  AlbumInvariant'
BY DEF AlbumInvariant, SnapFaithful, MatchesKept, SettledAlbumsComplete, Settled,
       RefreshedAlbumsComplete, Summary, Used, Part

\* Between the phases that read rows or albums, settled albums are all there is.
LEMMA OnlySettled ==
    ASSUME SettledAlbumsComplete', pc' \notin {"moves", "albums", "finish"}
    PROVE  AlbumInvariant'
BY DEF AlbumInvariant, SnapFaithful, MatchesKept, RefreshedAlbumsComplete

LEMMA InitAlbums == Init => AlbumInvariant
<1>1. SUFFICES ASSUME Init PROVE AlbumInvariant
  OBVIOUS
<1>2. \A a \in Albums : albums[a].used => albums[a].parts = Summary(a)
  BY <1>1 DEF Init, NoAlbum
<1> QED
  BY <1>1, <1>2
  DEF Init, AlbumInvariant, SnapFaithful, MatchesKept, RefreshedAlbumsComplete,
      SettledAlbumsComplete, Settled

LEMMA StartAlbums == ASSUME TypeOK, AlbumInvariant, Start PROVE AlbumInvariant'
<1>1. PICK req \in Requests : StartScan(req[1], req[2])
  BY DEF Start
<1>2. PrepareLibrary(forced') /\ UNCHANGED albums /\ pc' = "folders"
  BY <1>1 DEF StartScan
<1>3. \A i \in Ids : /\ tracks'[i].st = tracks[i].st
                     /\ tracks'[i].path = tracks[i].path
                     /\ tracks'[i].content = tracks[i].content
  <2>1. CASE library.started
    BY <1>2, <2>1 DEF PrepareLibrary
  <2>2. CASE ~library.started
    <3>1. tracks' = [i \in Ids |-> [tracks[i] EXCEPT !.recent = FALSE]]
      BY <1>2, <2>2 DEF PrepareLibrary
    <3> QED
      BY <3>1 DEF TypeOK, Row
  <2> QED
    BY <2>1, <2>2
<1>4. \A a : Summary(a)' \subseteq Summary(a)
  BY <1>3, SummaryShrinks DEF Used, Part
<1> QED
  BY <1>2, <1>4, SettledKept, OnlySettled DEF AlbumInvariant

\* A folder is stored together with every album one of its rows is in.
LEMMA PersistAlbums ==
    ASSUME TypeOK, AlbumInvariant, NEW f \in Folders, Persist(f) PROVE AlbumInvariant'
<1> DEFINE g == CHOOSE h \in Placement(f) : TRUE
<1>1. StoreTracks(f, g) /\ StoreAlbums(f) /\ pc = "folders" /\ pc' = "folders"
  BY DEF Persist
<1>2. SUFFICES ASSUME NEW a \in Albums, Settled(a)', NEW r \in Summary(a)'
               PROVE  r \in albums'[a].parts
  BY <1>1, OnlySettled DEF SettledAlbumsComplete
<1>3. /\ albums'[a] = albums[a] /\ Settled(a)
      /\ \A p \in Imports(f) : AlbumOf[entry[f].imports[p].content] # a
      /\ \A i \in entry[f].gone : AlbumOf[tracks[i].content] # a
  <2>1. albums'[a].used /\ ~albums'[a].touched
    BY <1>2 DEF Settled
  <2>2. \A p \in Imports(f) : AlbumOf[entry[f].imports[p].content] # a
    BY <1>1, <2>1 DEF StoreAlbums
  <2>3. \A i \in entry[f].gone : AlbumOf[tracks[i].content] # a
    <3>1. SUFFICES ASSUME \E i \in entry[f].gone : AlbumOf[tracks[i].content] = a
                   PROVE  FALSE
      OBVIOUS
    <3>2. albums'[a] = [albums[a] EXCEPT !.touched = albums[a].used]
      BY <1>1, <2>2, <3>1 DEF StoreAlbums
    <3> QED
      BY <2>1, <3>2 DEF TypeOK, Album
  <2>4. albums'[a] = albums[a]
    BY <1>1, <2>2, <2>3 DEF StoreAlbums
  <2> QED
    BY <2>1, <2>2, <2>3, <2>4 DEF Settled
<1>4. PICK i \in Ids : Used(i)' /\ AlbumOf[tracks'[i].content] = a /\ r = Part(tracks'[i])
  BY <1>2, SummaryOfNext
<1>5. tracks'[i] = tracks[i]
  <2>1. ~ \E p \in Imports(f) : g[p] = i
    <3>1. SUFFICES ASSUME \E p \in Imports(f) : g[p] = i PROVE FALSE
      OBVIOUS
    <3>2. PICK p \in Imports(f) : tracks'[i].content = entry[f].imports[p].content
      <4> DEFINE p == CHOOSE q \in Imports(f) : g[q] = i
      <4>1. p \in Imports(f) /\ tracks'[i].content = entry[f].imports[p].content
        BY <1>1, <3>1 DEF StoreTracks
      <4> QED
        BY <4>1
    <3> QED
      BY <1>3, <1>4, <3>2
  <2>2. i \notin entry[f].gone
    <3>1. SUFFICES ASSUME i \in entry[f].gone PROVE FALSE
      OBVIOUS
    <3>2. tracks'[i] = [tracks[i] EXCEPT !.st = "missing"]
      BY <1>1, <2>1, <3>1 DEF StoreTracks
    <3>3. tracks'[i].content = tracks[i].content
      BY <3>2 DEF TypeOK, Row
    <3> QED
      BY <1>3, <1>4, <3>1, <3>3
  <2> QED
    BY <1>1, <2>1, <2>2 DEF StoreTracks
<1>6. r \in Summary(a)
  BY <1>4, <1>5, SummaryOf DEF Used
<1> QED
  BY <1>3, <1>6 DEF AlbumInvariant, SettledAlbumsComplete

\* The tracks of removed folders are in albums that know a place in one of them.
LEMMA FinalizeFoldersAlbums ==
    ASSUME TypeOK, AlbumInvariant, FinalizeFolders PROVE AlbumInvariant'
<1>1. MarkPending /\ pc' \in {"idle", "missing"}
  BY DEF FinalizeFolders, Forget
<1>2. SUFFICES ASSUME NEW a \in Albums, Settled(a)', NEW r \in Summary(a)'
               PROVE  r \in albums'[a].parts
  BY <1>1, OnlySettled DEF SettledAlbumsComplete
<1>3. /\ albums'[a] = albums[a] /\ Settled(a)
      /\ pending # {} => \A q \in albums[a].parts : folders'[FolderOf[q.path]].st # "missing"
  <2>1. albums'[a].used /\ ~albums'[a].touched
    BY <1>2 DEF Settled
  <2>2. pending # {} => \A q \in albums[a].parts : folders'[FolderOf[q.path]].st # "missing"
    <3>1. SUFFICES ASSUME pending # {},
                          \E q \in albums[a].parts : folders'[FolderOf[q.path]].st = "missing"
                   PROVE  FALSE
      OBVIOUS
    <3>2. albums'[a] = [albums[a] EXCEPT !.touched = albums[a].used]
      BY <1>1, <3>1 DEF MarkPending
    <3> QED
      BY <2>1, <3>2 DEF TypeOK, Album
  <2>3. albums'[a] = albums[a]
    BY <1>1, <2>2 DEF MarkPending
  <2> QED
    BY <2>1, <2>2, <2>3 DEF Settled
<1>4. PICK i \in Ids : Used(i)' /\ AlbumOf[tracks'[i].content] = a /\ r = Part(tracks'[i])
  BY <1>2, SummaryOfNext
<1>5. CASE tracks[i].st = "ok" /\ FolderOf[tracks[i].path] \in pending
  <2>1. tracks'[i] = [tracks[i] EXCEPT !.st = "missing"]
    BY <1>1, <1>5 DEF MarkPending
  <2>2. tracks'[i].content = tracks[i].content
    BY <2>1 DEF TypeOK, Row
  <2>3. Part(tracks[i]) \in albums[a].parts
    <3>1. Part(tracks[i]) \in Summary(a)
      BY <1>4, <1>5, <2>2, SummaryOf DEF Used
    <3> QED
      BY <1>3, <3>1 DEF AlbumInvariant, SettledAlbumsComplete
  <2>4. Part(tracks[i]).path = tracks[i].path
    BY DEF Part
  <2>5. folders'[FolderOf[tracks[i].path]].st = "missing"
    <3>1. FolderOf[tracks[i].path] \in Folders
      BY <1>5 DEF TypeOK
    <3>2. folders'[FolderOf[tracks[i].path]] =
            [folders[FolderOf[tracks[i].path]] EXCEPT !.st = "missing", !.fresh = TRUE]
      BY <1>1, <1>5, <3>1 DEF MarkPending
    <3> QED
      BY <3>1, <3>2 DEF TypeOK, FolderRow
  <2> QED
    BY <1>3, <1>5, <2>3, <2>4, <2>5
<1>6. CASE ~(tracks[i].st = "ok" /\ FolderOf[tracks[i].path] \in pending)
  <2>1. tracks'[i] = tracks[i]
    BY <1>1, <1>6 DEF MarkPending
  <2>2. r \in Summary(a)
    BY <1>4, <2>1, SummaryOf DEF Used
  <2> QED
    BY <1>3, <2>2 DEF AlbumInvariant, SettledAlbumsComplete
<1> QED
  BY <1>5, <1>6

LEMMA LoadMissingAlbums == ASSUME TypeOK, AlbumInvariant, LoadMissing PROVE AlbumInvariant'
<1>1. /\ pc' = "moves" /\ snap' = tracks /\ tracks' = tracks /\ albums' = albums
      /\ \A i \in left' : tracks[i].st = "missing"
  BY DEF LoadMissing, db
<1>2. SnapFaithful'
  BY <1>1 DEF SnapFaithful
<1>3. MatchesKept'
  BY <1>1 DEF MatchesKept, Used, Part
<1>4. SettledAlbumsComplete'
  BY <1>1 DEF AlbumInvariant, SettledAlbumsComplete, Settled, Summary, Used, Part
<1> QED
  BY <1>1, <1>2, <1>3, <1>4 DEF AlbumInvariant, RefreshedAlbumsComplete

\* A missing row becomes what its match was when phase 2 read it: that is in the
\* album already, although another row may have taken the match over since.
LEMMA MoveTrackAlbums ==
    ASSUME TypeOK, AlbumInvariant, NEW i \in Ids, MoveTrack(i) PROVE AlbumInvariant'
<1>1. /\ pc = "moves" /\ pc' = "moves" /\ i \in left /\ left' = left \ {i}
      /\ UNCHANGED <<albums, snap>>
  BY DEF MoveTrack
<1>2. PICK j \in Targets(snap, i) :
        tracks' = [tracks EXCEPT ![i] = [snap[j] EXCEPT !.recent = tracks[i].recent],
                                 ![j] = FreeRow]
  BY DEF MoveTrack
<1>3. j \in Ids /\ snap[j].st = "ok"
  BY DEF Targets, Matched
<1>4. /\ \A k \in left : snap[k].st = "missing" /\ tracks[k] = snap[k]
      /\ \A k \in Ids : snap[k].st = "ok" => tracks[k] = snap[k] \/ tracks[k].st = "free"
      /\ \A k \in Ids : snap[k].st = "ok" =>
           \E m \in Ids : Used(m) /\ Part(tracks[m]) = Part(snap[k])
  BY <1>1 DEF AlbumInvariant, SnapFaithful, MatchesKept
<1>5. i # j /\ tracks[i].st = "missing"
  BY <1>1, <1>3, <1>4
<1>6. /\ tracks'[i] = [snap[j] EXCEPT !.recent = tracks[i].recent]
      /\ tracks'[j] = FreeRow
      /\ \A k \in Ids : k # i /\ k # j => tracks'[k] = tracks[k]
  BY <1>2, <1>3, <1>5 DEF TypeOK
<1>7. tracks'[j].st = "free"
  BY <1>6 DEF FreeRow
<1>8. /\ tracks'[i].st = "ok" /\ tracks'[i].content = snap[j].content
      /\ Part(tracks'[i]) = Part(snap[j])
  <2>1. snap[j] \in Row
    BY <1>3 DEF TypeOK
  <2> QED
    BY <1>3, <1>6, <2>1 DEF Row, Part
<1>9. SnapFaithful'
  <2>1. \A k \in left' : k \in Ids /\ k # i /\ k # j
    BY <1>1, <1>3, <1>4 DEF TypeOK
  <2>2. \A k \in left' : snap[k].st = "missing" /\ tracks'[k] = snap[k]
    BY <1>1, <1>4, <1>6, <2>1
  <2>3. \A k \in Ids : snap[k].st = "ok" => k # i
    BY <1>1, <1>4
  <2>4. \A k \in Ids : snap[k].st = "ok" => tracks'[k] = snap[k] \/ tracks'[k].st = "free"
    BY <1>4, <1>6, <1>7, <2>3
  <2> QED
    BY <1>1, <2>2, <2>4 DEF SnapFaithful
<1>10. ASSUME NEW k \in Ids, snap[k].st = "ok"
       PROVE  \E m \in Ids : Used(m)' /\ Part(tracks'[m]) = Part(snap[k])
  <2>1. PICK m \in Ids : Used(m) /\ Part(tracks[m]) = Part(snap[k])
    BY <1>4, <1>10
  <2>2. m # i
    BY <1>5, <1>10, <2>1 DEF Part
  <2>3. CASE m = j
    BY <1>3, <1>4, <1>8, <2>1, <2>3 DEF Used
  <2>4. CASE m # j
    BY <1>6, <2>1, <2>2, <2>4 DEF Used
  <2> QED
    BY <2>3, <2>4
<1>11. MatchesKept'
  BY <1>1, <1>10 DEF MatchesKept, Used, Part
<1>12. \A k \in Ids : Used(k)' =>
         \E m \in Ids : /\ Used(m) /\ tracks'[k].content = tracks[m].content
                        /\ Part(tracks'[k]) = Part(tracks[m])
  <2>1. ASSUME NEW k \in Ids, Used(k)', k = i
        PROVE  \E m \in Ids : /\ Used(m) /\ tracks'[k].content = tracks[m].content
                              /\ Part(tracks'[k]) = Part(tracks[m])
    <3>1. PICK m \in Ids : Used(m) /\ Part(tracks[m]) = Part(snap[j])
      BY <1>3, <1>4
    <3>2. tracks[m].content = snap[j].content
      BY <3>1 DEF Part
    <3> QED
      BY <1>8, <2>1, <3>1, <3>2
  <2>2. ASSUME NEW k \in Ids, Used(k)', k # i
        PROVE  Used(k) /\ tracks'[k] = tracks[k]
    BY <1>6, <1>7, <2>2 DEF Used
  <2> QED
    BY <2>1, <2>2
<1>13. SettledAlbumsComplete'
  BY <1>1, <1>12, SummaryShrinks, SettledKept DEF AlbumInvariant
<1> QED
  BY <1>1, <1>9, <1>11, <1>13 DEF AlbumInvariant, RefreshedAlbumsComplete

LEMMA FinalizeMissingAlbums ==
    ASSUME TypeOK, AlbumInvariant, FinalizeMissing PROVE AlbumInvariant'
<1>1. pc' = "touched" /\ UNCHANGED albums
  BY DEF FinalizeMissing
<1>2. \A i \in Ids : tracks'[i] = tracks[i] \/ tracks'[i] = FreeRow
  <2> DEFINE purged == [i \in Ids |-> IF tracks[i].st = "missing" THEN FreeRow ELSE tracks[i]]
  <2>1. tracks' = tracks \/ tracks' = purged
    BY DEF FinalizeMissing
  <2>2. \A i \in Ids : purged[i] = tracks[i] \/ purged[i] = FreeRow
    OBVIOUS
  <2> HIDE DEF purged
  <2> QED
    BY <2>1, <2>2
<1>3. \A i \in Ids : Used(i)' => tracks'[i] = tracks[i] /\ Used(i)
  <2>1. FreeRow.st = "free"
    BY DEF FreeRow
  <2> QED
    BY <1>2, <2>1 DEF Used
<1>4. \A a : Summary(a)' \subseteq Summary(a)
  BY <1>3, SummaryShrinks
<1> QED
  BY <1>1, <1>4, SettledKept, OnlySettled DEF AlbumInvariant

\* Phase 3 takes up every touched album, so the others are settled.
LEMMA LoadAlbumsAlbums == ASSUME TypeOK, AlbumInvariant, LoadAlbums PROVE AlbumInvariant'
<1>1. /\ pc' = "albums" /\ stale' = {a \in Albums : albums[a].used /\ albums[a].touched}
      /\ tracks' = tracks /\ albums' = albums
  BY DEF LoadAlbums, db
<1>2. \A a : Summary(a)' = Summary(a)
  BY <1>1 DEF Summary, Used, Part
<1>3. SettledAlbumsComplete'
  BY <1>1, <1>2, SettledKept DEF AlbumInvariant
<1>4. RefreshedAlbumsComplete'
  BY <1>1, <1>2 DEF AlbumInvariant, SettledAlbumsComplete, Settled, RefreshedAlbumsComplete
<1> QED
  BY <1>1, <1>3, <1>4 DEF AlbumInvariant, SnapFaithful, MatchesKept

LEMMA RefreshAlbumAlbums ==
    ASSUME TypeOK, AlbumInvariant, NEW a \in Albums, RefreshAlbum(a) PROVE AlbumInvariant'
<1>1. /\ pc = "albums" /\ pc' = "albums" /\ stale' = stale \ {a} /\ tracks' = tracks
  BY DEF RefreshAlbum
<1>2. \A b : Summary(b)' = Summary(b)
  BY <1>1 DEF Summary, Used, Part
<1>3. \A b \in Albums \ {a} : albums'[b] = albums[b]
  BY DEF RefreshAlbum, TypeOK
<1>4. Summary(a) \subseteq albums'[a].parts
  <2>1. CASE Summary(a) \in {{}, albums[a].parts}
    BY <2>1 DEF RefreshAlbum
  <2>2. CASE Summary(a) \notin {{}, albums[a].parts}
    <3>1. albums' = [albums EXCEPT ![a].parts = Summary(a), ![a].touched = TRUE]
      BY <2>2 DEF RefreshAlbum
    <3>2. albums'[a].parts = Summary(a)
      BY <3>1 DEF TypeOK, Album
    <3> QED
      BY <3>2
  <2> QED
    BY <2>1, <2>2
<1>5. SettledAlbumsComplete'
  BY <1>2, <1>3, <1>4 DEF AlbumInvariant, SettledAlbumsComplete, Settled
<1>6. RefreshedAlbumsComplete'
  BY <1>1, <1>2, <1>3, <1>4 DEF AlbumInvariant, RefreshedAlbumsComplete
<1> QED
  BY <1>1, <1>5, <1>6 DEF AlbumInvariant, SnapFaithful, MatchesKept

\* Only albums without tracks are removed.
LEMMA CollectGarbageAlbums ==
    ASSUME TypeOK, AlbumInvariant, CollectGarbage PROVE AlbumInvariant'
<1>1. /\ pc = "albums" /\ pc' = "finish" /\ stale = {} /\ stale' = {} /\ tracks' = tracks
  BY DEF CollectGarbage
<1>2. \A b : Summary(b)' = Summary(b)
  BY <1>1 DEF Summary, Used, Part
<1>3. \A b \in Albums : albums'[b].used => albums'[b] = albums[b]
  BY DEF CollectGarbage, NoAlbum
<1>4. \A b \in Albums : albums[b].used => Summary(b) \subseteq albums[b].parts
  BY <1>1 DEF AlbumInvariant, RefreshedAlbumsComplete
<1> QED
  BY <1>1, <1>2, <1>3, <1>4
  DEF AlbumInvariant, SnapFaithful, MatchesKept, RefreshedAlbumsComplete,
      SettledAlbumsComplete, Settled

\* At the end of a scan every album is complete, so none need count as touched.
LEMMA EndAlbums == ASSUME TypeOK, AlbumInvariant, UpdateLibraries \/ Crash PROVE AlbumInvariant'
<1>1. pc' = "idle" /\ tracks' = tracks
  BY DEF UpdateLibraries, Crash, Forget, db
<1>2. \A b : Summary(b)' = Summary(b)
  BY <1>1 DEF Summary, Used, Part
<1>3. CASE UpdateLibraries
  <2>1. \A a \in Albums : albums[a].used => Summary(a) \subseteq albums[a].parts
    BY <1>3 DEF UpdateLibraries, AlbumInvariant, RefreshedAlbumsComplete
  <2>2. \A a \in Albums : albums'[a].used = albums[a].used /\ albums'[a].parts = albums[a].parts
    BY <1>3 DEF UpdateLibraries, TypeOK, Album
  <2>3. SettledAlbumsComplete'
    BY <1>2, <2>1, <2>2 DEF SettledAlbumsComplete, Settled
  <2> QED
    BY <1>1, <2>3, OnlySettled
<1>4. CASE Crash
  BY <1>1, <1>2, <1>4, SettledKept, OnlySettled DEF AlbumInvariant, Crash, db
<1> QED
  BY <1>3, <1>4

LEMMA NextAlbums == ASSUME TypeOK, AlbumInvariant, [Next]_vars PROVE AlbumInvariant'
<1>1. CASE DiskStep
  BY <1>1, DiskFrame, SameAlbums DEF db, scan
<1>2. ASSUME NEW f \in Folders, Walk(f) \/ Process(f) \/ PersistFails(f)  PROVE AlbumInvariant'
  BY <1>2, SameAlbums DEF Walk, Process, PersistFails, db
<1>3. CASE UNCHANGED vars
  BY <1>3, SameAlbums DEF vars, db, scan
<1> QED
  BY <1>1, <1>2, <1>3, StartAlbums, PersistAlbums, FinalizeFoldersAlbums, LoadMissingAlbums,
     MoveTrackAlbums, FinalizeMissingAlbums, LoadAlbumsAlbums, RefreshAlbumAlbums,
     CollectGarbageAlbums, EndAlbums
  DEF Next, ScanStep

\* The inductive invariant of the albums holds in every reachable state: a folder's
\* recorded matches are kept until its own commit, and what a scan has still to
\* refresh is in its list (phase_1_folders.go, phase_3_refresh_albums.go).
THEOREM AlbumInvariantHolds == Spec => []AlbumInvariant
<1>1. TypeOK /\ AlbumInvariant /\ [Next]_vars => AlbumInvariant'
  BY NextAlbums
<1> QED
  BY <1>1, InitAlbums, TypeCorrect, PTL DEF Spec

\* An album whose row the last scan left settled counts every present track, for
\* every library, set of faults and interruption: no commit of a folder leaves an
\* album behind that neither the running scan nor the next will refresh.
THEOREM AlbumsComplete == Spec => []SettledAlbumsComplete
<1>1. AlbumInvariant => SettledAlbumsComplete
  BY DEF AlbumInvariant
<1> QED
  BY <1>1, AlbumInvariantHolds, PTL

-----------------------------------------------------------------------------
(* Full scans. *)

\* Steps that leave the folders, the pipeline and the state of the scan alone, and
\* steps after which no phase that the invariant is about runs.
LEMMA SameCover ==
    ASSUME FullScanInvariant,
           UNCHANGED <<library, folders, pc, forced, failed, pending, entry>>
    PROVE  FullScanInvariant'
BY DEF FullScanInvariant

\* Later phases forget folders only.
LEMMA LaterCover ==
    ASSUME FullScanInvariant, UNCHANGED <<library, forced>>,
           pc \notin {"idle", "folders"}, pc' # "folders",
           \A f \in Folders : folders'[f].st = "ok" => folders'[f] = folders[f]
    PROVE  FullScanInvariant'
BY DEF FullScanInvariant

\* A scan of a library with a full scan in progress goes on as a full scan.
LEMMA StartFull ==
    ASSUME TypeOK, NEW full \in BOOLEAN, NEW targets, StartScan(full, targets)
    PROVE  /\ library'.full => forced'
           /\ library.full => library'.full
<1>1. /\ forced' = (full \/ library.full)
      /\ PrepareLibrary(forced')
  BY DEF StartScan
<1>2. library.full \in BOOLEAN /\ forced' \in BOOLEAN
  BY <1>1 DEF TypeOK
<1>3. CASE library.started
  <2>1. library' = library
    BY <1>1, <1>3 DEF PrepareLibrary
  <2> QED
    BY <1>1, <1>2, <2>1
<1>4. CASE ~library.started
  <2>1. library' = [started |-> TRUE, full |-> forced']
    BY <1>1, <1>4 DEF PrepareLibrary
  <2>2. library'.full = forced'
    BY <2>1
  <2> QED
    BY <1>1, <1>2, <2>2
<1> QED
  BY <1>3, <1>4

\* A scan knows every folder that is in the database when it starts.
LEMMA StartCover ==
    ASSUME WholeLibrary, TypeOK, FullScanInvariant, Start PROVE FullScanInvariant'
<1>1. PICK req \in Requests : StartScan(req[1], req[2])
  BY DEF Start
<1>2. /\ pc = "idle" /\ pc' = "folders" /\ UNCHANGED entry
      /\ forced' = (req[1] \/ library.full)
      /\ PrepareLibrary(forced')
  BY <1>1 DEF StartScan
<1>3. library'.full => forced'
  BY <1>1, StartFull, ScanAssumption
<1>4. pending' = {f \in Folders : folders[f].st = "ok"}
  BY <1>1 DEF WholeLibrary, StartScan, CreateJob
<1>5. \A f \in Folders : folders'[f].st = folders[f].st
  <2>1. CASE library.started
    BY <1>2, <2>1 DEF PrepareLibrary
  <2>2. CASE ~library.started
    <3>1. folders' = [f \in Folders |-> [folders[f] EXCEPT !.fresh = FALSE]]
      BY <1>2, <2>2 DEF PrepareLibrary
    <3> QED
      BY <3>1 DEF TypeOK, FolderRow
  <2> QED
    BY <2>1, <2>2
<1> QED
  BY <1>2, <1>3, <1>4, <1>5 DEF FullScanInvariant

\* The walker takes an old folder into the pipeline of a full scan.
LEMMA WalkCover ==
    ASSUME WholeLibrary, TypeOK, FullScanInvariant, NEW f \in Folders, Walk(f)
    PROVE  FullScanInvariant'
<1>1. /\ pc = "folders" /\ ~failed
      /\ UNCHANGED <<library, folders, pc, forced, failed>>
  BY DEF Walk, db
<1>2. SUFFICES ASSUME library.full, NEW h \in Folders, folders[h].st = "ok", ~folders[h].fresh
               PROVE  h \in pending' \/ entry'[h].stage # "none"
  BY <1>1 DEF FullScanInvariant
<1>3. forced /\ (h \in pending \/ entry[h].stage # "none")
  BY <1>1, <1>2 DEF FullScanInvariant
<1>4. CASE UNCHANGED <<pending, entry>>
  BY <1>3, <1>4
<1>5. CASE ~UNCHANGED <<pending, entry>>
  <2> DEFINE walked == [NoEntry EXCEPT !.stage = "walked", !.ver = ver[f], !.list = OnDisk(f)]
  <2>1. /\ pending' = pending \ {f}
        /\ entry' = IF Outdated(f) /\ (forced \/ f \in pending \/ OnDisk(f) # {})
                    THEN [entry EXCEPT ![f] = walked] ELSE entry
    BY <1>5 DEF WholeLibrary, Walk
  <2>2. walked.stage = "walked"
    BY DEF NoEntry
  <2>3. CASE h = f
    <3>1. Outdated(f)
      BY <1>2, <1>3, <2>3 DEF Outdated
    <3>2. entry'[h] = walked
      BY <1>3, <2>1, <2>3, <3>1 DEF TypeOK
    <3> QED
      BY <2>2, <3>2
  <2>4. CASE h # f
    <3>1. entry'[h] = entry[h]
      BY <2>1, <2>4 DEF TypeOK
    <3> QED
      BY <1>3, <2>1, <2>4, <3>1
  <2> QED
    BY <2>3, <2>4
<1> QED
  BY <1>4, <1>5

LEMMA ProcessCover ==
    ASSUME TypeOK, FullScanInvariant, NEW f \in Folders, Process(f) PROVE FullScanInvariant'
<1>1. /\ pc = "folders" /\ ~failed /\ entry[f].stage = "walked"
      /\ UNCHANGED <<library, folders, pc, forced, failed, pending>>
  BY DEF Process, db
<1>2. \A h \in Folders : entry[h].stage # "none" => entry'[h].stage # "none"
  <2>1. \A h \in Folders : h # f => entry'[h] = entry[h]
    BY DEF Process, TypeOK
  <2>2. entry'[f].stage = "processed"
    <3>1. CASE InfoFails(f)
      BY <3>1 DEF Process, TypeOK, Entry
    <3>2. CASE ~InfoFails(f)
      <4>1. PICK read \in Readable(f) :
              entry' = [entry EXCEPT ![f] =
                         [@ EXCEPT !.stage = "processed", !.gone = GoneRows(f),
                                   !.imports = [p \in Paths |->
                                       IF p \in read THEN files[p] ELSE NoFile]]]
        BY <3>2 DEF Process
      <4> QED
        BY <4>1 DEF TypeOK, Entry
    <3> QED
      BY <3>1, <3>2
  <2> QED
    BY <2>1, <2>2
<1> QED
  BY <1>1, <1>2 DEF FullScanInvariant

\* A stored folder is as fresh as the scan.
LEMMA PersistCover ==
    ASSUME TypeOK, FullScanInvariant, NEW f \in Folders, Persist(f) PROVE FullScanInvariant'
<1>1. /\ pc = "folders" /\ ~failed /\ folders'[f].fresh
      /\ UNCHANGED <<library, pc, forced, failed, pending>>
      /\ \A h \in Folders : h # f => folders'[h] = folders[h] /\ entry'[h] = entry[h]
  BY DEF Persist, TypeOK
<1> QED
  BY <1>1 DEF FullScanInvariant

\* When phase 1 is over without an error, what was not read again is marked missing.
LEMMA FinalizeFoldersCover ==
    ASSUME TypeOK, FullScanInvariant, FinalizeFolders PROVE FullScanInvariant'
<1>1. CASE failed
  BY <1>1 DEF FinalizeFolders, Forget, FullScanInvariant
<1>2. CASE ~failed
  <2>1. /\ pc = "folders" /\ pc' = "missing" /\ UNCHANGED <<library, forced>>
        /\ MarkPending /\ \A f \in Folders : entry[f].stage = "none"
    BY <1>2 DEF FinalizeFolders
  <2>2. ASSUME NEW f \in Folders, library.full, folders'[f].st = "ok" PROVE folders'[f].fresh
    <3>1. CASE f \in pending
      BY <2>1, <3>1 DEF MarkPending, TypeOK, FolderRow
    <3>2. CASE f \notin pending
      <4>1. folders'[f] = folders[f]
        BY <2>1, <3>2 DEF MarkPending
      <4> QED
        BY <1>2, <2>1, <2>2, <3>2, <4>1 DEF FullScanInvariant
    <3> QED
      BY <3>1, <3>2
  <2> QED
    BY <2>1, <2>2 DEF FullScanInvariant
<1> QED
  BY <1>1, <1>2

LEMMA NextCover ==
    ASSUME WholeLibrary, TypeOK, FullScanInvariant, [Next]_vars PROVE FullScanInvariant'
<1>1. CASE DiskStep
  BY <1>1, DiskFrame, SameCover DEF db, scan
<1>2. CASE UNCHANGED vars
  BY <1>2, SameCover DEF vars, db, scan
<1>3. ASSUME NEW f \in Folders, PersistFails(f) PROVE FullScanInvariant'
  BY <1>3 DEF PersistFails, FullScanInvariant, db
<1>4. CASE LoadMissing \/ LoadAlbums
  BY <1>4, LaterCover DEF LoadMissing, LoadAlbums, db
<1>5. ASSUME NEW i \in Ids, MoveTrack(i) PROVE FullScanInvariant'
  BY <1>5, LaterCover DEF MoveTrack
<1>6. CASE FinalizeMissing
  BY <1>6, LaterCover DEF FinalizeMissing
<1>7. ASSUME NEW a \in Albums, RefreshAlbum(a) PROVE FullScanInvariant'
  BY <1>7, LaterCover DEF RefreshAlbum
<1>8. CASE CollectGarbage
  BY <1>8, LaterCover DEF CollectGarbage, NoRow
<1>9. CASE UpdateLibraries \/ Crash
  BY <1>9 DEF UpdateLibraries, Crash, Forget, FullScanInvariant, db
<1> QED
  BY <1>1, <1>2, <1>3, <1>4, <1>5, <1>6, <1>7, <1>8, <1>9, StartCover, WalkCover, ProcessCover,
     PersistCover, FinalizeFoldersCover
  DEF Next, ScanStep

\* A full scan, also one that was interrupted and resumed any number of times, ends
\* only when every known folder was read again since it started, for scans of the
\* whole library whose storage and directories can be opened (scanner.go:194,
\* folder_entry.go:65).
THEOREM FullScansCover ==
    ASSUME WholeLibrary
    PROVE  Spec => FullScanCovers
<1>1. Init => FullScanInvariant
  BY DEF Init, FullScanInvariant
<1>2. TypeOK /\ FullScanInvariant /\ [Next]_vars => FullScanInvariant'
  BY NextCover
<1>3. TypeOK /\ FullScanInvariant /\ [Next]_vars =>
        [library.full /\ ~library'.full =>
           \A f \in Folders : folders[f].st = "ok" => folders[f].fresh]_library
  <2>1. CASE UpdateLibraries
    BY <2>1 DEF UpdateLibraries, FullScanInvariant
  <2>2. ASSUME TypeOK, Start, library.full PROVE library'.full
    <3>1. PICK req \in Requests : StartScan(req[1], req[2])
      BY <2>2 DEF Start
    <3> QED
      BY <2>2, <3>1, StartFull, ScanAssumption
  <2>3. ASSUME Next, ~Start, ~UpdateLibraries PROVE UNCHANGED library
    <3>1. CASE DiskStep
      BY <3>1, DiskFrame DEF db, Write, Rename, Delete, RemoveFolder, DiskStep
    <3>2. CASE ScanStep \/ Crash
      BY <2>3, <3>2 DEF ScanStep, Walk, Process, Persist, PersistFails, FinalizeFolders,
         LoadMissing, MoveTrack, FinalizeMissing, LoadAlbums, RefreshAlbum, CollectGarbage,
         Crash, db
    <3> QED
      BY <2>3, <3>1, <3>2 DEF Next
  <2> QED
    BY <2>1, <2>2, <2>3 DEF vars, db
<1> QED
  BY <1>1, <1>2, <1>3, TypeCorrect, PTL DEF Spec, FullScanCovers

-----------------------------------------------------------------------------
(* Scans end in sync. *)

\* A scan begins with every folder ahead of it.
LEMMA StartCovers ==
    ASSUME QuietWhole, TypeOK, ScanInvariant, Start
    PROVE  Covered' /\ GonePending'
<1>1. PICK full \in BOOLEAN, targets \in SUBSET Folders : StartScan(full, targets) /\ targets = {}
  BY ScanAssumption DEF Start, QuietWhole, WholeLibrary
<1>2. /\ pc = "idle" /\ UNCHANGED <<dirs, entry>> /\ PrepareLibrary(forced')
      /\ todo' = Folders /\ pending' = {f \in Folders : folders[f].st = "ok"}
  BY <1>1 DEF StartScan, CreateJob, QuietWhole, WholeLibrary, disk
<1>3. \A f \in Folders : folders'[f].st = folders[f].st
  <2>1. \A f \in Folders : folders[f] \in FolderRow
    BY DEF TypeOK
  <2> QED
    BY <1>2, <2>1 DEF PrepareLibrary, FolderRow
<1>4. dirs \subseteq Folders /\ \A f \in Folders : entry[f].stage = "none"
  BY <1>2 DEF TypeOK, ScanInvariant, EntriesOnlyInPhase1, NoEntry
<1> QED
  BY <1>2, <1>3, <1>4 DEF Covered, GonePending

\* A folder is skipped only as it is now.
LEMMA WalkCovers ==
    ASSUME QuietWhole, TypeOK, Covered, GonePending, NEW g \in Folders, Walk(g)
    PROVE  Covered' /\ GonePending'
<1>1. /\ pc = "folders" /\ ~failed /\ failed' = failed /\ UNCHANGED <<ver, files, dirs, folders>>
      /\ g \in todo /\ todo' = todo \ {g}
  BY DEF Walk, disk, db
<1> DEFINE walked == [NoEntry EXCEPT !.stage = "walked", !.ver = ver[g], !.list = OnDisk(g)]
<1>2. walked.stage = "walked" /\ walked.ver = ver[g]
  BY DEF NoEntry
<1> HIDE DEF walked
<1>3. CASE g \notin dirs
  <2>1. UNCHANGED <<pending, entry>>
    BY <1>3 DEF Walk
  <2>2. Covered'
    BY <1>1, <1>3, <2>1 DEF Covered, HashCurrent, OnDisk
  <2>3. GonePending'
    BY <1>1, <2>1 DEF GonePending
  <2> QED
    BY <2>2, <2>3
<1>4. CASE g \in dirs
  <2>1. /\ pending' = pending \ {g}
        /\ entry' = IF Outdated(g) /\ (forced \/ g \in pending \/ OnDisk(g) # {})
                    THEN [entry EXCEPT ![g] = walked] ELSE entry
    BY <1>4 DEF Walk, QuietWhole, WholeLibrary, walked
  <2>2. \A f \in Folders : /\ entry'[f] = entry[f] \/ (f = g /\ entry'[f] = walked)
                           /\ f # g => entry'[f] = entry[f]
    BY <2>1 DEF TypeOK
  <2>3. /\ \A f \in pending : folders[f].st = "ok" /\ (f \in dirs => f \in todo)
        /\ \A f \in todo : folders[f].st = "ok" => f \in pending
        /\ \A f \in Folders : entry[f].stage # "none" => entry[f].ver = ver[f] /\ f \notin todo
        /\ \A f \in dirs : OnDisk(f) # {} \/ folders[f].st = "ok" =>
             f \in todo \/ entry[f].stage # "none" \/ HashCurrent(f)
    BY <1>1 DEF Covered
  <2>4. OnDisk(g) # {} \/ folders[g].st = "ok" => entry'[g].stage # "none" \/ HashCurrent(g)
    <3>1. CASE Outdated(g) /\ (forced \/ g \in pending \/ OnDisk(g) # {})
      BY <1>2, <2>1, <3>1 DEF TypeOK
    <3>2. CASE ~Outdated(g)
      BY <2>3, <3>2 DEF Outdated, HashCurrent
    <3>3. CASE ~(forced \/ g \in pending \/ OnDisk(g) # {})
      BY <1>1, <2>3, <3>3
    <3> QED
      BY <3>1, <3>2, <3>3
  <2>5. Covered'
    <3>1. \A f \in pending' : folders'[f].st = "ok" /\ (f \in dirs' => f \in todo')
      BY <1>1, <2>1, <2>3
    <3>2. \A f \in todo' : folders'[f].st = "ok" => f \in pending'
      BY <1>1, <2>1, <2>3
    <3>3. \A f \in Folders : entry'[f].stage # "none" => entry'[f].ver = ver'[f] /\ f \notin todo'
      BY <1>1, <1>2, <2>2, <2>3
    <3>4. ASSUME NEW f \in dirs, OnDisk(f) # {} \/ folders[f].st = "ok"
          PROVE  f \in todo' \/ entry'[f].stage # "none" \/ HashCurrent(f)
      <4>1. CASE f = g
        BY <2>4, <3>4, <4>1
      <4>2. CASE f # g
        BY <1>1, <2>2, <2>3, <3>4, <4>2 DEF TypeOK
      <4> QED
        BY <4>1, <4>2
    <3> QED
      BY <1>1, <3>1, <3>2, <3>3, <3>4 DEF Covered, HashCurrent, OnDisk
  <2>6. GonePending'
    BY <1>1, <1>4, <2>1, <2>2 DEF GonePending
  <2> QED
    BY <2>5, <2>6
<1> QED
  BY <1>3, <1>4

LEMMA ProcessCovers ==
    ASSUME TypeOK, Covered, GonePending, NEW g \in Folders, Process(g)
    PROVE  Covered' /\ GonePending'
<1>1. /\ pc = "folders" /\ UNCHANGED <<ver, files, dirs, folders, failed, todo, pending>>
      /\ ~failed /\ entry[g].stage = "walked"
  BY DEF Process, disk, db
<1>2. \A h \in Folders : h # g => entry'[h] = entry[h]
  BY DEF Process, TypeOK
<1>3. entry'[g].stage = "processed" /\ entry'[g].ver = entry[g].ver
  <2>1. CASE InfoFails(g)
    BY <2>1 DEF Process, TypeOK, Entry
  <2>2. CASE ~InfoFails(g)
    <3>1. PICK read \in Readable(g) :
            entry' = [entry EXCEPT ![g] =
                       [@ EXCEPT !.stage = "processed", !.gone = GoneRows(g),
                                 !.imports = [p \in Paths |->
                                     IF p \in read THEN files[p] ELSE NoFile]]]
      BY <2>2 DEF Process
    <3> QED
      BY <3>1 DEF TypeOK, Entry
  <2> QED
    BY <2>1, <2>2
<1>4. \A h \in Folders : /\ entry'[h].ver = entry[h].ver
                         /\ entry'[h].stage # "none" <=> entry[h].stage # "none"
  BY <1>1, <1>2, <1>3
<1>5. dirs \subseteq Folders
  BY DEF TypeOK
<1> QED
  BY <1>1, <1>4, <1>5 DEF Covered, GonePending, HashCurrent, OnDisk

\* A folder is stored as it is now.
LEMMA PersistCovers ==
    ASSUME TypeOK, Covered, GonePending, NEW g \in Folders, Persist(g)
    PROVE  Covered' /\ GonePending'
<1>1. /\ pc = "folders" /\ ~failed /\ entry[g].stage = "processed"
      /\ UNCHANGED <<files, ver, dirs, failed, todo, pending>>
      /\ folders' = [folders EXCEPT ![g] = [st |-> "ok", hash |-> HashAtStore(g),
                                          fresh |-> TRUE, empty |-> entry[g].list = {}]]
      /\ entry' = [entry EXCEPT ![g] = NoEntry]
  BY DEF Persist, disk
<1>2. /\ folders'[g].st = "ok" /\ folders'[g].hash = ver[g] /\ entry'[g].stage = "none"
      /\ \A f \in Folders : f # g => folders'[f] = folders[f] /\ entry'[f] = entry[f]
  <2>1. HashAtStore(g) = ver[g] /\ NoEntry.stage = "none"
    BY <1>1 DEF HashAtStore, NoEntry, Covered
  <2> QED
    BY <1>1, <2>1 DEF TypeOK
<1>3. dirs \subseteq Folders /\ todo \subseteq Folders /\ pending \subseteq Folders
  BY DEF TypeOK
<1>4. Covered'
  BY <1>1, <1>2, <1>3 DEF Covered, HashCurrent, OnDisk, InFolder
<1>5. GonePending'
  BY <1>1, <1>2 DEF GonePending
<1> QED
  BY <1>4, <1>5

\* After phase 1 every folder is in line with the disk.
LEMMA FinalizeFoldersSync ==
    ASSUME TypeOK, ScanInvariant, SyncInvariant, ~doubled, FinalizeFolders, ~failed
    PROVE  InSync'
<1>1. /\ pc = "folders" /\ UNCHANGED <<files, ver, dirs>> /\ MarkPending
      /\ todo = {} /\ \A f \in Folders : entry[f].stage = "none"
  BY DEF FinalizeFolders, disk
<1>2. ASSUME NEW i \in Ids
      PROVE  /\ tracks'[i].path = tracks[i].path
             /\ tracks'[i].st = "ok" =>
                  tracks[i].st = "ok" /\ FolderOf[tracks[i].path] \notin pending
             /\ FolderOf[tracks[i].path] \notin pending => tracks'[i] = tracks[i]
  <2>1. tracks[i] \in Row
    BY DEF TypeOK
  <2>2. tracks'[i] = IF tracks[i].st = "ok" /\ FolderOf[tracks[i].path] \in pending
                     THEN [tracks[i] EXCEPT !.st = "missing"] ELSE tracks[i]
    BY <1>1 DEF MarkPending
  <2> QED
    BY <2>1, <2>2 DEF Row
<1>3. /\ Covered /\ GonePending
      /\ \A i \in Ids : tracks[i].st = "ok" => folders[FolderOf[tracks[i].path]].st = "ok"
      /\ \A p \in Paths : files[p] # NoFile => FolderOf[p] \in dirs
  BY DEF SyncInvariant, RowsFoldered, FilesFoldered
<1>4. ASSUME NEW f \in Folders, OnDisk(f) # {} \/ (folders[f].st = "ok" /\ f \notin pending)
      PROVE  f \notin pending /\ Accurate(f)
  <2>1. f \in dirs
    BY <1>1, <1>3, <1>4 DEF GonePending, OnDisk, InFolder
  <2> QED
    BY <1>1, <1>3, <1>4, <2>1 DEF Covered, ScanInvariant
<1>5. ASSUME NEW f \in Folders PROVE Accurate(f)'
  <2>1. ASSUME NEW i \in RowsIn(f)', tracks'[i].st = "ok"
        PROVE  /\ files'[tracks'[i].path] # NoFile
               /\ \/ files'[tracks'[i].path].content = tracks'[i].content
                  \/ files'[tracks'[i].path].mtime <= tracks'[i].mtime
    <3>1. i \in Ids /\ FolderOf[tracks[i].path] = f
      BY <1>2 DEF RowsIn
    <3>2. tracks[i].st = "ok" /\ f \notin pending /\ tracks'[i] = tracks[i]
      BY <1>2, <2>1, <3>1
    <3>3. Accurate(f) /\ i \in RowsIn(f)
      BY <1>3, <1>4, <3>1, <3>2 DEF RowsIn, Used
    <3> QED
      BY <1>1, <3>2, <3>3 DEF Accurate
  <2>2. ASSUME NEW p \in OnDisk(f)' PROVE \E i \in RowsAt(p)' : tracks'[i].st = "ok"
    <3>1. p \in OnDisk(f) /\ FolderOf[p] = f
      BY <1>1 DEF OnDisk, InFolder
    <3>2. f \notin pending /\ Accurate(f)
      BY <1>4, <3>1
    <3>3. PICK i \in RowsAt(p) : tracks[i].st = "ok"
      BY <3>1, <3>2 DEF Accurate
    <3>4. i \in Ids /\ tracks[i].path = p
      BY <3>3 DEF RowsAt
    <3>5. tracks'[i] = tracks[i]
      BY <1>2, <3>1, <3>2, <3>4
    <3> QED
      BY <3>3, <3>4, <3>5 DEF RowsAt, Used
  <2> QED
    BY <2>1, <2>2 DEF Accurate
<1> QED
  BY <1>5 DEF InSync

\* The database stays in line with the disk while its rows stay.
LEMMA SameSync ==
    ASSUME InSync, files' = files,
           \A i \in Ids : tracks[i].st = "ok" \/ tracks'[i].st = "ok" => tracks'[i] = tracks[i]
    PROVE  InSync'
<1>1. ASSUME NEW f \in Folders PROVE Accurate(f)'
  <2>1. Accurate(f)
    BY DEF InSync
  <2> QED
    BY <2>1 DEF Accurate, RowsIn, RowsAt, Used, OnDisk, InFolder
<1> QED
  BY <1>1 DEF InSync

\* A missing row takes the place of its match, if that was not used up.
LEMMA MovedRow ==
    ASSUME TypeOK, ScanInvariant, NEW i \in Ids, MoveTrack(i), ~doubled'
    PROVE  \E j \in Ids :
             /\ tracks[i].st = "missing" /\ tracks[j].st = "ok" /\ tracks'[j].st = "free"
             /\ tracks'[i].st = "ok" /\ tracks'[i].path = tracks[j].path
             /\ tracks'[i].content = tracks[j].content /\ tracks'[i].mtime = tracks[j].mtime
             /\ \A k \in Ids : k # i /\ k # j => tracks'[k] = tracks[k]
<1>1. pc = "moves" /\ i \in left
  BY DEF MoveTrack
<1>2. PICK j \in Targets(snap, i) :
        /\ tracks' = [tracks EXCEPT ![i] = [snap[j] EXCEPT !.recent = tracks[i].recent],
                                    ![j] = FreeRow]
        /\ doubled' = (doubled \/ tracks[j].st = "free")
  BY DEF MoveTrack
<1>3. j \in Ids /\ snap[j].st = "ok"
  BY DEF Targets, Matched
<1>4. tracks[i] = snap[i] /\ snap[i].st = "missing" /\ tracks[j] = snap[j]
  BY <1>1, <1>2, <1>3 DEF ScanInvariant, SnapFaithful
<1>5. /\ tracks'[i] = [snap[j] EXCEPT !.recent = tracks[i].recent] /\ tracks'[j] = FreeRow
      /\ \A k \in Ids : k # i /\ k # j => tracks'[k] = tracks[k]
  BY <1>2, <1>3, <1>4 DEF TypeOK
<1>6. snap[j] \in Row
  BY <1>3 DEF TypeOK
<1> QED
  BY <1>3, <1>4, <1>5, <1>6 DEF Row, FreeRow

LEMMA MoveTrackSync ==
    ASSUME TypeOK, ScanInvariant, SyncInvariant, ~doubled, ~doubled', NEW i \in Ids, MoveTrack(i)
    PROVE  InSync' /\ RowsFoldered'
<1>1. pc = "moves" /\ UNCHANGED <<files, folders>>
  BY DEF MoveTrack, disk
<1>2. InSync /\ RowsFoldered
  BY <1>1 DEF SyncInvariant
<1>3. PICK j \in Ids :
        /\ tracks[i].st = "missing" /\ tracks[j].st = "ok" /\ tracks'[j].st = "free"
        /\ tracks'[i].st = "ok" /\ tracks'[i].path = tracks[j].path
        /\ tracks'[i].content = tracks[j].content /\ tracks'[i].mtime = tracks[j].mtime
        /\ \A k \in Ids : k # i /\ k # j => tracks'[k] = tracks[k]
  BY MovedRow
<1> DEFINE old(k) == IF k = i THEN j ELSE k
<1>4. ASSUME NEW k \in Ids, tracks'[k].st = "ok"
      PROVE  /\ old(k) \in Ids /\ tracks[old(k)].st = "ok"
             /\ tracks'[k].path = tracks[old(k)].path
             /\ tracks'[k].content = tracks[old(k)].content
             /\ tracks'[k].mtime = tracks[old(k)].mtime
  BY <1>3, <1>4
<1>5. RowsFoldered'
  BY <1>1, <1>2, <1>4 DEF RowsFoldered
<1>6. ASSUME NEW f \in Folders PROVE Accurate(f)'
  <2>1. Accurate(f)
    BY <1>2 DEF InSync
  <2>2. OnDisk(f)' = OnDisk(f)
    BY <1>1 DEF OnDisk, InFolder
  <2>3. ASSUME NEW k \in RowsIn(f)', tracks'[k].st = "ok"
        PROVE  /\ files[tracks'[k].path] # NoFile
               /\ \/ files[tracks'[k].path].content = tracks'[k].content
                  \/ files[tracks'[k].path].mtime <= tracks'[k].mtime
    <3>1. k \in Ids /\ FolderOf[tracks'[k].path] = f
      BY DEF RowsIn
    <3>2. old(k) \in RowsIn(f) /\ tracks[old(k)].st = "ok"
      BY <1>4, <2>3, <3>1 DEF RowsIn, Used
    <3> QED
      BY <1>4, <2>1, <2>3, <3>1, <3>2 DEF Accurate
  <2>4. ASSUME NEW p \in OnDisk(f) PROVE \E k \in RowsAt(p)' : tracks'[k].st = "ok"
    <3>1. PICK k \in RowsAt(p) : tracks[k].st = "ok"
      BY <2>1 DEF Accurate
    <3>2. k \in Ids /\ tracks[k].path = p /\ k # i
      BY <1>3, <3>1 DEF RowsAt
    <3>3. CASE k = j
      BY <1>3, <3>2, <3>3 DEF RowsAt, Used
    <3>4. CASE k # j
      BY <1>3, <3>1, <3>2, <3>4 DEF RowsAt, Used
    <3> QED
      BY <3>3, <3>4
  <2> QED
    BY <1>1, <2>2, <2>3, <2>4 DEF Accurate
<1> QED
  BY <1>5, <1>6 DEF InSync

\* Users change the disk between scans.
LEMMA DiskSync ==
    ASSUME QuietWhole, TypeOK, SyncInvariant, DiskStep PROVE SyncInvariant'
<1>1. pc = "idle" /\ UNCHANGED <<pc, tracks, folders, doubled>>
  BY DEF DiskStep, Write, Rename, Delete, RemoveFolder, Tick, QuietWhole, WholeLibrary, db, scan
<1>2. FilesFoldered'
  <2>1. FilesFoldered
    BY DEF SyncInvariant
  <2>2. ASSUME NEW p \in Paths, NEW c \in Contents, Write(p, c) PROVE FilesFoldered'
    BY <2>1, <2>2 DEF Write, FilesFoldered, TypeOK
  <2>3. ASSUME NEW p \in Paths, NEW q \in Paths, Rename(p, q) PROVE FilesFoldered'
    BY <2>1, <2>3 DEF Rename, FilesFoldered, TypeOK
  <2>4. ASSUME NEW p \in Paths, Delete(p) PROVE FilesFoldered'
    BY <2>1, <2>4 DEF Delete, FilesFoldered, TypeOK
  <2>5. ASSUME NEW f \in Folders, RemoveFolder(f) PROVE FilesFoldered'
    BY <2>1, <2>5 DEF RemoveFolder, FilesFoldered, TypeOK
  <2> QED
    BY <2>2, <2>3, <2>4, <2>5 DEF DiskStep
<1>3. ~doubled => RowsFoldered'
  BY <1>1 DEF SyncInvariant, RowsFoldered
<1> QED
  BY <1>1, <1>2, <1>3 DEF SyncInvariant, Covered, GonePending

\* Phase 1.
LEMMA FoldersSync ==
    ASSUME QuietWhole, TypeOK, ScanInvariant, SyncInvariant,
           Start \/ \E f \in Folders : Walk(f) \/ Process(f) \/ Persist(f) \/ PersistFails(f)
    PROVE  SyncInvariant'
<1>1. pc' = "folders" /\ UNCHANGED <<files, dirs, doubled>>
  BY DEF Start, StartScan, Walk, Process, Persist, PersistFails, disk, db
<1>2. FilesFoldered'
  BY <1>1 DEF SyncInvariant, FilesFoldered
<1>3. SUFFICES ASSUME ~doubled, RowsFoldered, Covered, GonePending
               PROVE  RowsFoldered' /\ Covered' /\ GonePending'
  BY <1>1, <1>2 DEF SyncInvariant
<1>4. \A i \in Ids : FolderOf[tracks[i].path] \in Folders
  BY ConstantTypes DEF TypeOK, Row
<1>5. CASE Start
  <2>1. PICK full \in BOOLEAN, targets \in SUBSET Folders : StartScan(full, targets)
    BY <1>5, ScanAssumption DEF Start
  <2>2. \A f \in Folders : folders'[f].st = folders[f].st
    <3>1. \A f \in Folders : folders[f] \in FolderRow
      BY DEF TypeOK
    <3> QED
      BY <2>1, <3>1 DEF StartScan, PrepareLibrary, FolderRow
  <2>3. \A i \in Ids : tracks'[i].st = tracks[i].st /\ tracks'[i].path = tracks[i].path
    <3>1. \A i \in Ids : tracks[i] \in Row
      BY DEF TypeOK
    <3> QED
      BY <2>1, <3>1 DEF StartScan, PrepareLibrary, Row
  <2> QED
    BY <1>3, <1>4, <1>5, <2>2, <2>3, StartCovers DEF RowsFoldered
<1>6. ASSUME NEW g \in Folders, Walk(g) \/ Process(g) \/ PersistFails(g)
      PROVE  RowsFoldered' /\ Covered' /\ GonePending'
  <2>1. UNCHANGED <<tracks, folders>>
    BY <1>6 DEF Walk, Process, PersistFails, db
  <2>2. CASE PersistFails(g)
    BY <1>3, <2>1, <2>2 DEF PersistFails, RowsFoldered, Covered, GonePending
  <2> QED
    BY <1>3, <1>6, <2>1, <2>2, WalkCovers, ProcessCovers DEF RowsFoldered
<1>7. ASSUME NEW g \in Folders, Persist(g)
      PROVE  RowsFoldered' /\ Covered' /\ GonePending'
  <2>1. /\ folders' = [folders EXCEPT ![g] = [st |-> "ok", hash |-> HashAtStore(g),
                                              fresh |-> TRUE, empty |-> entry[g].list = {}]]
        /\ EntryLocal(g)
    BY <1>3, <1>7 DEF Persist, ScanInvariant
  <2>2. PICK h \in Placement(g) : StoreTracks(g, h)
    BY <1>7 DEF Persist
  <2>3. /\ h \in [Imports(g) -> Ids]
        /\ \A p \in Imports(g) : tracks'[h[p]].path = p
        /\ \A i \in Ids : (\A p \in Imports(g) : h[p] # i) =>
             IF i \in entry[g].gone
             THEN tracks'[i].st = "missing" /\ tracks'[i].path = tracks[i].path
             ELSE tracks'[i] = tracks[i]
    BY <2>2, PersistRows
  <2>4. folders'[g].st = "ok" /\ \A f \in Folders : f # g => folders'[f] = folders[f]
    BY <2>1 DEF TypeOK
  <2>5. ASSUME NEW i \in Ids, tracks'[i].st = "ok"
        PROVE  folders'[FolderOf[tracks'[i].path]].st = "ok"
    <3>1. CASE \E p \in Imports(g) : h[p] = i
      <4>1. FolderOf[tracks'[i].path] = g
        BY <2>1, <2>3, <3>1 DEF EntryLocal, InFolder
      <4> QED
        BY <2>4, <4>1
    <3>2. CASE \A p \in Imports(g) : h[p] # i
      BY <1>3, <1>4, <2>3, <2>4, <2>5, <3>2 DEF RowsFoldered
    <3> QED
      BY <3>1, <3>2
  <2> QED
    BY <1>3, <1>7, <2>5, PersistCovers DEF RowsFoldered
<1> QED
  BY <1>5, <1>6, <1>7

\* The end of phase 1, and what comes after it.
LEMMA LaterSync ==
    ASSUME TypeOK, ScanInvariant, SyncInvariant,
           \/ FinalizeFolders \/ LoadMissing \/ (\E i \in Ids : MoveTrack(i)) \/ FinalizeMissing
           \/ LoadAlbums \/ (\E a \in Albums : RefreshAlbum(a))
           \/ CollectGarbage \/ UpdateLibraries \/ Crash \/ UNCHANGED vars
    PROVE  SyncInvariant'
<1>1. UNCHANGED <<files, dirs>> /\ (doubled => doubled')
  <2>1. UNCHANGED <<files, dirs>>
    BY DEF FinalizeFolders, LoadMissing, MoveTrack, FinalizeMissing, LoadAlbums, RefreshAlbum,
           CollectGarbage, UpdateLibraries, Crash, vars, disk
  <2>2. ASSUME NEW i \in Ids, MoveTrack(i), doubled PROVE doubled'
    BY <2>2 DEF MoveTrack
  <2>3. ASSUME ~\E i \in Ids : MoveTrack(i) PROVE doubled' = doubled
    BY <2>3 DEF FinalizeFolders, LoadMissing, FinalizeMissing, LoadAlbums, RefreshAlbum,
           CollectGarbage, UpdateLibraries, Crash, vars, db
  <2>4. doubled => doubled'
    BY <2>2, <2>3
  <2> QED
    BY <2>1, <2>4
<1>2. FilesFoldered'
  BY <1>1 DEF SyncInvariant, FilesFoldered
<1>3. SUFFICES ASSUME ~doubled, ~doubled', RowsFoldered, Covered, GonePending,
                      pc \notin {"idle", "folders"} => InSync
               PROVE  /\ RowsFoldered' /\ Covered' /\ GonePending'
                      /\ pc' \notin {"idle", "folders"} => InSync'
  BY <1>1, <1>2 DEF SyncInvariant
<1>4. \A i \in Ids : FolderOf[tracks[i].path] \in Folders
  BY ConstantTypes DEF TypeOK, Row
<1>5. CASE FinalizeFolders
  <2>1. MarkPending /\ IF failed THEN pc' = "idle" ELSE pc' = "missing"
    BY <1>5 DEF FinalizeFolders, Forget
  <2>2. ASSUME NEW i \in Ids, tracks'[i].st = "ok"
        PROVE  folders'[FolderOf[tracks'[i].path]].st = "ok"
    <3>1. tracks[i] \in Row
      BY DEF TypeOK
    <3>2. /\ tracks'[i] = tracks[i] /\ FolderOf[tracks[i].path] \notin pending
      BY <2>1, <2>2, <3>1 DEF MarkPending, Row
    <3>3. folders'[FolderOf[tracks[i].path]] = folders[FolderOf[tracks[i].path]]
      BY <1>4, <2>1, <3>2 DEF MarkPending
    <3> QED
      BY <1>3, <2>2, <3>2, <3>3 DEF RowsFoldered
  <2>3. ~failed => InSync'
    BY <1>3, <1>5, FinalizeFoldersSync
  <2> QED
    BY <2>1, <2>2, <2>3 DEF RowsFoldered, Covered, GonePending
<1>6. ASSUME NEW i \in Ids, MoveTrack(i)
      PROVE  RowsFoldered' /\ Covered' /\ GonePending' /\ InSync'
  <2>1. pc' = "moves"
    BY <1>6 DEF MoveTrack
  <2> QED
    BY <1>3, <1>6, <2>1, MoveTrackSync DEF Covered, GonePending
<1>7. CASE \/ LoadMissing \/ FinalizeMissing \/ LoadAlbums \/ (\E a \in Albums : RefreshAlbum(a))
           \/ CollectGarbage
  <2>1. /\ pc \in {"missing", "moves", "touched", "albums"} /\ pc' \notin {"idle", "folders"}
        /\ \A i \in Ids : tracks[i].st # "missing" => tracks'[i] = tracks[i]
        /\ \A i \in Ids : tracks'[i].st = "ok" => tracks'[i] = tracks[i]
    <3>1. CASE FinalizeMissing
      <4>1. UNCHANGED tracks \/ \A i \in Ids :
              tracks'[i] = IF tracks[i].st = "missing" THEN FreeRow ELSE tracks[i]
        BY <3>1 DEF FinalizeMissing
      <4> QED
        BY <3>1, <4>1 DEF FinalizeMissing, FreeRow
    <3>2. CASE LoadMissing \/ LoadAlbums \/ (\E a \in Albums : RefreshAlbum(a)) \/ CollectGarbage
      BY <3>2 DEF LoadMissing, LoadAlbums, RefreshAlbum, CollectGarbage, db
    <3> QED
      BY <1>7, <3>1, <3>2
  <2>2. InSync'
    BY <1>1, <1>3, <2>1, SameSync
  <2>3. \A f \in Folders : folders[f].st = "ok" /\ RowsIn(f) # {} => folders'[f].st = "ok"
    BY <1>7 DEF LoadMissing, FinalizeMissing, LoadAlbums, RefreshAlbum, CollectGarbage, db
  <2>4. ASSUME NEW i \in Ids, tracks'[i].st = "ok"
        PROVE  folders'[FolderOf[tracks'[i].path]].st = "ok"
    <3>1. tracks'[i] = tracks[i] /\ i \in RowsIn(FolderOf[tracks[i].path])
      BY <2>1, <2>4 DEF RowsIn, Used
    <3> QED
      BY <1>3, <1>4, <2>3, <2>4, <3>1 DEF RowsFoldered
  <2> QED
    BY <2>1, <2>2, <2>4 DEF RowsFoldered, Covered, GonePending
<1>8. CASE UpdateLibraries \/ Crash
  <2>1. pc' = "idle" /\ UNCHANGED <<tracks, folders>>
    BY <1>8 DEF UpdateLibraries, Crash, Forget, db
  <2> QED
    BY <1>3, <2>1 DEF RowsFoldered, Covered, GonePending
<1>9. CASE UNCHANGED vars
  <2>1. UNCHANGED <<files, dirs, ver, folders, tracks, pc, failed, pending, todo, entry>>
    BY <1>9 DEF vars, disk, db, scan
  <2>2. RowsFoldered' /\ GonePending' /\ Covered'
    BY <1>3, <2>1 DEF RowsFoldered, GonePending, Covered, HashCurrent, OnDisk, InFolder
  <2>3. InSync => InSync'
    BY <2>1, SameSync
  <2> QED
    BY <1>3, <2>1, <2>2, <2>3
<1> QED
  BY <1>5, <1>6, <1>7, <1>8, <1>9

LEMMA InitSync == ASSUME Init PROVE SyncInvariant
<1>1. /\ dirs = InitDirs /\ pc = "idle"
      /\ files = [p \in Paths |-> IF InitFiles[p] = NoFile THEN NoFile
                                  ELSE [content |-> InitFiles[p], mtime |-> 1]]
  BY DEF Init
<1>2. PICK imported \in Imported :
        /\ tracks = IF imported THEN InitTracks ELSE FreeTable
        /\ folders = [f \in Folders |->
             IF imported /\ f \in InitDirs
             THEN [st |-> "ok", hash |-> 1, fresh |-> FALSE, empty |-> FALSE] ELSE NoRow]
  BY DEF Init
<1>3. FilesFoldered
  BY <1>1 DEF FilesFoldered, InitDirs
<1>4. ASSUME NEW i \in Ids, tracks[i].st = "ok"
      PROVE  folders[FolderOf[tracks[i].path]].st = "ok"
  <2>1. imported /\ tracks = InitTracks
    BY <1>2, <1>4 DEF FreeTable, FreeRow
  <2>2. PICK p \in Paths : InitFiles[p] # NoFile /\ tracks[i].path = p
    <3>1. \E q \in Paths : InitFiles[q] # NoFile /\ InitIds[q] = i
      BY <1>4, <2>1 DEF InitTracks, FreeRow
    <3>2. PICK p \in Paths :
            /\ InitFiles[p] # NoFile
            /\ p = CHOOSE q \in Paths : InitFiles[q] # NoFile /\ InitIds[q] = i
      BY <3>1
    <3>3. tracks[i] = [st |-> "ok", path |-> p, content |-> InitFiles[p], mtime |-> 1,
                       recent |-> FALSE]
      BY <2>1, <3>1, <3>2 DEF InitTracks
    <3> QED
      BY <3>2, <3>3
  <2>3. FolderOf[p] \in InitDirs /\ FolderOf[p] \in Folders
    BY <2>2, ConstantTypes DEF InitDirs
  <2> QED
    BY <1>2, <2>1, <2>2, <2>3
<1> QED
  BY <1>1, <1>3, <1>4 DEF SyncInvariant, RowsFoldered, Covered, GonePending

LEMMA SyncInvariantHolds ==
    ASSUME QuietWhole
    PROVE  Spec => []SyncInvariant
<1>1. "tags" \notin Faults
  BY DEF QuietWhole
<1>2. Init => SyncInvariant
  BY InitSync
<1>3. TypeOK /\ ScanInvariant /\ SyncInvariant /\ [Next]_vars => SyncInvariant'
  BY DiskSync, FoldersSync, LaterSync DEF Next, ScanStep
<1>4. Spec => []ScanInvariant
  BY <1>1, ScanInvariantHolds
<1> QED
  BY <1>2, <1>3, <1>4, TypeCorrect, PTL DEF Spec

\* A whole scan of a library that can be read and that nobody changes meanwhile ends with
\* the database in line with the disk, after any interruptions, failed transactions and
\* changes before it; unless a target was moved onto twice: the safety core of
\* EventuallyInSync, which adds that scans end.
THEOREM QuietScansSync ==
    ASSUME QuietWhole
    PROVE  Spec => []EndsInSync
<1>1. SyncInvariant => EndsInSync
  BY DEF SyncInvariant, EndsInSync
<1> QED
  BY <1>1, SyncInvariantHolds, PTL

-----------------------------------------------------------------------------
(* Moved files. *)

\* A file is at one place with its content, and so is its first row.
LEMMA OnePlace ==
    ASSUME FilesKept, NEW p \in Songs, NEW q \in Paths, NEW r \in Paths,
           files[q] # NoFile, files[r] # NoFile,
           files[q].content = InitFiles[p], files[r].content = InitFiles[p]
    PROVE  q = r
BY DEF FilesKept, Content

LEMMA SongsApart ==
    ASSUME OnlyMoves
    PROVE  /\ \A p, q \in Songs : InitFiles[p] = InitFiles[q] => p = q
           /\ \A p \in Songs : InitIds[p] \in Ids /\ Own(InitIds[p])
           /\ \A p, q \in Songs : InitIds[p] = InitIds[q] => p = q
BY InitIdsInjective DEF OnlyMoves, Songs, Own, Injective

\* What OnlyMoves assumes is more than scans need to end in sync.
LEMMA MovesAreQuiet == ASSUME OnlyMoves PROVE QuietWhole /\ "tags" \notin Faults
BY DEF OnlyMoves, QuietWhole, WholeLibrary

\* A step by which rows are marked or left as they are, outside phase 2.
LEMMA RowsStay ==
    ASSUME OnlyMoves, MovesKept, UNCHANGED <<files, doubled>>,
           library.started => library'.started, pc' # "idle" => library'.started,
           pc' # "moves",
           pc' \notin {"idle", "folders", "missing"} => \A i \in Ids : tracks'[i].st # "missing",
           \A i \in Ids :
             /\ tracks'[i].path = tracks[i].path /\ tracks'[i].content = tracks[i].content
             /\ tracks'[i].st # "free" <=> tracks[i].st # "free"
             /\ library.started => tracks'[i].recent = tracks[i].recent
             /\ tracks'[i].recent => tracks[i].recent
    PROVE  MovesKept'
<1>1. ~doubled /\ FilesKept /\ RowsKept /\ OwnRowsKept /\ NewRowsRecent
  BY DEF MovesKept
<1>2. \A p \in Songs : InitIds[p] \in Ids
  BY SongsApart
<1>3. FilesKept'
  BY <1>1 DEF FilesKept, Content, Songs
<1>4. RowsKept'
  BY <1>1 DEF RowsKept, Used, Songs
<1>5. OwnRowsKept'
  BY <1>1, <1>2 DEF OwnRowsKept, Used, Songs
<1>6. NewRowsRecent'
  <2> SUFFICES ASSUME NEW i \in Ids, tracks'[i].st # "free", ~Own(i)
               PROVE  /\ tracks'[i].recent /\ library'.started
                      /\ \A p \in Songs : tracks'[i].content = InitFiles[p] =>
                           files'[tracks'[InitIds[p]].path] = NoFile
    BY DEF NewRowsRecent, Own, Songs, Used
  <2>1. /\ tracks[i].recent /\ library.started
        /\ \A p \in Songs : tracks[i].content = InitFiles[p] =>
             files[tracks[InitIds[p]].path] = NoFile
    BY <1>1 DEF NewRowsRecent, Used
  <2> QED
    BY <1>2, <2>1
<1>7. FirstsMissing' /\ MatchesReady'
  BY DEF FirstsMissing, MatchesReady
<1> QED
  BY <1>1, <1>3, <1>4, <1>5, <1>6, <1>7 DEF MovesKept

\* Files move between scans, to places no row is about.
LEMMA DiskMoves ==
    ASSUME OnlyMoves, TypeOK, MovesKept, DiskStep
    PROVE  MovesKept'
<1>1. PICK p \in Paths, q \in Paths : Rename(p, q)
  BY DEF OnlyMoves, DiskStep, Write, Delete, RemoveFolder
<1>2. /\ files[p] # NoFile /\ files[q] = NoFile /\ RowsAt(q) = {} /\ pc = "idle"
      /\ files' = [files EXCEPT ![q] = files[p], ![p] = NoFile]
      /\ UNCHANGED <<library, folders, tracks, doubled, pc>>
  BY <1>1 DEF Rename, OnlyMoves, Tick, db, scan
<1>3. /\ files'[q] = files[p] /\ files'[p] = NoFile
      /\ \A r \in Paths : r # p /\ r # q => files'[r] = files[r]
  BY <1>2 DEF TypeOK
<1>4. FilesKept'
  <2>1. ASSUME NEW r \in Paths, files'[r] # NoFile
        PROVE  \E s \in Songs : files'[r].content = InitFiles[s]
    <3>1. PICK u \in Paths : files[u] # NoFile /\ files'[r] = files[u]
      BY <1>2, <1>3, <2>1
    <3> QED
      BY <3>1 DEF MovesKept, FilesKept, Content
  <2>2. ASSUME NEW s \in Songs PROVE \E r \in Paths : Content(r, s)'
    <3>1. PICK r \in Paths : Content(r, s)
      BY DEF MovesKept, FilesKept
    <3>2. Content(r, s)' \/ Content(q, s)'
      BY <1>2, <1>3, <3>1 DEF Content
    <3> QED
      BY <3>2
  <2>3. ASSUME NEW s \in Songs, NEW r \in Paths, NEW u \in Paths, Content(r, s)', Content(u, s)'
        PROVE  r = u
    <3> DEFINE old(x) == IF x = q THEN p ELSE x
    <3>1. Content(old(r), s) /\ Content(old(u), s) /\ r # p /\ u # p
      BY <1>2, <1>3, <2>3 DEF Content
    <3>2. old(r) = old(u)
      BY <3>1 DEF MovesKept, FilesKept
    <3> QED
      BY <3>1, <3>2
  <2> QED
    BY <2>1, <2>2, <2>3 DEF FilesKept, Songs, Content
<1>5. \A i \in Ids : Used(i) => /\ tracks[i].path # q /\ tracks[i].path \in Paths
                                /\ \/ files'[tracks[i].path] = NoFile
                                   \/ files'[tracks[i].path] = files[tracks[i].path]
  BY <1>2, <1>3 DEF RowsAt, TypeOK, Row
<1>6. RowsKept'
  BY <1>2, <1>5 DEF MovesKept, RowsKept, Used, Songs
<1>7. OwnRowsKept'
  BY <1>2 DEF MovesKept, OwnRowsKept, Used, Songs
<1>8. NewRowsRecent'
  <2>1. \A s \in Songs : InitIds[s] \in Ids /\ Used(InitIds[s])
    BY SongsApart DEF MovesKept, OwnRowsKept
  <2> QED
    BY <1>2, <1>5, <2>1 DEF MovesKept, NewRowsRecent, Used, Own, Songs
<1>9. FirstsMissing' /\ MatchesReady'
  BY <1>2 DEF FirstsMissing, MatchesReady
<1> QED
  BY <1>2, <1>4, <1>6, <1>7, <1>8, <1>9 DEF MovesKept

\* A new scan starts when no file has a second row.
LEMMA StartMoves ==
    ASSUME OnlyMoves, TypeOK, MovesKept, Start
    PROVE  MovesKept'
<1>1. PICK full \in BOOLEAN, targets \in SUBSET Folders : StartScan(full, targets)
  BY ScanAssumption DEF Start
<1>2. pc' = "folders" /\ UNCHANGED <<files, doubled>> /\ PrepareLibrary(forced')
  BY <1>1 DEF StartScan, disk
<1>3. library'.started
  BY <1>2 DEF PrepareLibrary
<1>4. ASSUME NEW i \in Ids
      PROVE  /\ tracks'[i].path = tracks[i].path /\ tracks'[i].st = tracks[i].st
             /\ tracks'[i].content = tracks[i].content
             /\ library.started => tracks'[i].recent = tracks[i].recent
             /\ tracks'[i].recent => tracks[i].recent
  <2>1. tracks[i] \in Row
    BY DEF TypeOK
  <2>2. CASE library.started
    BY <1>2, <2>2 DEF PrepareLibrary
  <2>3. CASE ~library.started
    <3>1. tracks'[i] = [tracks[i] EXCEPT !.recent = FALSE]
      BY <1>2, <2>3 DEF PrepareLibrary
    <3> QED
      BY <2>1, <2>3, <3>1 DEF Row
  <2> QED
    BY <2>2, <2>3
<1> QED
  BY <1>2, <1>3, <1>4, RowsStay

\* Steps that store no row and match none.
LEMMA OtherStepsMove ==
    ASSUME OnlyMoves, MovesKept,
           \/ \E f \in Folders : Walk(f) \/ Process(f) \/ PersistFails(f)
           \/ LoadAlbums \/ (\E a \in Albums : RefreshAlbum(a)) \/ CollectGarbage \/ Crash
    PROVE  MovesKept'
<1>1. UNCHANGED <<files, doubled, library, tracks>>
  BY DEF Walk, Process, PersistFails, LoadAlbums, RefreshAlbum, CollectGarbage, Crash, disk, db
<1>2. /\ pc # "idle" /\ pc' \in {"idle", "folders", "albums", "finish"}
      /\ pc' \in {"albums", "finish"} => pc \in {"touched", "albums"}
  BY DEF Walk, Process, PersistFails, LoadAlbums, RefreshAlbum, CollectGarbage, Crash, Forget
<1>3. pc \in {"touched", "albums"} => \A i \in Ids : tracks[i].st # "missing"
  BY DEF MovesKept, FirstsMissing
<1>4. library.started
  BY <1>2 DEF MovesKept
<1> QED
  BY <1>1, <1>2, <1>3, <1>4, RowsStay

LEMMA FinalizeFoldersMoves ==
    ASSUME OnlyMoves, TypeOK, MovesKept, FinalizeFolders
    PROVE  MovesKept'
<1>1. /\ pc = "folders" /\ pc' \in {"idle", "missing"} /\ UNCHANGED <<files, library, doubled>>
      /\ MarkPending
  BY DEF FinalizeFolders, Forget, disk
<1>2. ASSUME NEW i \in Ids
      PROVE  /\ tracks'[i].path = tracks[i].path /\ tracks'[i].content = tracks[i].content
             /\ tracks'[i].recent = tracks[i].recent
             /\ tracks'[i].st # "free" <=> tracks[i].st # "free"
  <2>1. tracks[i] \in Row
    BY DEF TypeOK
  <2> QED
    BY <1>1, <2>1 DEF MarkPending, Row
<1>3. library.started
  BY <1>1 DEF MovesKept
<1> QED
  BY <1>1, <1>2, <1>3, RowsStay

\* When phase 2 ends no row is missing, so that nothing is left to purge.
LEMMA FinalizeMissingMoves ==
    ASSUME OnlyMoves, MovesKept, FinalizeMissing PROVE MovesKept'
<1>1. pc = "moves" /\ pc' = "touched" /\ left = {} /\ UNCHANGED <<files, library, doubled>>
  BY DEF FinalizeMissing, disk
<1>2. library.started /\ \A i \in Ids : tracks[i].st # "missing"
  BY <1>1 DEF MovesKept, MatchesReady
<1>3. \A i \in Ids : tracks'[i] = tracks[i]
  BY <1>2 DEF FinalizeMissing
<1> QED
  BY <1>1, <1>2, <1>3, RowsStay

\* What storing a folder does to the rows, as far as moved files are concerned: a row
\* stays about the file at its place, and a new row is about a file without one.
LEMMA PersistKeeps ==
    ASSUME OnlyMoves, TypeOK, ScanInvariant, SyncInvariant, MovesKept, NEW g \in Folders, Persist(g)
    PROVE  /\ \A i \in Ids : Used(i) =>
                /\ Used(i)'
                /\ tracks'[i].path = tracks[i].path /\ tracks'[i].content = tracks[i].content
                /\ tracks'[i].recent = tracks[i].recent
           /\ \A i \in Ids : Used(i)' /\ ~Used(i) =>
                \E p \in OnDisk(g) :
                  /\ tracks'[i].path = p /\ tracks'[i].content = files[p].content
                  /\ tracks'[i].recent /\ RowsAt(p) = {}
<1>1. PICK h \in Placement(g) : StoreTracks(g, h)
  BY DEF Persist
<1>2. /\ pc = "folders" /\ ~failed /\ entry[g].stage = "processed" /\ ~doubled
      /\ entry[g].ver = ver[g] /\ RowsKept
  BY DEF Persist, MovesKept, SyncInvariant, Covered
<1>3. EntryLocal(g) /\ EntryCurrent(g)
  BY <1>2 DEF ScanInvariant
<1>4. /\ \A p \in Imports(g) : p \in OnDisk(g) /\ entry[g].imports[p] = files[p]
      /\ entry[g].gone \subseteq Ids
      /\ \A i \in entry[g].gone : Used(i)
  BY <1>2, <1>3 DEF EntryLocal, EntryCurrent, TypeOK, Entry
<1>5. /\ h \in [Imports(g) -> Ids]
      /\ \A p \in Imports(g) :
           /\ tracks'[h[p]].st = "ok" /\ tracks'[h[p]].path = p
           /\ tracks'[h[p]].content = entry[g].imports[p].content
           /\ RowsAt(p) # {} => h[p] \in RowsAt(p)
           /\ RowsAt(p) = {} => ~Used(h[p])
  BY <1>1, PersistRows
<1>6. ASSUME NEW p \in Imports(g)
      PROVE  /\ Used(h[p]) => tracks'[h[p]].recent = tracks[h[p]].recent
             /\ ~Used(h[p]) => tracks'[h[p]].recent
  <2>1. h[p] \in Ids /\ tracks[h[p]].recent \in BOOLEAN
    BY <1>5 DEF TypeOK, Row
  <2>2. tracks'[h[p]].recent = (Used(h[p]) => tracks[h[p]].recent)
    BY <1>1, <2>1 DEF StoreTracks
  <2> QED
    BY <2>1, <2>2
<1>7. ASSUME NEW i \in Ids, \A p \in Imports(g) : h[p] # i
      PROVE  /\ tracks'[i].path = tracks[i].path /\ tracks'[i].content = tracks[i].content
             /\ tracks'[i].recent = tracks[i].recent
             /\ tracks'[i].st = tracks[i].st \/ (Used(i) /\ tracks'[i].st = "missing")
  <2>1. tracks[i] \in Row
    BY DEF TypeOK
  <2>2. tracks'[i] = IF i \in entry[g].gone THEN [tracks[i] EXCEPT !.st = "missing"]
                     ELSE tracks[i]
    BY <1>1, <1>7 DEF StoreTracks
  <2> QED
    BY <1>4, <2>1, <2>2 DEF Row
<1>8. ASSUME NEW p \in Imports(g), Used(h[p])
      PROVE  /\ tracks[h[p]].path = p
             /\ tracks[h[p]].content = files[p].content
  <2>1. h[p] \in RowsAt(p) /\ files[p] # NoFile
    BY <1>4, <1>5, <1>8 DEF OnDisk
  <2> QED
    BY <1>2, <2>1 DEF RowsKept, RowsAt
<1>9. \A i \in Ids : Used(i) =>
        /\ Used(i)'
        /\ tracks'[i].path = tracks[i].path /\ tracks'[i].content = tracks[i].content
        /\ tracks'[i].recent = tracks[i].recent
  <2> SUFFICES ASSUME NEW i \in Ids, Used(i)
               PROVE  /\ Used(i)'
                      /\ tracks'[i].path = tracks[i].path
                      /\ tracks'[i].content = tracks[i].content
                      /\ tracks'[i].recent = tracks[i].recent
    OBVIOUS
  <2>1. ASSUME NEW p \in Imports(g), h[p] = i
        PROVE  /\ tracks'[i].st = "ok"
               /\ tracks'[i].path = tracks[i].path
               /\ tracks'[i].content = tracks[i].content
               /\ tracks'[i].recent = tracks[i].recent
    BY <1>4, <1>5, <1>6, <1>8, <2>1
  <2>2. CASE \E p \in Imports(g) : h[p] = i
    BY <2>1, <2>2 DEF Used
  <2>3. CASE \A p \in Imports(g) : h[p] # i
    BY <1>7, <2>3 DEF Used
  <2> QED
    BY <2>2, <2>3
<1>10. ASSUME NEW i \in Ids, Used(i)', ~Used(i)
       PROVE  \E p \in OnDisk(g) :
                /\ tracks'[i].path = p /\ tracks'[i].content = files[p].content
                /\ tracks'[i].recent /\ RowsAt(p) = {}
  <2>1. PICK p \in Imports(g) : h[p] = i
    BY <1>7, <1>10 DEF Used
  <2>2. RowsAt(p) = {}
    BY <1>5, <1>10, <2>1 DEF RowsAt
  <2> QED
    BY <1>4, <1>5, <1>6, <1>10, <2>1, <2>2
<1> QED
  BY <1>9, <1>10

\* A file gets a second row only away from the place of its first.
LEMMA PersistMoves ==
    ASSUME OnlyMoves, TypeOK, ScanInvariant, SyncInvariant, MovesKept, NEW g \in Folders, Persist(g)
    PROVE  MovesKept'
<1>1. pc = "folders" /\ pc' = "folders" /\ UNCHANGED <<files, library, doubled>>
  BY DEF Persist, disk
<1>2. ASSUME NEW i \in Ids, Used(i)
      PROVE  /\ Used(i)'
             /\ tracks'[i].path = tracks[i].path /\ tracks'[i].content = tracks[i].content
             /\ tracks'[i].recent = tracks[i].recent
  BY <1>2, PersistKeeps
<1>3. ASSUME NEW i \in Ids, Used(i)', ~Used(i)
      PROVE  \E p \in OnDisk(g) :
               /\ tracks'[i].path = p /\ tracks'[i].content = files[p].content
               /\ tracks'[i].recent /\ RowsAt(p) = {}
  BY <1>3, PersistKeeps
<1>4. ~doubled /\ library.started /\ FilesKept /\ RowsKept /\ OwnRowsKept /\ NewRowsRecent
  BY <1>1 DEF MovesKept
<1>5. FilesKept'
  BY <1>1, <1>4 DEF FilesKept, Content, Songs
<1>6. RowsKept'
  <2> SUFFICES ASSUME NEW i \in Ids, Used(i)'
               PROVE  /\ \E p \in Songs : tracks'[i].content = InitFiles[p]
                      /\ files'[tracks'[i].path] # NoFile =>
                           files'[tracks'[i].path].content = tracks'[i].content
    BY DEF RowsKept, Songs
  <2>1. CASE Used(i)
    BY <1>1, <1>2, <1>4, <2>1 DEF RowsKept
  <2>2. CASE ~Used(i)
    <3>1. PICK p \in OnDisk(g) : tracks'[i].path = p /\ tracks'[i].content = files[p].content
      BY <1>3, <2>2
    <3> QED
      BY <1>1, <1>4, <3>1 DEF FilesKept, Content, OnDisk, InFolder
  <2> QED
    BY <2>1, <2>2
<1>7. \A p \in Songs : /\ InitIds[p] \in Ids /\ Used(InitIds[p])
                       /\ tracks[InitIds[p]].path \in Paths
                       /\ tracks[InitIds[p]].content = InitFiles[p]
  BY <1>4, SongsApart DEF OwnRowsKept, TypeOK, Row
<1>8. OwnRowsKept'
  BY <1>2, <1>4, <1>7 DEF OwnRowsKept, Songs
<1>9. NewRowsRecent'
  <2> SUFFICES ASSUME NEW i \in Ids, Used(i)', ~Own(i)
               PROVE  /\ tracks'[i].recent /\ library'.started
                      /\ \A p \in Songs : tracks'[i].content = InitFiles[p] =>
                           files'[tracks'[InitIds[p]].path] = NoFile
    BY DEF NewRowsRecent, Own, Songs
  <2>1. CASE Used(i)
    BY <1>1, <1>2, <1>4, <1>7, <2>1 DEF NewRowsRecent
  <2>2. CASE ~Used(i)
    <3>1. PICK q \in OnDisk(g) :
            /\ tracks'[i].path = q /\ tracks'[i].content = files[q].content
            /\ tracks'[i].recent /\ RowsAt(q) = {}
      BY <1>3, <2>2
    <3>2. q \in Paths /\ files[q] # NoFile
      BY <3>1 DEF OnDisk, InFolder
    <3>3. ASSUME NEW p \in Songs, tracks'[i].content = InitFiles[p]
          PROVE  files[tracks[InitIds[p]].path] = NoFile
      <4>1. SUFFICES ASSUME files[tracks[InitIds[p]].path] # NoFile PROVE FALSE
        OBVIOUS
      <4>2. files[tracks[InitIds[p]].path].content = InitFiles[p]
        BY <1>4, <1>7, <4>1 DEF RowsKept
      <4>3. tracks[InitIds[p]].path = q
        BY <1>4, <1>7, <3>1, <3>2, <3>3, <4>1, <4>2, OnePlace
      <4> QED
        BY <1>7, <3>1, <4>3 DEF RowsAt
    <3> QED
      BY <1>1, <1>2, <1>4, <1>7, <3>1, <3>3
  <2> QED
    BY <2>1, <2>2
<1>10. FirstsMissing' /\ MatchesReady'
  BY <1>1 DEF FirstsMissing, MatchesReady
<1> QED
  BY <1>1, <1>4, <1>5, <1>6, <1>8, <1>9, <1>10 DEF MovesKept

\* Rows with the missing row's content come before any other match.
LEMMA ExactTargets ==
    ASSUME NEW table, NEW i, NEW j \in Ids, table[j].st = "ok", table[j].recent,
           table[j].content = table[i].content
    PROVE  Targets(table, i) = {k \in Ids : table[k].st = "ok" /\ table[k].recent
                                            /\ table[k].content = table[i].content}
<1> DEFINE exact == {k \in Matched(table, PidOf[table[i].content]) :
                        table[k].content = table[i].content}
<1>1. j \in exact
  BY DEF Matched
<1>2. Targets(table, i) = exact
  BY <1>1 DEF Targets
<1> QED
  BY <1>2 DEF Matched

\* From phase 2 on the rows that are not missing are the files.
LEMMA RowsAreFiles ==
    ASSUME TypeOK, SyncInvariant, MovesKept, pc \notin {"idle", "folders"}
    PROVE  /\ \A i \in Ids : tracks[i].st = "ok" => files[tracks[i].path] # NoFile
           /\ \A q \in Paths : files[q] # NoFile => \E i \in RowsAt(q) : tracks[i].st = "ok"
<1>1. InSync
  BY DEF SyncInvariant, MovesKept
<1>2. ASSUME NEW i \in Ids, tracks[i].st = "ok" PROVE files[tracks[i].path] # NoFile
  <2>1. FolderOf[tracks[i].path] \in Folders /\ i \in RowsIn(FolderOf[tracks[i].path])
    BY <1>2, ConstantTypes DEF TypeOK, Row, RowsIn, Used
  <2> QED
    BY <1>1, <1>2, <2>1 DEF InSync, Accurate
<1>3. ASSUME NEW q \in Paths, files[q] # NoFile PROVE \E i \in RowsAt(q) : tracks[i].st = "ok"
  <2>1. FolderOf[q] \in Folders /\ q \in OnDisk(FolderOf[q])
    BY <1>3, ConstantTypes DEF OnDisk, InFolder
  <2> QED
    BY <1>1, <2>1 DEF InSync, Accurate
<1> QED
  BY <1>2, <1>3

\* A row of a file at the place where the file is, and the one row there.
LEMMA OneRow ==
    ASSUME OnlyMoves, TypeOK, ScanInvariant, SyncInvariant, MovesKept, pc \notin {"idle", "folders"},
           NEW j \in Ids, NEW k \in Ids, tracks[j].st = "ok", tracks[k].st = "ok",
           tracks[j].content = tracks[k].content
    PROVE  j = k
<1>1. ~doubled /\ FilesKept /\ RowsKept
  BY DEF MovesKept
<1>2. Used(j) /\ Used(k) /\ tracks[j].path \in Paths /\ tracks[k].path \in Paths
  BY DEF Used, TypeOK, Row
<1>3. PICK p \in Songs : tracks[j].content = InitFiles[p]
  BY <1>1, <1>2 DEF RowsKept
<1>4. files[tracks[j].path] # NoFile /\ files[tracks[k].path] # NoFile
  BY RowsAreFiles
<1>5. tracks[j].path = tracks[k].path
  BY <1>1, <1>2, <1>3, <1>4, OnePlace DEF RowsKept
<1> QED
  BY <1>1, <1>2, <1>5 DEF ScanInvariant, UniquePaths, NoDoubleMove

\* The first row of the file a row is about.
LEMMA OwnRow ==
    ASSUME OnlyMoves, TypeOK, MovesKept, NEW i \in Ids, Used(i)
    PROVE  \E p \in Songs :
             /\ tracks[i].content = InitFiles[p] /\ InitIds[p] \in Ids
             /\ Used(InitIds[p]) /\ tracks[InitIds[p]].content = InitFiles[p]
             /\ ~tracks[InitIds[p]].recent /\ tracks[InitIds[p]].path \in Paths
             /\ Own(i) => i = InitIds[p]
<1>1. PICK p \in Songs : tracks[i].content = InitFiles[p]
  BY DEF MovesKept, RowsKept
<1>2. /\ InitIds[p] \in Ids /\ Used(InitIds[p]) /\ tracks[InitIds[p]].content = InitFiles[p]
      /\ ~tracks[InitIds[p]].recent /\ tracks[InitIds[p]].path \in Paths
  BY SongsApart DEF MovesKept, OwnRowsKept, TypeOK, Row
<1>3. ASSUME Own(i) PROVE i = InitIds[p]
  <2>1. PICK q \in Songs : InitIds[q] = i
    BY <1>3 DEF Own
  <2>2. InitFiles[q] = InitFiles[p]
    BY <1>1, <2>1 DEF MovesKept, OwnRowsKept
  <2> QED
    BY <2>1, <2>2, SongsApart
<1> QED
  BY <1>1, <1>2, <1>3

\* Phase 2 finds a match for each missing row, and if no two of them share one, then
\* only first rows are missing.
LEMMA LoadMissingMoves ==
    ASSUME OnlyMoves, TypeOK, ScanInvariant, SyncInvariant, MovesKept, LoadMissing, ~contested'
    PROVE  MovesKept'
<1>1. /\ pc = "missing" /\ pc' = "moves" /\ snap' = tracks
      /\ left' = {i \in Ids : tracks[i].st = "missing" /\ Targets(tracks, i) # {}}
      /\ \A i, k \in left' : Targets(tracks, i) \cap Targets(tracks, k) # {} => i = k
      /\ UNCHANGED <<files, library, tracks, doubled>>
  BY DEF LoadMissing, disk
<1>2. ~doubled /\ library.started /\ FilesKept /\ RowsKept /\ OwnRowsKept /\ NewRowsRecent
  BY <1>1 DEF MovesKept
<1>3. FilesKept' /\ RowsKept' /\ OwnRowsKept' /\ NewRowsRecent'
  BY <1>1, <1>2 DEF FilesKept, RowsKept, OwnRowsKept, NewRowsRecent, Content, Used, Own, Songs
<1>4. ASSUME NEW i \in Ids, tracks[i].st = "missing"
      PROVE  \E j \in Ids : /\ tracks[j].st = "ok" /\ tracks[j].recent
                            /\ tracks[j].content = tracks[i].content
  <2>1. Used(i)
    BY <1>4 DEF Used
  <2>2. PICK p \in Songs :
          /\ tracks[i].content = InitFiles[p] /\ InitIds[p] \in Ids
          /\ tracks[InitIds[p]].content = InitFiles[p]
          /\ Own(i) => i = InitIds[p]
    BY <2>1, OwnRow
  <2>3. PICK q \in Paths : Content(q, p)
    BY <1>2 DEF FilesKept
  <2>4. PICK j \in RowsAt(q) : tracks[j].st = "ok"
    BY <1>1, <2>3, RowsAreFiles DEF Content
  <2>5. j \in Ids /\ Used(j) /\ tracks[j].path = q /\ tracks[j].content = InitFiles[p]
    BY <1>2, <2>3, <2>4 DEF RowsAt, RowsKept, Content
  <2>6. j # InitIds[p]
    <3>1. CASE Own(i)
      BY <1>4, <2>2, <2>4, <3>1
    <3>2. CASE ~Own(i)
      BY <1>2, <2>1, <2>2, <2>3, <2>5, <3>2 DEF NewRowsRecent, Content
    <3> QED
      BY <3>1, <3>2
  <2>7. ~Own(j)
    <3>1. PICK s \in Songs : tracks[j].content = InitFiles[s] /\ (Own(j) => j = InitIds[s])
      BY <2>5, OwnRow
    <3>2. s = p
      BY <2>5, <3>1, SongsApart
    <3> QED
      BY <2>6, <3>1, <3>2
  <2> QED
    BY <1>2, <2>2, <2>4, <2>5, <2>7 DEF NewRowsRecent
<1>5. ASSUME NEW i \in Ids, tracks[i].st = "missing"
      PROVE  /\ i \in left'
             /\ Targets(tracks, i) # {}
             /\ Targets(tracks, i) = {k \in Ids : tracks[k].st = "ok" /\ tracks[k].recent
                                                  /\ tracks[k].content = tracks[i].content}
  <2>1. PICK j \in Ids : /\ tracks[j].st = "ok" /\ tracks[j].recent
                         /\ tracks[j].content = tracks[i].content
    BY <1>4, <1>5
  <2>2. Targets(tracks, i) = {k \in Ids : tracks[k].st = "ok" /\ tracks[k].recent
                                          /\ tracks[k].content = tracks[i].content}
    BY <2>1, ExactTargets
  <2> QED
    BY <1>1, <1>5, <2>1, <2>2
<1>6. ASSUME NEW i \in Ids, tracks[i].st = "missing" PROVE Own(i)
  <2>1. SUFFICES ASSUME ~Own(i) PROVE FALSE
    OBVIOUS
  <2>2. Used(i)
    BY <1>6 DEF Used
  <2>3. PICK p \in Songs :
          /\ tracks[i].content = InitFiles[p] /\ InitIds[p] \in Ids /\ Used(InitIds[p])
          /\ tracks[InitIds[p]].content = InitFiles[p]
    BY <2>2, OwnRow
  <2>4. files[tracks[InitIds[p]].path] = NoFile
    BY <1>2, <2>1, <2>2, <2>3 DEF NewRowsRecent
  <2>5. tracks[InitIds[p]].st = "missing"
    <3>1. tracks[InitIds[p]].st \in {"free", "ok", "missing"}
      BY <2>3 DEF TypeOK, Row
    <3> QED
      BY <1>1, <2>3, <2>4, <3>1, RowsAreFiles DEF Used
  <2>6. i = InitIds[p]
    BY <1>1, <1>5, <1>6, <2>3, <2>5
  <2> QED
    BY <2>1, <2>3, <2>6 DEF Own
<1>7. FirstsMissing'
  BY <1>1, <1>6 DEF FirstsMissing, Own, Songs
<1>8. MatchesReady'
  <2>1. \A i \in Ids : tracks[i].st = "missing" => i \in left'
    BY <1>5
  <2>2. \A i \in left' : \E j \in Ids :
          /\ tracks[j].st = "ok" /\ tracks[j].recent /\ tracks[j].content = tracks[i].content
    BY <1>1, <1>4
  <2>3. \A j, k \in Ids :
          /\ tracks[j].st = "ok" /\ tracks[k].st = "ok"
          /\ tracks[j].content = tracks[k].content
          => j = k
    BY <1>1, OneRow
  <2> QED
    BY <1>1, <2>1, <2>2, <2>3 DEF MatchesReady
<1> QED
  BY <1>1, <1>2, <1>3, <1>7, <1>8 DEF MovesKept

\* A first row takes the place of the row the scan added for its file.
LEMMA MoveTrackMoves ==
    ASSUME OnlyMoves, TypeOK, ScanInvariant, SyncInvariant, MovesKept, NEW i \in Ids, MoveTrack(i)
    PROVE  MovesKept'
<1>1. /\ pc = "moves" /\ pc' = "moves" /\ i \in left /\ left' = left \ {i}
      /\ UNCHANGED <<files, library, snap>>
  BY DEF MoveTrack, disk
<1>2. PICK j \in Targets(snap, i) :
        /\ tracks' = [tracks EXCEPT ![i] = [snap[j] EXCEPT !.recent = tracks[i].recent],
                                    ![j] = FreeRow]
        /\ doubled' = (doubled \/ tracks[j].st = "free")
  BY DEF MoveTrack
<1>3. /\ ~doubled /\ library.started /\ FilesKept /\ RowsKept /\ OwnRowsKept /\ NewRowsRecent
      /\ FirstsMissing /\ MatchesReady
  BY <1>1 DEF MovesKept
<1>4. \A k \in left : snap[k].st = "missing" /\ tracks[k] = snap[k]
  BY <1>1 DEF ScanInvariant, SnapFaithful
<1>5. PICK m \in Ids : /\ snap[m].st = "ok" /\ snap[m].recent
                       /\ snap[m].content = tracks[i].content /\ tracks[m] = snap[m]
  BY <1>1, <1>3 DEF MatchesReady
<1>6. /\ j \in Ids /\ tracks[j] = snap[j] /\ snap[j].st = "ok" /\ snap[j].recent
      /\ snap[j].content = tracks[i].content
  <2>1. Targets(snap, i) = {k \in Ids : snap[k].st = "ok" /\ snap[k].recent
                                        /\ snap[k].content = snap[i].content}
    BY <1>1, <1>4, <1>5, ExactTargets
  <2>2. j \in Ids /\ snap[j].st = "ok" /\ snap[j].content = tracks[i].content
    BY <1>1, <1>4, <2>1
  <2>3. j = m
    BY <1>1, <1>3, <1>5, <2>2 DEF MatchesReady
  <2> QED
    BY <1>5, <2>3
<1>7. ~doubled' /\ i # j /\ tracks[i].st = "missing" /\ Used(i) /\ Used(j)
  BY <1>1, <1>2, <1>3, <1>4, <1>6 DEF Used
<1>8. /\ tracks'[i].st = "ok" /\ tracks'[i].path = tracks[j].path
      /\ tracks'[i].content = tracks[j].content /\ tracks'[i].recent = tracks[i].recent
      /\ tracks'[j].st = "free"
      /\ \A k \in Ids : k # i /\ k # j => tracks'[k] = tracks[k]
  <2>1. tracks'[i] = [snap[j] EXCEPT !.recent = tracks[i].recent] /\ tracks'[j] = FreeRow
        /\ \A k \in Ids : k # i /\ k # j => tracks'[k] = tracks[k]
    BY <1>2, <1>6, <1>7 DEF TypeOK
  <2>2. snap[j] \in Row
    BY <1>6 DEF TypeOK
  <2> QED
    BY <1>6, <2>1, <2>2 DEF Row, FreeRow
<1>9. PICK p \in Songs : /\ tracks[i].content = InitFiles[p] /\ i = InitIds[p]
                         /\ ~tracks[i].recent
  <2>1. Own(i)
    BY <1>1, <1>3, <1>7 DEF FirstsMissing
  <2> QED
    BY <1>7, <2>1, OwnRow
<1>10. ~Own(j)
  BY <1>3, <1>6 DEF Own, OwnRowsKept
<1>11. FilesKept'
  BY <1>1, <1>3 DEF FilesKept, Content, Songs
<1>12. RowsKept'
  <2> SUFFICES ASSUME NEW k \in Ids, Used(k)'
               PROVE  /\ \E s \in Songs : tracks'[k].content = InitFiles[s]
                      /\ files'[tracks'[k].path] # NoFile =>
                           files'[tracks'[k].path].content = tracks'[k].content
    BY DEF RowsKept, Songs
  <2> DEFINE old == IF k = i THEN j ELSE k
  <2>1. /\ old \in Ids /\ Used(old) /\ tracks'[k].content = tracks[old].content
        /\ tracks'[k].path = tracks[old].path /\ tracks'[k].st = tracks[old].st
    BY <1>6, <1>7, <1>8 DEF Used
  <2> HIDE DEF old
  <2> QED
    BY <1>1, <1>3, <2>1 DEF RowsKept
<1>13. OwnRowsKept'
  <2>1. ASSUME NEW s \in Songs
        PROVE  /\ tracks'[InitIds[s]].st # "free" /\ ~tracks'[InitIds[s]].recent
               /\ tracks'[InitIds[s]].content = InitFiles[s]
    <3>1. InitIds[s] \in Ids /\ InitIds[s] # j
      BY <1>10, SongsApart
    <3>2. CASE InitIds[s] = i
      <4>1. s = p
        BY <1>9, <3>2, SongsApart
      <4> QED
        BY <1>6, <1>8, <1>9, <3>2, <4>1
    <3>3. CASE InitIds[s] # i
      BY <1>3, <1>8, <3>1, <3>3 DEF OwnRowsKept, Used
    <3> QED
      BY <3>2, <3>3
  <2> QED
    BY <2>1 DEF OwnRowsKept, Used, Songs
<1>14. NewRowsRecent'
  <2> SUFFICES ASSUME NEW k \in Ids, Used(k)', ~Own(k)
               PROVE  /\ tracks'[k].recent /\ library'.started
                      /\ \A s \in Songs : tracks'[k].content = InitFiles[s] =>
                           files'[tracks'[InitIds[s]].path] = NoFile
    BY DEF NewRowsRecent, Own, Songs
  <2>1. k # i /\ k # j /\ tracks'[k] = tracks[k] /\ Used(k)
    BY <1>8, <1>9 DEF Own, Used
  <2>2. tracks[k].content # InitFiles[p]
    <3>1. SUFFICES ASSUME tracks[k].content = InitFiles[p] PROVE FALSE
      OBVIOUS
    <3>2. tracks[k].st = "ok"
      <4>1. tracks[k].st \in {"free", "ok", "missing"}
        BY DEF TypeOK, Row
      <4> QED
        BY <1>1, <1>3, <2>1, <4>1 DEF FirstsMissing, Used
    <3> QED
      BY <1>1, <1>6, <1>9, <2>1, <3>1, <3>2, OneRow
  <2>3. ASSUME NEW s \in Songs, tracks[k].content = InitFiles[s]
        PROVE  tracks'[InitIds[s]] = tracks[InitIds[s]]
    <3>1. s # p /\ InitIds[s] \in Ids /\ InitIds[s] # j
      BY <1>10, <2>2, <2>3, SongsApart
    <3>2. InitIds[s] # i
      BY <1>9, <3>1, SongsApart
    <3> QED
      BY <1>8, <3>1, <3>2
  <2> QED
    BY <1>1, <1>3, <2>1, <2>3 DEF NewRowsRecent
<1>15. FirstsMissing'
  <2>1. \A k \in Ids : tracks'[k].st = "missing" => Own(k)
    BY <1>1, <1>3, <1>8 DEF FirstsMissing
  <2> QED
    BY <1>1, <2>1 DEF FirstsMissing, Own, Songs
<1>16. MatchesReady'
  <2>1. \A k \in Ids : tracks'[k].st = "missing" => k \in left'
    BY <1>1, <1>3, <1>8 DEF MatchesReady
  <2>2. ASSUME NEW k \in left'
        PROVE  \E n \in Ids : /\ snap[n].st = "ok" /\ snap[n].recent
                              /\ snap[n].content = tracks'[k].content /\ tracks'[n] = snap[n]
    <3>1. k \in Ids /\ k \in left /\ k # i /\ k # j /\ tracks[k].st = "missing"
      BY <1>1, <1>4, <1>6, <2>2 DEF TypeOK
    <3>2. PICK n \in Ids : /\ snap[n].st = "ok" /\ snap[n].recent
                           /\ snap[n].content = tracks[k].content /\ tracks[n] = snap[n]
      BY <1>3, <1>1, <3>1 DEF MatchesReady
    <3>3. n # i
      BY <1>1, <1>4, <3>2
    <3>4. tracks[k].content # InitFiles[p]
      <4>1. Used(k) /\ Own(k)
        BY <1>1, <1>3, <3>1 DEF FirstsMissing, Used
      <4>2. PICK s \in Songs : tracks[k].content = InitFiles[s] /\ k = InitIds[s]
        BY <3>1, <4>1, OwnRow
      <4> QED
        BY <1>9, <3>1, <4>2, SongsApart
    <3>5. n # j
      BY <1>6, <1>9, <3>2, <3>4
    <3> QED
      BY <1>8, <3>1, <3>2, <3>3, <3>5
  <2> QED
    BY <1>1, <1>3, <2>1, <2>2 DEF MatchesReady
<1> QED
  BY <1>1, <1>3, <1>7, <1>11, <1>12, <1>13, <1>14, <1>15, <1>16 DEF MovesKept

\* When a scan ends, the first row of each file is where the file is.
LEMMA EndKeepsIds ==
    ASSUME OnlyMoves, TypeOK, SyncInvariant, MovesKept, pc = "finish", NEW p \in Songs
    PROVE  /\ tracks[InitIds[p]].st = "ok"
           /\ files[tracks[InitIds[p]].path] # NoFile
           /\ KeepsId(p)
<1>1. FilesKept /\ RowsKept /\ OwnRowsKept /\ FirstsMissing
  BY DEF MovesKept
<1>2. InitIds[p] \in Ids /\ Used(InitIds[p]) /\ tracks[InitIds[p]].content = InitFiles[p]
  BY <1>1, SongsApart DEF OwnRowsKept
<1>3. tracks[InitIds[p]].st \in {"free", "ok", "missing"} /\ tracks[InitIds[p]].path \in Paths
  BY <1>2 DEF TypeOK, Row
<1>4. tracks[InitIds[p]].st = "ok" /\ files[tracks[InitIds[p]].path] # NoFile
  BY <1>1, <1>2, <1>3, RowsAreFiles DEF FirstsMissing, Used
<1>5. files[tracks[InitIds[p]].path].content = InitFiles[p]
  BY <1>1, <1>2, <1>4 DEF RowsKept
<1>6. KeepsId(p)
  BY <1>1, <1>3, <1>4, <1>5, OnePlace DEF KeepsId
<1> QED
  BY <1>4, <1>6

\* And no file has another row.
LEMMA UpdateLibrariesMoves ==
    ASSUME OnlyMoves, TypeOK, SyncInvariant, MovesKept, UpdateLibraries
    PROVE  MovesKept'
<1>1. /\ pc = "finish" /\ pc' = "idle" /\ UNCHANGED <<files, tracks, doubled>>
  BY DEF UpdateLibraries, Forget, disk
<1>2. ~doubled /\ FilesKept /\ RowsKept /\ OwnRowsKept /\ NewRowsRecent
  BY DEF MovesKept
<1>3. ASSUME NEW i \in Ids, Used(i) PROVE Own(i)
  <2>1. PICK p \in Songs : tracks[i].content = InitFiles[p]
    BY <1>2, <1>3 DEF RowsKept
  <2> QED
    BY <1>1, <1>2, <1>3, <2>1, EndKeepsIds DEF NewRowsRecent
<1>4. FilesKept' /\ RowsKept' /\ OwnRowsKept'
  BY <1>1, <1>2 DEF FilesKept, RowsKept, OwnRowsKept, Content, Used, Songs
<1>5. NewRowsRecent'
  BY <1>1, <1>3 DEF NewRowsRecent, Used, Own, Songs
<1>6. FirstsMissing' /\ MatchesReady'
  BY <1>1 DEF FirstsMissing, MatchesReady
<1> QED
  BY <1>1, <1>2, <1>4, <1>5, <1>6 DEF MovesKept

LEMMA StutterMoves ==
    ASSUME MovesKept, UNCHANGED vars PROVE MovesKept'
<1>1. UNCHANGED <<files, library, tracks, doubled, pc, snap, left>>
  BY DEF vars, disk, db, scan
<1> QED
  BY <1>1 DEF MovesKept, FilesKept, RowsKept, OwnRowsKept, NewRowsRecent, FirstsMissing,
              MatchesReady, Content, Used, Own, Songs

\* A library that was imported has one row for each of its files, at its place.
LEMMA InitMoves == ASSUME OnlyMoves, Init PROVE MovesKept
<1>1. /\ pc = "idle" /\ ~doubled
      /\ files = [p \in Paths |-> IF InitFiles[p] = NoFile THEN NoFile
                                  ELSE [content |-> InitFiles[p], mtime |-> 1]]
  BY DEF Init
<1>2. tracks = InitTracks
  BY DEF Init, OnlyMoves
<1>3. ASSUME NEW p \in Paths
      PROVE  /\ files[p] # NoFile <=> p \in Songs
             /\ p \in Songs => files[p].content = InitFiles[p]
  <2>1. CASE InitFiles[p] = NoFile
    BY <1>1, <2>1 DEF Songs
  <2>2. CASE InitFiles[p] # NoFile
    <3>1. files[p] = [content |-> InitFiles[p], mtime |-> 1] /\ InitFiles[p] \in Contents
      BY <1>1, <2>2, ScanAssumption
    <3>2. files[p] \in File
      BY <3>1 DEF File
    <3> QED
      BY <2>2, <3>1, <3>2, ScanAssumption DEF Songs
  <2> QED
    BY <2>1, <2>2
<1>4. ASSUME NEW p \in Songs
      PROVE  /\ InitIds[p] \in Ids
             /\ tracks[InitIds[p]].st = "ok" /\ tracks[InitIds[p]].path = p
             /\ tracks[InitIds[p]].content = InitFiles[p] /\ ~tracks[InitIds[p]].recent
  <2> DEFINE i == InitIds[p]
  <2>1. i \in Ids /\ p \in Paths /\ InitFiles[p] # NoFile
    BY SongsApart DEF Songs
  <2>2. (CHOOSE q \in Paths : InitFiles[q] # NoFile /\ InitIds[q] = i) = p
    <3>1. \A q \in Paths : InitIds[q] = i => q = p
      BY <2>1, InitIdsInjective DEF Injective
    <3> QED
      BY <2>1, <3>1
  <2>3. tracks[i] = [st |-> "ok", path |-> p, content |-> InitFiles[p], mtime |-> 1,
                     recent |-> FALSE]
    BY <1>2, <2>1, <2>2 DEF InitTracks
  <2> QED
    BY <2>1, <2>3
<1>5. ASSUME NEW i \in Ids, Used(i) PROVE \E p \in Songs : InitIds[p] = i
  BY <1>2, <1>5 DEF InitTracks, Used, FreeRow, Songs
<1>6. FilesKept
  <2>1. \A p \in Songs : p \in Paths
    BY DEF Songs
  <2>2. \A p, q \in Songs : InitFiles[p] = InitFiles[q] => p = q
    BY SongsApart
  <2> QED
    BY <1>3, <2>1, <2>2 DEF FilesKept, Content
<1>7. RowsKept
  <2> SUFFICES ASSUME NEW i \in Ids, Used(i)
               PROVE  /\ \E p \in Songs : tracks[i].content = InitFiles[p]
                      /\ files[tracks[i].path].content = tracks[i].content
    BY DEF RowsKept
  <2>1. PICK p \in Songs : InitIds[p] = i
    BY <1>5
  <2>2. p \in Paths
    BY DEF Songs
  <2> QED
    BY <1>3, <1>4, <2>1, <2>2
<1>8. OwnRowsKept
  BY <1>4 DEF OwnRowsKept, Used
<1>9. NewRowsRecent
  BY <1>5 DEF NewRowsRecent, Own
<1>10. FirstsMissing /\ MatchesReady
  BY <1>1 DEF FirstsMissing, MatchesReady
<1> QED
  BY <1>1, <1>6, <1>7, <1>8, <1>9, <1>10 DEF MovesKept

\* The history of contested matches is not forgotten.
LEMMA ContestedStays == ASSUME [Next]_vars, contested PROVE contested'
BY DEF Next, DiskStep, Start, ScanStep, Write, Rename, Delete, RemoveFolder, StartScan, Walk,
       Process, Persist, PersistFails, FinalizeFolders, LoadMissing, MoveTrack,
       FinalizeMissing, LoadAlbums, RefreshAlbum, CollectGarbage, UpdateLibraries, Crash,
       vars, db

LEMMA NextMoves ==
    ASSUME OnlyMoves, TypeOK, ScanInvariant, SyncInvariant, MovesInvariant, [Next]_vars
    PROVE  MovesInvariant'
<1> SUFFICES ASSUME ~contested' PROVE MovesKept'
  BY DEF MovesInvariant
<1>1. MovesKept
  BY ContestedStays DEF MovesInvariant
<1>2. CASE \/ \E f \in Folders : Walk(f) \/ Process(f) \/ PersistFails(f)
           \/ LoadAlbums \/ (\E a \in Albums : RefreshAlbum(a)) \/ CollectGarbage \/ Crash
  BY <1>1, <1>2, OtherStepsMove
<1>3. CASE (\E f \in Folders : Persist(f)) \/ FinalizeFolders \/ UpdateLibraries
  BY <1>1, <1>3, PersistMoves, FinalizeFoldersMoves, UpdateLibrariesMoves
<1>4. CASE LoadMissing \/ (\E i \in Ids : MoveTrack(i)) \/ FinalizeMissing
  BY <1>1, <1>4, LoadMissingMoves, MoveTrackMoves, FinalizeMissingMoves
<1>5. CASE DiskStep \/ Start \/ UNCHANGED vars
  BY <1>1, <1>5, DiskMoves, StartMoves, StutterMoves
<1> QED
  BY <1>2, <1>3, <1>4, <1>5 DEF Next, ScanStep

\* The inductive invariant: while files are only moved between scans, and until two
\* missing tracks have a match in common, every row is about a file that is still in the
\* library, each file keeps its first row, and a second one is there only between the
\* phase that adds it (phase 1) and the one that gives its place to the first (phase 2).
THEOREM MovesInvariantHolds ==
    ASSUME OnlyMoves
    PROVE  Spec => []MovesInvariant
<1>1. QuietWhole /\ "tags" \notin Faults
  BY MovesAreQuiet
<1>2. Init => MovesInvariant
  BY InitMoves DEF MovesInvariant
<1>3. TypeOK /\ ScanInvariant /\ SyncInvariant /\ MovesInvariant /\ [Next]_vars => MovesInvariant'
  BY NextMoves
<1>4. Spec => []ScanInvariant /\ []SyncInvariant
  BY <1>1, ScanInvariantHolds, SyncInvariantHolds
<1> QED
  BY <1>2, <1>3, <1>4, TypeCorrect, PTL DEF Spec

\* While files are only moved to new places between scans, a scan that completes leaves
\* every file with the track id it was imported with (scanner/README.md:381-386), for
\* every library, wherever earlier scans were interrupted.
THEOREM MovesKeepIds ==
    ASSUME OnlyMoves
    PROVE  Spec => MovedFilesKeepIds
<1>1. TypeOK /\ SyncInvariant /\ MovesInvariant /\ [Next]_vars =>
        [pc = "finish" /\ pc' = "idle" /\ ~library'.started /\ ~contested
           => \A p \in Paths : InitFiles[p] # NoFile => KeepsId(p)]_vars
  BY EndKeepsIds DEF MovesInvariant, Songs
<1>2. Spec => []SyncInvariant
  BY MovesAreQuiet, SyncInvariantHolds
<1> QED
  BY <1>1, <1>2, MovesInvariantHolds, TypeCorrect, PTL DEF Spec, MovedFilesKeepIds
=============================================================================
