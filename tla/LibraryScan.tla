----------------------------- MODULE LibraryScan -----------------------------
(***************************************************************************)
(* The scan pipeline of one library (scanner/scanner.go and its phases 1   *)
(* to 3): the music files on disk, the rows the scanner keeps about them,  *)
(* and the scan that brings the second in line with the first while files  *)
(* keep changing and the process may die between any two transactions.     *)
(*                                                                         *)
(* Time.  The code compares timestamps.  The model has one clock that      *)
(* ticks at every change on disk, so a folder's modification time and a    *)
(* file's mtime are clock values; the comparisons with the start of the    *)
(* scan are kept as the flag they decide: `fresh` (folder.updated_at is    *)
(* not before library.last_scan_started_at), `recent` (media_file          *)
(* .created_at is after it) and `touched` (album.imported_at is after      *)
(* library.last_scan_at).                                                  *)
(*                                                                         *)
(* One library, folders without subfolders: the single-library             *)
(* installation, for which phase 2 skips its cross-library stage.          *)
(***************************************************************************)
EXTENDS Integers, FiniteSets

CONSTANTS
    Folders,       \* directories of the library
    Paths,         \* places a music file can be
    FolderOf,      \* [Paths -> Folders], the directory of a path
    BaseOf,        \* base name of a path, what MediaFile.IsEquivalent compares
    Contents,      \* what is inside a file: its tags and its audio
    PidOf,         \* persistent id computed from the tags
    AlbumOf,       \* album id computed from the tags
    Albums,        \* album ids
    Ids,           \* media_file ids
    NoFile,        \* no file at a path
    InitFiles,     \* [Paths -> Contents \cup {NoFile}], the disk at the start
    Imported,      \* whether the database may already describe InitFiles, or not yet
    Requests,      \* scans that may be asked for: <<full, target folders>>
    FsOps,         \* what users do to the disk
    QuietScans,    \* whether the disk stays as it is while a scan runs
    Faults,        \* what may fail during a scan
    PurgeMissing,  \* conf.Server.Scanner.PurgeMissing
    MaxClock,      \* bound on the changes on disk
    MaxCrashes     \* bound on the interruptions of a scan

\* A folder row without a hash.  Definitions named ...Bug are plausible mistakes
\* in the definition that follows them; the properties must notice them.
NoHashBug == -1
NoHash == 0
File == [content : Contents, mtime : Nat]
Row == [st : {"free", "ok", "missing"}, path : Paths, content : Contents,
        mtime : Nat, recent : BOOLEAN]
FolderRow == [st : {"none", "ok", "missing"}, hash : Nat, fresh : BOOLEAN,
              empty : BOOLEAN]
TrackPart == [path : Paths, content : Contents, missing : BOOLEAN]
Album == [used : BOOLEAN, touched : BOOLEAN, parts : SUBSET TrackPart]
Entry == [stage : {"none", "walked", "processed"}, ver : Nat, list : SUBSET Paths,
          imports : [Paths -> File \cup {NoFile}], gone : SUBSET Ids]

ASSUME ScanAssumption ==
    /\ FolderOf \in [Paths -> Folders]
    /\ PidOf \in [Contents -> Contents]
    /\ AlbumOf \in [Contents -> Albums]
    /\ Paths # {} /\ Contents # {}
    /\ NoFile \notin File /\ NoFile \notin Contents
    /\ InitFiles \in [Paths -> Contents \cup {NoFile}]
    /\ Imported \subseteq BOOLEAN /\ QuietScans \in BOOLEAN
    /\ Requests \subseteq BOOLEAN \X SUBSET Folders
    /\ FsOps \subseteq {"write", "rename", "move", "delete", "rmdir"}
    /\ Faults \subseteq {"tags", "walk", "job", "db"}
    /\ PurgeMissing \in {"never", "always", "full"}
    /\ MaxClock \in Nat /\ MaxCrashes \in Nat

Injective(g) == \A p, q \in DOMAIN g : g[p] = g[q] => p = q

\* There are enough ids for the files of the library.
ASSUME IdsAssumption == \E g \in [Paths -> Ids] : Injective(g)

VARIABLES
    clock,     \* changes on disk so far
    dirs,      \* directories that exist
    files,     \* the file at each path
    ver,       \* newest modification time found in a directory
    library,   \* library row: scan started (not ended), full scan in progress
    folders,   \* folder rows
    tracks,    \* media_file rows by id
    albums,    \* album rows
    doubled,   \* history: a move target was used for a second missing track
    contested, \* history: two missing tracks had a match in common
    pc,        \* step of the running scan
    forced,    \* scanState.fullScan
    changed,   \* scanState.changesDetected
    failed,    \* phase 1 saw an error
    pending,   \* scanJob.lastUpdates: known folders not found yet
    todo,      \* folders the walker has still to visit
    entry,     \* folderEntry of each folder inside the pipeline
    snap,      \* what phase 2 read from media_file
    left,      \* missing tracks phase 2 has still to match
    stale,     \* touched albums phase 3 has still to look at
    crashes    \* interruptions so far

disk == <<clock, dirs, files, ver>>
db == <<library, folders, tracks, albums, doubled, contested>>
scan == <<pc, forced, changed, failed, pending, todo, entry, snap, left, stale>>
vars == <<disk, db, scan, crashes>>

-----------------------------------------------------------------------------
\* Rows

FreeRow == [st |-> "free", path |-> CHOOSE p \in Paths : TRUE,
            content |-> CHOOSE c \in Contents : TRUE, mtime |-> 0,
            recent |-> FALSE]
FreeTable == [i \in Ids |-> FreeRow]
NoRow == [st |-> "none", hash |-> NoHash, fresh |-> FALSE, empty |-> TRUE]
NoAlbum == [used |-> FALSE, touched |-> FALSE, parts |-> {}]

Nothing == [p \in Paths |-> NoFile]
NoEntry == [stage |-> "none", ver |-> 0, list |-> {}, imports |-> Nothing,
            gone |-> {}]

Used(i) == tracks[i].st # "free"
InFolder(f) == {p \in Paths : FolderOf[p] = f}
OnDisk(f) == {p \in InFolder(f) : files[p] # NoFile}
RowsAt(p) == {i \in Ids : Used(i) /\ tracks[i].path = p}
RowsIn(f) == {i \in Ids : Used(i) /\ FolderOf[tracks[i].path] = f}

\* The row a lookup by path returns: the one entry of the dbTracks map, and
\* the row putByMatch finds.
RowAt(p) == CHOOSE i \in RowsAt(p) : TRUE

\* MediaFiles.ToAlbum: what an album row aggregates over its tracks.
Part(r) == [path |-> r.path, content |-> r.content, missing |-> r.st = "missing"]
Summary(a) ==
    {Part(tracks[i]) : i \in {j \in Ids : Used(j) /\ AlbumOf[tracks[j].content] = a}}

-----------------------------------------------------------------------------
\* The disk, changed by users at any moment

Tick ==
    /\ clock < MaxClock
    /\ QuietScans => pc = "idle"
    /\ clock' = clock + 1

Write(p, c) ==
    /\ "write" \in FsOps
    /\ Tick
    /\ files' = [files EXCEPT ![p] = [content |-> c, mtime |-> clock']]
    /\ ver' = [ver EXCEPT ![FolderOf[p]] = clock']
    /\ dirs' = dirs \cup {FolderOf[p]}
    /\ UNCHANGED <<db, scan, crashes>>

\* With "move" alone, a file is only renamed to a place no row is about.
Rename(p, q) ==
    /\ files[p] # NoFile /\ files[q] = NoFile
    /\ \/ "rename" \in FsOps
       \/ "move" \in FsOps /\ RowsAt(q) = {}
    /\ Tick
    /\ files' = [files EXCEPT ![q] = files[p], ![p] = NoFile]
    /\ ver' = [ver EXCEPT ![FolderOf[p]] = clock', ![FolderOf[q]] = clock']
    /\ dirs' = dirs \cup {FolderOf[q]}
    /\ UNCHANGED <<db, scan, crashes>>

Delete(p) ==
    /\ "delete" \in FsOps
    /\ files[p] # NoFile
    /\ Tick
    /\ files' = [files EXCEPT ![p] = NoFile]
    /\ ver' = [ver EXCEPT ![FolderOf[p]] = clock']
    /\ UNCHANGED <<dirs, db, scan, crashes>>

RemoveFolder(f) ==
    /\ "rmdir" \in FsOps
    /\ f \in dirs
    /\ Tick
    /\ files' = [p \in Paths |-> IF FolderOf[p] = f THEN NoFile ELSE files[p]]
    /\ ver' = [ver EXCEPT ![f] = clock']
    /\ dirs' = dirs \ {f}
    /\ UNCHANGED <<db, scan, crashes>>

-----------------------------------------------------------------------------
\* Start of a scan

\* The scan's own memory, dropped when the scan ends, fails or dies.
Forget ==
    /\ pc' = "idle"
    /\ forced' = FALSE /\ changed' = FALSE /\ failed' = FALSE
    /\ pending' = {} /\ todo' = {} /\ left' = {} /\ stale' = {}
    /\ entry' = [f \in Folders |-> NoEntry]
    /\ snap' = FreeTable

\* The start time is set anew when an interrupted scan is resumed.
PrepareLibraryBug(full) ==
    /\ library' = [started |-> TRUE, full |-> full]
    /\ folders' = [f \in Folders |-> [folders[f] EXCEPT !.fresh = FALSE]]
    /\ tracks' = [i \in Ids |-> [tracks[i] EXCEPT !.recent = FALSE]]

\* A library whose last_scan_started_at is zero begins a new scan: every row
\* is now older than the scan.  Otherwise the scan resumes the interrupted
\* one and the library row stays as it is.
PrepareLibrary(full) ==
    IF library.started
    THEN UNCHANGED <<library, folders, tracks>>
    ELSE /\ library' = [started |-> TRUE, full |-> full]
         /\ folders' = [f \in Folders |-> [folders[f] EXCEPT !.fresh = FALSE]]
         /\ tracks' = [i \in Ids |-> [tracks[i] EXCEPT !.recent = FALSE]]

\* createPhaseFolders: lastUpdates of the target folders.  A library whose
\* storage cannot be opened gets no job; the scan goes on without it.
CreateJob(targets) ==
    \/ /\ todo' = IF targets = {} THEN Folders ELSE targets
       /\ pending' = {f \in todo' : folders[f].st = "ok"}
    \/ /\ "job" \in Faults
       /\ todo' = {} /\ pending' = {}

StartScan(full, targets) ==
    /\ pc = "idle"
    /\ <<full, targets>> \in Requests
    /\ pc' = "folders"
    /\ forced' = (full \/ library.full)
    /\ changed' = full
    /\ PrepareLibrary(forced')
    /\ CreateJob(targets)
    /\ UNCHANGED <<disk, albums, doubled, contested, failed, entry, snap, left, stale,
                   crashes>>

-----------------------------------------------------------------------------
\* Phase 1: folders

\* A full scan relies on the hash as well.
OutdatedBug(f) == f \notin pending \/ folders[f].hash # ver[f]

\* folderEntry.isOutdated, for a folder whose lastUpdates entry is known or
\* has zero values.
Outdated(f) ==
    \/ f \notin pending
    \/ forced /\ ~folders[f].fresh
    \/ folders[f].hash # ver[f]

\* walkFolder, loadDir and the filter of the producer.
Walk(f) ==
    /\ pc = "folders" /\ ~failed
    /\ f \in todo
    /\ todo' = todo \ {f}
    /\ \/ /\ f \notin dirs
          /\ UNCHANGED <<pending, entry>>
       \/ /\ f \in dirs
          /\ pending' = pending \ {f}
          /\ entry' = IF Outdated(f) /\ (forced \/ f \in pending \/ OnDisk(f) # {})
                      THEN [entry EXCEPT ![f] = [NoEntry EXCEPT !.stage = "walked",
                                                  !.ver = ver[f], !.list = OnDisk(f)]]
                      ELSE entry
       \/ /\ f \in dirs /\ "walk" \in Faults
          /\ pending' = pending \ {f}
          /\ UNCHANGED entry
    /\ UNCHANGED <<disk, db, pc, forced, changed, failed, snap, left, stale, crashes>>

\* Files of the listing that are not in the database, or that a full scan
\* reads again, or that are newer than their row or missing there.
ToImport(f) ==
    {p \in entry[f].list :
        \/ RowsAt(p) = {}
        \/ forced
        \/ files[p] # NoFile /\ files[p].mtime > tracks[RowAt(p)].mtime
        \/ tracks[RowAt(p)].st = "missing"}

\* File.Info fails for a known file that has gone since the listing.
InfoFails(f) ==
    ~forced /\ \E p \in entry[f].list : RowsAt(p) # {} /\ files[p] = NoFile

\* Rows about places of the folder that are not in the listing.
GoneRows(f) == {RowAt(p) : p \in {q \in InFolder(f) \ entry[f].list : RowsAt(q) # {}}}

\* What loadTagsFromFiles may come back with: every file, nothing because one
\* of them is gone, or, with the extractors that skip a file they cannot read,
\* any part of them.
Readable(f) ==
    {read \in SUBSET ToImport(f) :
        \/ read = ToImport(f)
        \/ read = {} /\ \E p \in ToImport(f) : files[p] = NoFile
        \/ "tags" \in Faults}

Process(f) ==
    /\ pc = "folders" /\ ~failed
    /\ entry[f].stage = "walked"
    /\ \/ /\ InfoFails(f)
          /\ entry' = [entry EXCEPT ![f].stage = "processed"]
       \/ /\ ~InfoFails(f)
          /\ \E read \in Readable(f) :
               entry' = [entry EXCEPT ![f] =
                   [@ EXCEPT !.stage = "processed", !.gone = GoneRows(f),
                             !.imports = [p \in Paths |->
                                 IF p \in read THEN files[p] ELSE NoFile]]]
    /\ UNCHANGED <<disk, db, pc, forced, changed, failed, pending, todo,
                   snap, left, stale, crashes>>

\* folderEntry.hash looks at the files again when the folder is stored: after
\* a change since the listing it is a mixture no later listing can produce.
HashAtStore(f) == IF ver[f] = entry[f].ver THEN ver[f] ELSE NoHash

Imports(f) == {p \in Paths : entry[f].imports[p] # NoFile}

\* The row each imported file is stored in: the row with its path, or a new one.
Placement(f) ==
    {g \in [Imports(f) -> Ids] :
        /\ Injective(g)
        /\ \A p \in Imports(f) :
             IF RowsAt(p) # {} THEN g[p] = RowAt(p) ELSE ~Used(g[p])}

StoreTracks(f, g) ==
    tracks' = [i \in Ids |->
        IF \E p \in Imports(f) : g[p] = i
        THEN LET p == CHOOSE q \in Imports(f) : g[q] = i
             IN [st |-> "ok", path |-> p, content |-> entry[f].imports[p].content,
                 mtime |-> entry[f].imports[p].mtime,
                 recent |-> Used(i) => tracks[i].recent]
        ELSE IF i \in entry[f].gone THEN [tracks[i] EXCEPT !.st = "missing"]
        ELSE tracks[i]]

\* Albums are stored with the tracks of this folder only; phase 3 completes them.
StoreAlbums(f) ==
    LET new(a) == {p \in Imports(f) : AlbumOf[entry[f].imports[p].content] = a}
        row(p) == [path |-> p, content |-> entry[f].imports[p].content, missing |-> FALSE]
    IN albums' = [a \in Albums |->
        IF new(a) # {}
        THEN [used |-> TRUE, touched |-> TRUE, parts |-> {row(p) : p \in new(a)}]
        ELSE IF \E i \in entry[f].gone : AlbumOf[tracks[i].content] = a
        THEN [albums[a] EXCEPT !.touched = albums[a].used]
        ELSE albums[a]]

\* persistChanges: one transaction for a folder, its albums and its tracks.
Persist(f) ==
    /\ pc = "folders" /\ ~failed
    /\ entry[f].stage = "processed"
    /\ Placement(f) # {}
    /\ StoreTracks(f, CHOOSE g \in Placement(f) : TRUE)
    /\ StoreAlbums(f)
    /\ folders' = [folders EXCEPT ![f] = [st |-> "ok", hash |-> HashAtStore(f),
                                          fresh |-> TRUE, empty |-> entry[f].list = {}]]
    /\ entry' = [entry EXCEPT ![f] = NoEntry]
    /\ changed' = TRUE
    /\ UNCHANGED <<disk, library, doubled, contested, pc, forced, failed, pending, todo,
                   snap, left, stale, crashes>>

\* The folder row is stored outside the transaction that fails.
PersistFailsBug(f) ==
    /\ pc = "folders" /\ ~failed
    /\ "db" \in Faults
    /\ entry[f].stage = "processed"
    /\ crashes < MaxCrashes /\ crashes' = crashes + 1
    /\ failed' = TRUE
    /\ folders' = [folders EXCEPT ![f] = [st |-> "ok", hash |-> HashAtStore(f),
                                          fresh |-> TRUE, empty |-> entry[f].list = {}]]
    /\ entry' = [entry EXCEPT ![f] = NoEntry]
    /\ changed' = TRUE
    /\ UNCHANGED <<disk, library, tracks, albums, doubled, contested, pc, forced, pending, todo,
                   snap, left, stale>>

PersistFails(f) ==
    /\ pc = "folders" /\ ~failed
    /\ "db" \in Faults
    /\ entry[f].stage = "processed"
    /\ crashes < MaxCrashes /\ crashes' = crashes + 1
    /\ failed' = TRUE
    /\ entry' = [entry EXCEPT ![f] = NoEntry]
    /\ changed' = TRUE
    /\ UNCHANGED <<disk, db, pc, forced, pending, todo, snap, left, stale>>

\* The folders are marked missing but their tracks are not.
MarkPendingBug ==
    /\ folders' = [f \in Folders |->
         IF f \in pending THEN [folders[f] EXCEPT !.st = "missing", !.fresh = TRUE]
         ELSE folders[f]]
    /\ UNCHANGED <<tracks, albums>>

\* The albums of missing folders are not touched.
MarkPendingUntouchedBug ==
    /\ folders' = [f \in Folders |->
         IF f \in pending THEN [folders[f] EXCEPT !.st = "missing", !.fresh = TRUE]
         ELSE folders[f]]
    /\ tracks' = [i \in Ids |->
         IF tracks[i].st = "ok" /\ FolderOf[tracks[i].path] \in pending
         THEN [tracks[i] EXCEPT !.st = "missing"] ELSE tracks[i]]
    /\ UNCHANGED albums

\* Whatever is left in lastUpdates is taken for removed, also after an error.
MarkPending ==
    /\ folders' = [f \in Folders |->
         IF f \in pending THEN [folders[f] EXCEPT !.st = "missing", !.fresh = TRUE]
         ELSE folders[f]]
    /\ tracks' = [i \in Ids |->
         IF tracks[i].st = "ok" /\ FolderOf[tracks[i].path] \in pending
         THEN [tracks[i] EXCEPT !.st = "missing"] ELSE tracks[i]]
    /\ albums' = [a \in Albums |->
         IF /\ pending # {}
            /\ \E r \in albums[a].parts : folders'[FolderOf[r.path]].st = "missing"
         THEN [albums[a] EXCEPT !.touched = albums[a].used] ELSE albums[a]]

FinalizeFolders ==
    /\ pc = "folders"
    /\ failed \/ (todo = {} /\ \A f \in Folders : entry[f].stage = "none")
    /\ MarkPending
    /\ IF failed THEN Forget
       ELSE /\ pc' = "missing"
            /\ pending' = {}
            /\ UNCHANGED <<forced, changed, failed, todo, entry, snap, left, stale>>
    /\ UNCHANGED <<disk, library, doubled, contested, crashes>>

-----------------------------------------------------------------------------
\* Phase 2: missing tracks

Missing(table, pid) ==
    {i \in Ids : table[i].st = "missing" /\ PidOf[table[i].content] = pid}
Matched(table, pid) ==
    {i \in Ids :
        table[i].st = "ok" /\ table[i].recent /\ PidOf[table[i].content] = pid}

\* The rows a missing row may be moved onto, in the code's order of preference.
Targets(table, i) ==
    LET pid == PidOf[table[i].content]
        matched == Matched(table, pid)
        exact == {j \in matched : table[j].content = table[i].content}
        equivalent == {j \in matched : BaseOf[table[j].path] = BaseOf[table[i].path]}
    IN CASE exact # {} -> exact
         [] exact = {} /\ Cardinality(Missing(table, pid)) = 1
                       /\ Cardinality(matched) = 1 -> matched
         [] OTHER -> equivalent

\* GetMissingAndMatching, keeping the missing rows that have a match.
LoadMissing ==
    /\ pc = "missing"
    /\ pc' = "moves"
    /\ snap' = tracks
    /\ left' = {i \in Ids : tracks[i].st = "missing" /\ Targets(tracks, i) # {}}
    /\ contested' = (contested \/
         \E i, k \in left' : i # k /\ Targets(tracks, i) \cap Targets(tracks, k) # {})
    /\ UNCHANGED <<disk, library, folders, tracks, albums, doubled, forced, changed, failed,
                   pending, todo, entry, stale, crashes>>

\* moveMatched: the missing row takes over the data of the matched row, as it
\* was read, and the matched row is deleted.
MoveTrack(i) ==
    /\ pc = "moves"
    /\ i \in left
    /\ \E j \in Targets(snap, i) :
         /\ tracks' = [tracks EXCEPT ![i] = [snap[j] EXCEPT !.recent = tracks[i].recent],
                                     ![j] = FreeRow]
         /\ doubled' = (doubled \/ tracks[j].st = "free")
    /\ left' = left \ {i}
    /\ changed' = TRUE
    /\ UNCHANGED <<disk, library, folders, albums, contested, pc, forced, failed, pending,
                   todo, entry, snap, stale, crashes>>

Purges == PurgeMissing = "always" \/ (PurgeMissing = "full" /\ forced)

FinalizeMissing ==
    /\ pc = "moves" /\ left = {}
    /\ IF Purges
       THEN /\ tracks' = [i \in Ids |-> IF tracks[i].st = "missing" THEN FreeRow ELSE tracks[i]]
            /\ changed' = (changed \/ \E i \in Ids : tracks[i].st = "missing")
       ELSE UNCHANGED <<tracks, changed>>
    /\ pc' = "touched"
    /\ snap' = FreeTable
    /\ UNCHANGED <<disk, library, folders, albums, doubled, contested, forced, failed, pending,
                   todo, entry, left, stale, crashes>>

-----------------------------------------------------------------------------
\* Phase 3: albums

\* Touched albums, those an interrupted scan left behind included.
LoadAlbums ==
    /\ pc = "touched"
    /\ pc' = "albums"
    /\ stale' = {a \in Albums : albums[a].used /\ albums[a].touched}
    /\ UNCHANGED <<disk, db, forced, changed, failed, pending, todo, entry, snap,
                   left, crashes>>

RefreshAlbum(a) ==
    /\ pc = "albums"
    /\ a \in stale
    /\ stale' = stale \ {a}
    /\ IF Summary(a) \in {{}, albums[a].parts}
       THEN UNCHANGED <<albums, changed>>
       ELSE /\ albums' = [albums EXCEPT ![a].parts = Summary(a), ![a].touched = TRUE]
            /\ changed' = TRUE
    /\ UNCHANGED <<disk, library, folders, tracks, doubled, contested, pc, forced, failed,
                   pending, todo, entry, snap, left, crashes>>

-----------------------------------------------------------------------------
\* Final steps

\* Albums and empty folders without tracks are removed, if anything changed.
CollectGarbage ==
    /\ pc = "albums" /\ stale = {}
    /\ IF changed
       THEN /\ albums' = [a \in Albums |-> IF Summary(a) = {} THEN NoAlbum ELSE albums[a]]
            /\ folders' = [f \in Folders |->
                 IF folders[f].empty /\ RowsIn(f) = {} THEN NoRow ELSE folders[f]]
       ELSE UNCHANGED <<albums, folders>>
    /\ pc' = "finish"
    /\ UNCHANGED <<disk, library, tracks, doubled, contested, forced, changed, failed, pending,
                   todo, entry, snap, left, stale, crashes>>

\* ScanEnd: from now on no album counts as touched.
UpdateLibraries ==
    /\ pc = "finish"
    /\ library' = [started |-> FALSE, full |-> FALSE]
    /\ albums' = [a \in Albums |-> [albums[a] EXCEPT !.touched = FALSE]]
    /\ Forget
    /\ UNCHANGED <<disk, folders, tracks, doubled, contested, crashes>>

\* The process dies, or a later phase returns an error: what was committed stays.
Crash ==
    /\ pc # "idle"
    /\ crashes < MaxCrashes
    /\ crashes' = crashes + 1
    /\ Forget
    /\ UNCHANGED <<disk, db>>

-----------------------------------------------------------------------------
InitIds == CHOOSE g \in [Paths -> Ids] : Injective(g)

InitTracks ==
    [i \in Ids |->
        IF \E p \in Paths : InitFiles[p] # NoFile /\ InitIds[p] = i
        THEN LET p == CHOOSE q \in Paths : InitFiles[q] # NoFile /\ InitIds[q] = i
             IN [st |-> "ok", path |-> p, content |-> InitFiles[p], mtime |-> 1,
                 recent |-> FALSE]
        ELSE FreeRow]

InitDirs == {FolderOf[p] : p \in {q \in Paths : InitFiles[q] # NoFile}}

\* A library that was never scanned, or one that was and is up to date.
Init ==
    /\ clock = 1
    /\ dirs = InitDirs
    /\ files = [p \in Paths |-> IF InitFiles[p] = NoFile THEN NoFile
                                ELSE [content |-> InitFiles[p], mtime |-> 1]]
    /\ ver = [f \in Folders |-> 1]
    /\ library = [started |-> FALSE, full |-> FALSE]
    /\ \E imported \in Imported :
         /\ tracks = IF imported THEN InitTracks ELSE FreeTable
         /\ folders = [f \in Folders |->
              IF imported /\ f \in InitDirs
              THEN [st |-> "ok", hash |-> 1, fresh |-> FALSE, empty |-> FALSE] ELSE NoRow]
    /\ albums = [a \in Albums |->
         IF Summary(a) # {} THEN [used |-> TRUE, touched |-> FALSE, parts |-> Summary(a)]
         ELSE NoAlbum]
    /\ doubled = FALSE /\ contested = FALSE
    /\ pc = "idle"
    /\ forced = FALSE /\ changed = FALSE /\ failed = FALSE
    /\ pending = {} /\ todo = {} /\ left = {} /\ stale = {}
    /\ entry = [f \in Folders |-> NoEntry]
    /\ snap = FreeTable
    /\ crashes = 0

DiskStep ==
    \/ \E p \in Paths, c \in Contents : Write(p, c)
    \/ \E p, q \in Paths : Rename(p, q)
    \/ \E p \in Paths : Delete(p)
    \/ \E f \in Folders : RemoveFolder(f)

ScanStep ==
    \/ \E f \in Folders : Walk(f) \/ Process(f) \/ Persist(f) \/ PersistFails(f)
    \/ FinalizeFolders
    \/ LoadMissing \/ (\E i \in Ids : MoveTrack(i)) \/ FinalizeMissing
    \/ LoadAlbums \/ (\E a \in Albums : RefreshAlbum(a))
    \/ CollectGarbage \/ UpdateLibraries

Start == \E req \in Requests : StartScan(req[1], req[2])

Next == DiskStep \/ Start \/ ScanStep \/ Crash

Spec == Init /\ [][Next]_vars

\* The scan goroutine runs to its end, and the scheduler keeps asking for scans.
FairSpec == Spec /\ WF_vars(ScanStep) /\ WF_vars(Start)

-----------------------------------------------------------------------------
\* Properties

\* The values each variable takes.
TypeOK ==
    /\ clock \in Nat /\ crashes \in Nat
    /\ dirs \subseteq Folders
    /\ files \in [Paths -> File \cup {NoFile}]
    /\ ver \in [Folders -> Nat]
    /\ library \in [started : BOOLEAN, full : BOOLEAN]
    /\ folders \in [Folders -> FolderRow]
    /\ tracks \in [Ids -> Row]
    /\ albums \in [Albums -> Album]
    /\ doubled \in BOOLEAN /\ contested \in BOOLEAN
    /\ pc \in {"idle", "folders", "missing", "moves", "touched", "albums", "finish"}
    /\ forced \in BOOLEAN /\ changed \in BOOLEAN /\ failed \in BOOLEAN
    /\ pending \subseteq Folders /\ todo \subseteq Folders
    /\ entry \in [Folders -> Entry]
    /\ snap \in [Ids -> Row]
    /\ left \subseteq Ids /\ stale \subseteq Albums

\* A stored hash that still describes the directory: the next quick scan will
\* skip this folder.
HashCurrent(f) == folders[f].st = "ok" /\ folders[f].hash = ver[f]

\* The non-missing rows of a folder are the files in it, and no row is older
\* than its file.
Accurate(f) ==
    /\ \A i \in RowsIn(f) : tracks[i].st = "ok" =>
          /\ files[tracks[i].path] # NoFile
          /\ \/ files[tracks[i].path].content = tracks[i].content
             \/ files[tracks[i].path].mtime <= tracks[i].mtime
    /\ \A p \in OnDisk(f) : \E i \in RowsAt(p) : tracks[i].st = "ok"

\* What makes skipping folders sound (folder_entry.go:65): whenever a stored
\* hash matches the directory, the tracks stored for the folder are its files,
\* at every moment of a scan, after crashes, errors and changes on disk while
\* the scan runs; unless a target was moved onto twice.
SkippedFoldersAccurate ==
    ~doubled => \A f \in Folders : HashCurrent(f) => Accurate(f)

\* Phase 2 "updates paths rather than creating duplicate entries"
\* (scanner/README.md:386): no two tracks stand for the same path.
NoDoubleMove == \A i, j \in Ids :
    Used(i) /\ Used(j) /\ tracks[i].path = tracks[j].path => i = j

\* Phases 1 and 2 touch every album whose tracks they add, change or mark
\* missing, and phase 3 completes every touched album before ScanEnd: an album
\* that is not touched accounts for every track it has, as it is now.
Settled(a) == albums[a].used /\ ~albums[a].touched
SettledAlbumsComplete == \A a \in Albums : Settled(a) => Summary(a) \subseteq albums[a].parts

\* The flag of a full scan, interrupted or not, is cleared only when every known
\* folder has been read again since the full scan started (folder_entry.go:65,
\* library_repository.go:169): for scans of the whole library whose storage and
\* directories can be opened.
FullScanCovers ==
    [][library.full /\ ~library'.full =>
         \A f \in Folders : folders[f].st = "ok" => folders[f].fresh]_library

\* While files are only moved to new places, a completed scan leaves every file
\* with the track id it had (scanner/README.md:381-386), also when scans are
\* interrupted and files move on between them; unless two missing tracks, of a
\* file that moved on before an interrupted scan was resumed, had a match in common.
KeepsId(p) ==
    \A q \in Paths : files[q] # NoFile /\ files[q].content = InitFiles[p] =>
        tracks[InitIds[p]].st = "ok" /\ tracks[InitIds[p]].path = q
MovedFilesKeepIds ==
    [][pc = "finish" /\ pc' = "idle" /\ ~library'.started /\ ~contested
         => \A p \in Paths : InitFiles[p] # NoFile => KeepsId(p)]_vars

\* After the last change on disk the scans bring the database in line with it.
InSync == \A f \in Folders : Accurate(f)
EventuallyInSync == <>[](doubled \/ InSync)

-----------------------------------------------------------------------------
\* Why SkippedFoldersAccurate holds: the inductive invariant of its proof

\* No hash is from the future, and a directory has a time.
TimesBounded ==
    \A f \in Folders :
        /\ 1 <= ver[f] /\ ver[f] <= clock
        /\ folders[f].hash <= clock /\ entry[f].ver <= clock

UniquePaths == NoDoubleMove

\* What a folder in the pipeline says about its own rows and places.
EntryLocal(f) ==
    /\ entry[f].list \subseteq InFolder(f)
    /\ Imports(f) \subseteq entry[f].list
    /\ \A i \in entry[f].gone : Used(i) /\ tracks[i].path \in InFolder(f) \ entry[f].list

\* What it says about the disk, as long as the directory has not changed.
EntryCurrent(f) ==
    entry[f].stage # "none" /\ entry[f].ver = ver[f] =>
        /\ entry[f].list = OnDisk(f)
        /\ entry[f].stage = "processed" =>
             /\ \A i \in RowsIn(f) : tracks[i].path \notin entry[f].list => i \in entry[f].gone
             /\ \A p \in Imports(f) : entry[f].imports[p] = files[p]
             /\ \A p \in entry[f].list \ Imports(f) :
                  \E i \in RowsAt(p) : tracks[i].st = "ok" /\ files[p].mtime <= tracks[i].mtime

EntriesOnlyInPhase1 ==
    \A f \in Folders : pc # "folders" \/ entry[f].stage = "none" => entry[f] = NoEntry

\* Phase 2 works on a copy of the rows: those it has still to match are as they
\* were, and the others are as they were or used up.
SnapFaithful ==
    pc = "moves" =>
        /\ \A i \in left : snap[i].st = "missing" /\ tracks[i] = snap[i]
        /\ \A j \in Ids : snap[j].st = "ok" => tracks[j] = snap[j] \/ tracks[j].st = "free"

ScanInvariant ==
    /\ TimesBounded
    /\ EntriesOnlyInPhase1
    /\ SnapFaithful
    /\ ~doubled =>
         /\ UniquePaths
         /\ \A f \in Folders : EntryLocal(f) /\ EntryCurrent(f)
         /\ \A f \in Folders : HashCurrent(f) => Accurate(f)

-----------------------------------------------------------------------------
\* Why SettledAlbumsComplete holds: the inductive invariant of its proof

\* Every row that phase 2 read as a match is still in the table, under its own
\* id or that of the missing row which took it over; another missing row that is
\* moved onto it adds nothing new to the album.
MatchesKept ==
    pc = "moves" =>
        \A j \in Ids : snap[j].st = "ok" =>
            \E i \in Ids : Used(i) /\ Part(tracks[i]) = Part(snap[j])

\* An album that phase 3 need not look at any more accounts for its tracks,
\* whether it is touched or not.
RefreshedAlbumsComplete ==
    pc \in {"albums", "finish"} =>
        \A a \in Albums \ stale : albums[a].used => Summary(a) \subseteq albums[a].parts

AlbumInvariant ==
    /\ SnapFaithful
    /\ MatchesKept
    /\ SettledAlbumsComplete
    /\ RefreshedAlbumsComplete
    /\ pc = "finish" => stale = {}

-----------------------------------------------------------------------------
\* Why FullScanCovers holds: the inductive invariant of its proof

\* Scans of the whole library whose storage and directories can be opened.
WholeLibrary ==
    /\ "walk" \notin Faults /\ "job" \notin Faults
    /\ \A req \in Requests : req[2] = {}

\* A full scan in progress has marked every known folder, read it again, or has it
\* in the pipeline or before it; and it reads every folder it comes to.
FullScanInvariant ==
    library.full =>
        /\ pc # "idle" => forced
        /\ pc = "folders" /\ ~failed =>
             \A f \in Folders :
                folders[f].st = "ok" /\ ~folders[f].fresh =>
                    f \in pending \/ entry[f].stage # "none"
        /\ pc \notin {"idle", "folders"} =>
             \A f \in Folders : folders[f].st = "ok" => folders[f].fresh

-----------------------------------------------------------------------------
\* The safety core of EventuallyInSync

\* Nobody changes the disk while a scan runs, and scans can read the whole library.
QuietWhole == QuietScans /\ WholeLibrary /\ "tags" \notin Faults

\* A scan that comes to its end has brought the database in line with the disk, unless
\* one file took over two missing tracks.
EndsInSync == pc = "finish" => doubled \/ InSync

\* Phase 1: a directory with files or rows is still to be walked, is in the pipeline,
\* or has been skipped or stored as it is now.
Covered ==
    pc = "folders" /\ ~failed =>
        /\ \A f \in pending : folders[f].st = "ok" /\ (f \in dirs => f \in todo)
        /\ \A f \in todo : folders[f].st = "ok" => f \in pending
        /\ \A f \in Folders : entry[f].stage # "none" => entry[f].ver = ver[f] /\ f \notin todo
        /\ \A f \in dirs : OnDisk(f) # {} \/ folders[f].st = "ok" =>
               f \in todo \/ entry[f].stage # "none" \/ HashCurrent(f)

\* And a known directory that is not there any more is still pending.
GonePending ==
    pc = "folders" /\ ~failed =>
        /\ \A f \in Folders : folders[f].st = "ok" => f \in dirs \/ f \in pending
        /\ \A f \in Folders : entry[f].stage # "none" => f \in dirs

\* Files are in directories that are there, and rows that are not missing in known ones.
FilesFoldered == \A p \in Paths : files[p] # NoFile => FolderOf[p] \in dirs
RowsFoldered ==
    \A i \in Ids : tracks[i].st = "ok" => folders[FolderOf[tracks[i].path]].st = "ok"

\* The inductive invariant: from phase 2 on the database is in line with the disk.
SyncInvariant ==
    /\ FilesFoldered
    /\ ~doubled =>
         /\ RowsFoldered /\ Covered /\ GonePending
         /\ pc \notin {"idle", "folders"} => InSync

-----------------------------------------------------------------------------
\* Why MovedFilesKeepIds holds: the inductive invariant of its proof

\* What MovedFilesKeepIds asks of the disk and the scans: files are only moved, to
\* other places, between whole scans of a library that was imported; every file has
\* its own content; every file can be read, and every directory opened.
OnlyMoves ==
    /\ FsOps \subseteq {"move"} /\ QuietScans
    /\ Imported \subseteq {TRUE} /\ Faults \subseteq {"db"}
    /\ \A req \in Requests : req[2] = {}
    /\ \A p, q \in Paths : InitFiles[p] # NoFile /\ InitFiles[p] = InitFiles[q] => p = q

\* The files the library was imported with, and the rows they have from then.
Songs == {p \in Paths : InitFiles[p] # NoFile}
Own(i) == \E p \in Songs : InitIds[p] = i
Content(q, p) == files[q] # NoFile /\ files[q].content = InitFiles[p]

\* Each of them is at one place.
FilesKept ==
    /\ \A q \in Paths : files[q] # NoFile => \E p \in Songs : Content(q, p)
    /\ \A p \in Songs : \E q \in Paths : Content(q, p)
    /\ \A p \in Songs : \A q, r \in Paths : Content(q, p) /\ Content(r, p) => q = r

\* A row is about one of them, and about the file that is at its place, if any.
RowsKept ==
    \A i \in Ids : Used(i) =>
        /\ \E p \in Songs : tracks[i].content = InitFiles[p]
        /\ files[tracks[i].path] # NoFile =>
               files[tracks[i].path].content = tracks[i].content

\* The first row of a file stays the row of it, and is older than any scan.
OwnRowsKept ==
    \A p \in Songs : LET i == InitIds[p] IN
        Used(i) /\ ~tracks[i].recent /\ tracks[i].content = InitFiles[p]

\* Another row of it was added by the scan in progress, or by the one it resumes,
\* and only after the file had left the place of its first row.
NewRowsRecent ==
    \A i \in Ids : Used(i) /\ ~Own(i) =>
        /\ tracks[i].recent /\ library.started
        /\ \A p \in Songs : tracks[i].content = InitFiles[p] =>
               files[tracks[InitIds[p]].path] = NoFile

\* From phase 2 on only first rows are missing, then none.
FirstsMissing ==
    pc \notin {"idle", "folders", "missing"} =>
        \A i \in Ids : tracks[i].st = "missing" => pc = "moves" /\ Own(i)

\* Phase 2: each missing row has a match of its own, which is not used up.
MatchesReady ==
    pc = "moves" =>
        /\ \A i \in Ids : tracks[i].st = "missing" => i \in left
        /\ \A i \in left : \E j \in Ids :
             /\ snap[j].st = "ok" /\ snap[j].recent
             /\ snap[j].content = tracks[i].content /\ tracks[j] = snap[j]
        /\ \A j, k \in Ids :
             /\ snap[j].st = "ok" /\ snap[k].st = "ok"
             /\ snap[j].content = snap[k].content
             => j = k

MovesKept ==
    /\ ~doubled
    /\ pc # "idle" => library.started
    /\ FilesKept /\ RowsKept /\ OwnRowsKept /\ NewRowsRecent
    /\ FirstsMissing /\ MatchesReady

MovesInvariant == ~contested => MovesKept
=============================================================================
