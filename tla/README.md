# Verification of the Navidrome server

TLA+ models of the concurrent and crash-sensitive parts of the Navidrome music
server (`src/navidrome`), the configurations that check them with TLC, and
proofs that TLAPS checks. Paths below are relative to `src/navidrome`.

Run TLC with `tlc -config <run>.cfg <module>` (the runs are listed below and in
`PROJECT.json`) and the proofs with `tlapm <module>` for the eight modules whose
name ends in `Proofs`.

## 1. The system and its parts

Navidrome is one Go process over one SQLite database. Goroutines share the
database, a handful of in-memory singletons and channels; with the default
configuration a scan runs in a subprocess that shares only the database.

| Component | State it keeps | Operations | What is hard about it | What makes it correct |
|---|---|---|---|---|
| **Scan pipeline** `scanner/scanner.go`, `phase_*.go`, `folder_entry.go`, `walk_dir_tree.go`, and the repositories' bulk statements | rows of `library`, `folder`, `media_file`, `album`; the scan's own `scanState`, jobs and folder entries | prepare, walk, import, persist, finalize, match moved tracks, purge, refresh albums, collect garbage, end | files change while they are scanned; every stage commits on its own and the process may die in between; resumed scans; one failure path marks folders missing | a skipped folder is accurate; moved files keep their identity; albums account for their tracks; the database ends in line with the disk |
| **Scan control** `scanner/controller.go`, `external.go`, `watcher.go`, `cmd/root.go`, `cmd/scan.go` | the `running` flag, progress channel, the watcher's timer, targets and notification channel, the flag "full scan after migration" | ScanAll/ScanFolders, CallScan, Status, the watcher's loop, periodic and initial scans | who scans when; dropped notifications; a timer that is not armed again; flags cleared too early; scans refused because one is running | one scan at a time; a change that was noticed is scanned; a full scan that is owed happens |
| **Scrobble buffer** `core/scrobbler/buffered_scrobbler.go`, `persistence/scrobble_buffer_repository.go` | table `scrobble_buffer`, one goroutine per service, a wake signal of capacity one, retry timers | Scrobble (insert and signal), run, processQueue, processUserQueue, Stop | lost wake-ups; sending and deleting are two steps; a stopped worker overlaps the one that replaces it; plugins come and go | delivered at least once, in order, never forgotten |
| **Play tracker** `core/scrobbler/play_tracker.go` | maps of scrobblers, the now-playing map and queue, play counts | Submit, NowPlaying, refreshPluginScrobblers, dispatch, the now-playing worker | copies of maps used after the lock is released; play count and scrobble are not one transaction | scrobblers follow the plugins; the last now-playing of a player wins |
| **Event broker** `server/events/sse.go` | the clients map and their queues, owned by one goroutine; channels for publish, subscribe, unsubscribe | subscribe, unsubscribe, SendMessage, listen | three channels with no order between them; full channels; closed channels | every subscriber gets its messages in order, nobody sends on a closed channel |
| **Jukebox playback** `core/playback` | queue, current index, active track, per device; mpv processes | the jukebox calls, the track switcher, callbacks of finished tracks | unsynchronised handlers against the switcher; a late "finished" of an old track; the same song twice in the queue | one track plays, and it is the one at the index |
| **Artwork cache warmer and file caches** `core/artwork/cache_warmer.go`, `utils/cache` | buffer of ids, wake signal, files on disk, readiness flags | PreCache, run, Get with single writer, the haunter's eviction | readers and writers of one key; eviction while reading; start-up | a reader sees a whole entry; the cache stays within its limits |
| **Plugin manager** `plugins/manager*.go` | the map of loaded plugins, their rows, the counter of loads under way, file watcher with debounce timers | Start, Stop, load, unload, enable, disable, update, rescan, file events | operations overlap and share nothing but the map's lock; debounced file events; failed loads | row and map agree; a lookup never finds a closed instance; nothing is loaded after Stop |
| **Host services of plugins** `plugins/host_scheduler.go`, `host_websocket.go`, `host_kvstore.go` | per instance: schedules and their timers, connections and their readers, the counted size of the store; a table per plugin | schedule, cancel, fire; connect, send, close; set, delete; Close when the plugin is unloaded | names looked up again after a lock was released; timers and readers that end late; an unload in the middle | a schedule or connection stays reachable until it is stopped, and none outlives the unload; the size counted is the size stored |
| **Maintenance** `core/maintenance.go` | background work after deletion of missing files | DeleteMissingFiles, refresh of albums, GC | runs beside scans | counts agree with tracks |
| **Database, migrations, repositories** `db`, `persistence` | SQLite | SQL | transactions and cascades | used by the models above where they matter |
| **HTTP, Subsonic and native APIs; streaming; agents; artwork readers; playlists; storage; auth and metrics; configuration; scheduler; logging; web interface** | sessions, caches, files | request handlers | mostly input/output and conversions | not modelled |

How they meet: requests, the scheduler, the watcher and start-up all ask scan
control for a scan; scan control runs the pipeline (in a goroutine or a
subprocess) and forwards its progress to the event broker; the pipeline writes
the rows that everything else reads and hands albums to the cache warmer;
requests report plays to the play tracker, which counts them, inserts rows
through the buffered scrobblers and publishes refresh events; the plugin manager
supplies scrobblers and takes them away.

`PROJECT.json` lists all components, with the reason where one is not modelled,
and under `hazards` the places where this code is hard to test.

## 2. Modules

| Module | What it is |
|---|---|
| `LibraryScan` | the scan pipeline of one library, phases 1 to 3 with the disk changing underneath |
| `LibraryScanProofs` | type correctness, soundness of skipping folders, complete albums, full scans, scans that end in sync, moved files |
| `ScanControl` | who scans when: the lock, its callers, the watcher, the scan at start-up |
| `ScanControlProofs` | type correctness, one scan at a time, no change falls between two chairs |
| `ScrobbleDelivery` | abstract: what the scrobble buffer promises |
| `ScrobbleBuffer` | requests, worker goroutines, wake signals, timers, plugin turns, restarts |
| `ScrobbleBufferProofs` | type correctness, order, no lost wake-up, refinement of `ScrobbleDelivery` |
| `Broadcast` | abstract: what the event streams promise |
| `EventBroker` | `listen`, its channels, the senders, and handler and reader of each stream |
| `EventBrokerProofs` | type correctness, the only panic, refinement of `Broadcast` |
| `PluginManager` | one plugin: file, row and map under overlapping operations, Start and Stop |
| `PluginManagerProofs` | type correctness, the four safety invariants |
| `Playback` | a jukebox device: queue, active track, players, the switcher |
| `PlaybackProofs` | type correctness, players accounted for, the active track is the current one, order |
| `FileCache` | the cache of files: lookup, single writer, invalidation, clean-up, restart |
| `CacheWarmer` | the artwork cache warmer and users on top of `FileCache` |
| `CacheWarmerProofs` | type correctness, failed contents, single flight |
| `PluginInstances` | what the host services share: instances loaded and unloaded, host calls under way |
| `HostScheduler`, `HostWebSocket`, `HostKVStore` | one host service each, over `PluginInstances` |
| `HostServices` | their composition |
| `HostServicesProofs` | type correctness, schedules are kept, connections are known, the size of the store |
| `MC...` | the constants of the runs that need definitions for them |

Definitions whose name ends in `Bug` are plausible mistakes in the definition
that follows them. They are used by no specification; the mutation runs of
`PROJECT.json` put them in the place of the real one to see that the property
named there notices.

### 2.1 LibraryScan

State and its origin:

| Variable | Code |
|---|---|
| `clock`, `dirs`, `files`, `ver` | the music directory; `ver[f]` is the newest modification time in a directory, which with the names of its files is what `folderEntry.hash` digests (`folder_entry.go:84-118`) |
| `library` | `library.last_scan_started_at` (non-zero: `started`), `full_scan_in_progress` |
| `folders` | rows of `folder`: state, hash, `fresh` = `updated_at` not before the start of the scan, `empty` |
| `tracks` | rows of `media_file`: state, path, content, `recent` = created after the start of the scan |
| `albums` | rows of `album`: `touched` = imported after `last_scan_at`; `parts` = what the aggregate counts |
| `pc`, `forced`, `changed`, `failed`, `pending`, `todo`, `entry`, `snap`, `left`, `stale` | the locals of `scanFolders`, `scanJob.lastUpdates`, the walker's queue, the folder entries in the pipeline, phase 2's copy of the rows, phase 3's list |
| `doubled`, `contested`, `crashes` | history: phase 2 used a match twice; two missing rows had a match in common; and the bound |

One action per step of the code that is atomic for the database: `StartScan`
(`scanFolders` up to the phases, with `prepareLibrariesForScan` and
`createPhaseFolders`), `Walk`, `Process`, `Persist` and `PersistFails` (one
transaction per folder), `FinalizeFolders`, `LoadMissing`, `MoveTrack` (one
transaction per moved track), `FinalizeMissing` (with the purge), `LoadAlbums`,
`RefreshAlbum`, `CollectGarbage`, `UpdateLibraries`, `Crash`, and the users'
`Write`, `Rename`, `Delete`, `RemoveFolder`. Walk, process and persist of
different folders interleave, as the pipeline's stages do.

Abstractions. Timestamps are strictly increasing and every change of a directory
changes its modification time: overwriting a file in place with a tool that
restores the mtime is not noticed by the code either. A file's content stands for
its tags and audio; persistent id, album id and base name are functions of it or
of its path, given as constants. Directories have no subdirectories. One library:
phase 2's search across libraries is skipped, as it is in such an installation.
Artists, tags, annotations, playlists (phase 4) and statistics are left out.
A hash computed from a directory that changed between listing and storing is
`NoHash`: a mixture of old names and new times that no later listing reproduces.

### 2.2 ScrobbleDelivery and ScrobbleBuffer

The abstract specification has three variables: what was accepted, what is
pending, and what the scrobbler has answered for. A pending scrobble goes away
only after an answer (`Forget`) or with its track (`TrackGone`); an answer is
given only when no earlier scrobble of the same user, played no later, is still
pending (`Answer`).

| Variable of `ScrobbleBuffer` | Code |
|---|---|
| `accepted`, `buffer` | rows ever inserted into `scrobble_buffer`, in rowid order; those still there |
| `tracks` | `media_file` rows the foreign key needs |
| `worker` | per buffered scrobbler: place in `run`/`processQueue`/`processUserQueue`, users left, row in hand, result, `wakeSignal`, timers, whether its context is cancelled, the instance the loader returned |
| `current`, `started` | the entry in `pluginScrobblers` (or `builtinScrobblers`), how many were created |
| `loaded`, `turns` | the plugin is in the manager's map; its generation |
| `client` | requests between `Submit` and the wake signal |
| `received`, `answered`, `stranded` | history |

Actions of a request: `Submit` (track lookup and play count), `Refresh`
(`refreshPluginScrobblers` under its mutex), `Pick` (the copy of the map, the
authorisation), `Enqueue`/`EnqueueFails`, `SendWakeSignal`. Of the worker:
`ReadUsers`, `TakeNext`, `Load`, then `ServiceAnswers`, `RetryLater` or
`CallCutOff`, `Dequeue`, `EndOfPass`, `WakeUp`, `Exit`, and `TimerFires`. Around
them: `NowPlayingRefresh`, `PluginTurns`, `TrackDeleted`, `Crash`.

Abstractions. One service; rows of different services do not meet. The order of
users within a pass is arbitrary (the query sorts by count). A call to the service
is one step; a lost answer is `RetryLater` with the scrobble received. Deleting a
user cascades like deleting a track and is not repeated. Play counts, the
scrobble history table and the now-playing queue are not modelled.

### 2.3 ScanControl

| Variable | Code |
|---|---|
| `running` | the `atomic.Bool` behind `lockScan` (`controller.go:259`) |
| `routine` | goroutines in `ScanFolders`: place, arguments, the folders the caller cares for (`wants`), those the scan has still to read (`todo`) |
| `initial` | `runInitialScan`: its place and whether it will ask for a full scan |
| `events`, `notify` | file system events on their way (`core/storage/local/watcher.go`, `processLibraryEvents`), `watcherNotify` |
| `targets`, `timer`, `selective` | the locals of `watcher.Run`, `DevSelectiveWatcher` |
| `migration`, `pidChanged`, `library` | property `FullScanAfterMigration`; whether the stored PIDs differ from the configured ones; `last_scan_started_at` is set, `full_scan_in_progress` |
| `noticed`, `lost`, `old` | history: changes noticed and not yet read; those among them nobody will see to; folders no full scan has read since one became necessary |

`Ask` and `Download` start goroutines that call `ScanFolders`; each then goes
through `LockScan` or `Refused`, `Begin` (`scanFolders` up to its phases),
`ReadFolder`, `Finish` (`runUpdateLibraries`) or `Fail`, and `Release`.
`InitialCheck`, `InitialFlag`, `InitialCall` are `runInitialScan`. A change on disk
(`Change`) becomes an event or is missed, `Notice` passes it on or drops it,
`Collect`, `Trigger`, `TriggerAgain` and `TriggerFails` are the watcher's loop.
`Crash` is any end of the process; the database survives.

Abstractions. One library. Times are left out: the trigger may fire at any moment
after it is armed. A scan is what it reads and what it does to the library row;
that a resumed scan skips folders it has stored before is in `LibraryScan`, whose
`StartScan` and `UpdateLibraries` are `Begin` and `Finish` here. Calls of users carry no wish
of their own (`wants` is empty), so a refused request is not counted as a loss;
downloads and the watcher's calls do.

What the history variable `lost` excepts from the properties is what the code
really gives up, one place each: a notification dropped in the selective mode while
one of another folder is pending (`Notice`), a call refused because of a scan that
will not read the folder any more (`Refused`), a scan that failed (`Fail`), a status
query that failed (`TriggerFails`), and a restart that needs no scan
(`InitialCheck`). The next reading of the folder takes it out of `lost`.

### 2.4 Broadcast and EventBroker

`Broadcast` has the events in one order, when a connection joined, and what each
connection has received: a selection of the events that concern it (`ShouldSend`)
and came after it joined, in order, none twice. Events may be left out: `sendOrDrop`
drops what a slow client has no room for.

| Variable of `EventBroker` | Code |
|---|---|
| `publish`, `subscribing`, `unsubscribing` | the broker's three channels (`sse.go:55-64`); a channel is its buffer followed by what the goroutines that wait to send hold |
| `clients`, `closed`, `panicked` | the map of `listen`, the closed `msgC` channels, a send on one of them |
| `queue`, `reader`, `hand`, `writing`, `handler` | a stream's channel, the goroutine of `pl.ReadOrDone` and what it holds, `ServeHTTP` and what it writes |
| `cancelled` | request contexts that are done |
| `published`, `since`, `written` | history: the refinement's view |

`SendMessage`, `Subscribe`, `Open`, `Pass`, `Write`, `Leave`, `Return` and `Cancel`
are the goroutines of callers and handlers; `Register`, `Detach`, `Distribute` and
`Tick` the cases of `listen`'s select; `Take`, `GiveUp` and `ReaderEnds` are
`ReadOrDone`. A send on a closed channel ends the process (nothing recovers it in
`listen`), so the model stops there. The content of events, client names and the delay of
a write are left out; a write succeeds or fails.

### 2.5 PluginManager

| Variable | Code |
|---|---|
| `file`, `row` | the package in the plugins folder; the row of table `plugin`: which build it describes, enabled, last error, users granted |
| `map`, `insts` | the plugin's entry in `m.plugins` and the instances made so far |
| `loading`, `started`, `stopper` | `loadWg`, Start, `stopped` and how far Stop is |
| `watching`, `armed` | the watcher's loop, the debounce timer |
| `op` | per goroutine: the row it has read and the steps it has still to do |
| `orphaned`, `overwritten`, `overlapped`, `faulted`, `missed` | history: what the properties except |

An operation reads the row once (`EnablePlugin`, `DisablePlugin`,
`UpdatePluginSettings`, `UnloadDisabledPlugins`, `Compare`, `React`) and turns into
a list of steps from `unload`, `load`, `put`, `delete`, which are actions of their
own and interleave: `Unload` and `Close` are two, as in `unloadPlugin`, and a load
is `CheckStopped`, `Enter` (the count and the second look at `stopped`), `Compile`,
`Register`, `CallPluginInit`. `Start` syncs, loads what is enabled, starts the
watcher. `Change` is anybody replacing the file, `Crash` the end of the process.

Abstractions. One plugin: operations on different plugins meet only in the map's
lock and in `loadWg`. A build stands for the package's content and with it for its
hash and manifest; `Broken`, `Failing` and `Gated` builds are those whose manifest
cannot be read, that do not load, and that ask for users. The library gate works
like the users' and is not repeated. Requests are taken from Start on.

### 2.6 Playback

| Variable | Code |
|---|---|
| `items`, `index` | `Queue.Items`, `Queue.Index` (`queue.go`) |
| `active`, `player` | `ActiveTrack` (0 for nil); the mpv processes with `CloseCalled` and the goroutine that waits for each, `"none"` where `NewTrack` did not get as far as to start it (`mpv/track.go:28-73`) |
| `switching` | the track switcher was started |
| `task` | per goroutine, what it waits for: a player to start (`Start`, `Skip`, the switcher) or the database (`Set`) |
| `overlapped`, `removed` | history: two calls overlapped; the active track's entry was taken out of the queue |

Actions: `Add`, `ClearCall`, `Set`/`SetEnds`, `Remove`, `Shuffle`, `Stop`, `Start`,
`SkipTo`, `Seek`, `LoadEnds` (`NewTrack` returns: a track, `Loaded`; an error and no
mpv, `NotLoaded`; an error although mpv runs, `LeftAlone`), `Ends` (mpv
ends), `Notice` (its waiter looks at `CloseCalled` and sends), `Receive` (the
switcher). The volume, positions within a song and the choice of the device are
left out. A player starts playing at once, as with the default command template.

### 2.7 FileCache and CacheWarmer

`FileCache` has the state of the cache (starting, ready, disabled), the map from
keys to contents, each content with who writes it and how much is there, and the
calls of `Get`. `Lookup` is `Get` up to the reader or the miss, `Opened`,
`OpenFails`, `CopyEnds`, `CopyFails`, `Invalidate` the making of a content, `Close`
the reader's end, `Scrub` the haunter, `Restart` the end of the process and the
reload. The library below (`fscache`) is modelled from how it is used.

`CacheWarmer` EXTENDS it with the warmer's buffer, wake signal and batch
(`PreCache`, `Run`, `Take`, `TakeFails`, `Warmed`, `BatchEnds`) and with users
(`UserGets`, `UserCloses`). Keys stand for artwork at the one size the warmer asks
for. Left out are the cache of values in memory and the cached HTTP client.

### 2.8 Host services

`PluginInstances` has `stage`, how far each instance is loaded or unloaded
(`unloadPlugin` closes the services one by one, then the compiled plugin), and
`call`, the host functions under way. The three services EXTEND it, each with
variables of its own, and `HostServices` lets them interleave.

| Variable | Code |
|---|---|
| `timers`, `schedules`, `stopping` | every `time.AfterFunc` and cron entry made; the service's map by name; what Close has taken and still has to stop (`host_scheduler.go`) |
| `conns`, `connections`, `hanging` | every connection with its `readLoop`; the map by name; what Close has taken and still has to close (`host_websocket.go`) |
| `table`, `current` | the plugin's table, which outlives the instance; `currentSize` (`host_kvstore.go`) |
| `crossed`, `raced`, and `unsafe` of a timer or connection | history: what the properties except |

A fired timer is `Fire`, then the lookup of its name, the callback, and the clean-up
of the name; `Cancel` takes the name out under the lock and stops the timer after
it. `Connect` looks the name up, dials without the lock and stores; a reader that
ends deletes its name. `Set` reads the row's size, checks the limit, writes, counts.
Plugin code may run between loading and the end of unloading, and a host function
that was entered runs to its end after that; callbacks find the instance that is in
the map then, or nobody (`InMap`): of a connection that the unloading closes, no plugin
is told, or a newer instance. `Load` makes the services and puts the instance into the
map in one step. One firing of a cron entry at a time.

## 3. Runs

`expect: pass` runs finish without error; `violation` runs check one statement of
a comment or document that the code does not keep (section 6).

| Run | Instance | What it shows |
|---|---|---|
| `scan_safety` | two folders, three places, two contents (one song in two albums), a new or a scanned library, quick, full and selective scans, three changes on disk at any moment, one failed transaction or crash, unreadable directories, storage that fails to open, purging after full scans | types; `SkippedFoldersAccurate`; `SettledAlbumsComplete` |
| `scan_moves` | two files of one persistent id, four places, four moves between scans to places no row is about, two interruptions or failed transactions | `MovedFilesKeepIds`: the id survives moves and interrupted scans |
| `scan_live` | one song, writes, renames, deletions, one failure or crash, fair scheduling | `FullScanCovers`; `EventuallyInSync` |
| `scan_double` | one song, quick scans | finding |
| `scrobble_buffer` | two users, one request at a time, two play times, a plugin that is loaded or unloaded once, one worker before and one after a restart, one failure, one deletion, fair scheduling | types, `InOrder`, `NothingStuck`, refinement of `ScrobbleDelivery`, `EventuallyDelivered` |
| `scan_control` | two folders, two callers of `ScanFolders`, both watcher modes, with and without a migration's flag, two changes, one request or download, one failure, one restart, fair scheduling | types, `OneScan`, `NoticedIsAttended`, `NoticedIsRead` |
| `scan_rescan` | no changes on disk, one request, one restart | finding |
| `event_broker` | two streams of one user, one sender, channels of one place, two events, fair scheduling | types, `OnlyOvertakenPanics`, refinement of `Broadcast`, `SendersReturn`, `QueuedIsWritten`, `Forgotten` |
| `plugin_manager` | two operations at a time out of Start, two requests (or one and Stop), rescans and file events; three builds (one asks for users, one does not load, one cannot be read), one change of the file, one database error or restart, the watcher on, fair scheduling | types, `MapNeverClosed`, `OpenIsKnown`, `StopIsFinal`, `RowTellsMap`, `EventuallySynced` |
| `playback` | two requests at a time and the switcher, six calls, a queue of three places, two songs, four players, one start that fails before or after mpv runs, fair scheduling | types, `ActiveAtIndex`, `NoPlayerLost`, `PlaysInOrder`, `EventuallySwitches` |
| `image_cache` | two images, two workers, one user, three calls of PreCache, two of the user, one place left by the clean-up, one failure or restart, fair scheduling | types, `FailedNotKept`, `SingleFlight`, `EventuallyWarmed` |
| `host_services` | two loads of a plugin that uses one of the three services, two goroutines in host functions, one name, two keys; two timers, two connections, three writes of size one or two with a limit of three | types, `SchedulesKept`, `ConnectionsKnown`, `StorageAccounted` |

**Bounds.** For the pipeline, three changes cover "imported, then changed while being
scanned, then changed back or moved"; two folders and three places allow a move inside a
folder, a move between folders that keeps the base name, and one folder failing while
the other is stored; one interruption gives an interrupted scan, its resumption and the
scan after that. In `scan_moves` a fourth place lets a file move on between an
interrupted scan and its resumption, which is how two missing rows come to have a match
in common. For the buffer, two rows are the least that can be out of order; one turn of
the plugin takes a scrobbler away from, or gives one to, requests and a worker under
way; one failure together with one restart gives a row sent twice. With one turn a
process starts one worker only: an old worker that ends a call beside the new one takes
two turns, which are too many states for the run, and is covered by the proofs, which
are for any number of workers and turns. For the control, two folders are what a
notification can be dropped for, two callers what a lock is for, and two changes let one
be noticed while the scan for the other runs. For the broker, two streams tell
"registered" from "being registered" while an event is distributed, and with channels of
one place a second element makes a goroutine wait. For the manager, two operations are
the least that overwrite each other's instance, and an `InitRows` of "no row" or "any
enabled row" gives Start all it can find. For playback, three items have a first, a
middle and a last place, and of four players one can be left alone by a failed start and
one play while the ends of two more are still to be told; with three the bound would
keep a start from ending. For the cache, two keys and one place left make the clean-up
choose; a worker, the other worker and a user are three callers for one key. For the
host services, two timers, connections or writes of one name are the least that can be
mistaken for each other, and two instances let something of the first be seen by the
second. The three services of a plugin meet in its unloading only, which takes them one
after the other, so the run gives its plugin one service at a time.

**Symmetry** is used in `host_services` only, over the goroutines of calls and the keys,
which no definition tells apart; its properties are all invariants.

**Fairness.** Nothing is ever assumed of users, the disk, plugins, failures or restarts; all
of these are finitely many.
`LibraryScan!FairSpec`: the scan's goroutines run on (`WF ScanStep`), and
somebody keeps asking for scans (`WF Start`: the periodic schedule or the watcher;
with both disabled nothing of the kind holds).
`ScrobbleBuffer!FairSpec`: worker goroutines run on, timers fire, and a request
that inserted its row goes on to signal; `EventuallyDelivered` is conditional on
the scrobbler being available from some time on, because the code creates a
plugin's scrobbler only when somebody plays something.
`ScanControl!FairSpec`: goroutines in `ScanFolders` and `runInitialScan` run on, the
watcher takes notifications, and an armed trigger fires when no scan is running
for good; weak fairness of `Trigger` is enough because scans are asked for finitely
often.
`EventBroker!FairSpec`: the goroutines run; each case of `listen`'s select is taken
if it stays ready (select picks at random and a ready case stays ready, so weak fairness
is what Go gives); a write ends within its deadline.
`PluginManager!FairSpec`: operations run on, the process calls Start, a pending
debounce timer fires.
`Playback!FairSpec`: loads end (three seconds at most), waiters notice an end, the
switcher receives; songs need not end.
`CacheWarmer!FairSpec`: the warmer and its workers run, the cache is initialised in
the end, a content that is being made is made or fails (ten seconds at most).

**Deadlock** is checked in the runs of `LibraryScan` and `ScrobbleBuffer`: there is
always a scan that can start or go on, and a worker or a tracker that can take a
step, whatever bound has been reached. The other models come to rest when nobody
asks for anything any more, or when the broker has panicked; that they do not rest
too early is what their liveness properties say.

## 4. Proofs

TLAPS checks these for every value of the constants that satisfies the assumptions.
The assumptions (`...Assumption` in the modules that declare the constants) are
types, "there are enough ids for the places" (`IdsAssumption`), "channels have at
least one place", "`None` is not one of the values it stands beside", and for the store
that there are finitely many keys and calls.

| Theorem | Statement |
|---|---|
| `LibraryScanProofs!TypeCorrect` | `Spec => []TypeOK` |
| `LibraryScanProofs!ScanInvariantHolds` | `Spec => []ScanInvariant`, if `"tags" \notin Faults` |
| `LibraryScanProofs!SkippingIsSound` | `Spec => []SkippedFoldersAccurate`, same assumption |
| `LibraryScanProofs!AlbumInvariantHolds` | `Spec => []AlbumInvariant` |
| `LibraryScanProofs!AlbumsComplete` | `Spec => []SettledAlbumsComplete` |
| `LibraryScanProofs!FullScansCover` | `Spec => FullScanCovers`, if `WholeLibrary` |
| `LibraryScanProofs!QuietScansSync` | `Spec => []EndsInSync`, if `QuietWhole` |
| `LibraryScanProofs!MovesInvariantHolds` | `Spec => []MovesInvariant`, if `OnlyMoves` |
| `LibraryScanProofs!MovesKeepIds` | `Spec => MovedFilesKeepIds`, if `OnlyMoves` |
| `ScrobbleBufferProofs!TypeCorrect` | `Spec => []TypeOK` |
| `ScrobbleBufferProofs!DeliveredInOrder` | `Spec => []InOrder` |
| `ScrobbleBufferProofs!DeliversWhatItAccepts` | `Spec => Delivery!Spec` |
| `ScrobbleBufferProofs!NoLostWakeUp` | `Spec => []NothingStuck` |
| `ScrobbleBufferProofs!DuplicatesNeedAFailure` | `Spec => []SentOnce` |
| `ScanControlProofs!TypeCorrect` | `Spec => []TypeOK` |
| `ScanControlProofs!MutualExclusion` | `Spec => []OneScan` |
| `ScanControlProofs!Attendance` | `Spec => []NoticedIsAttended` |
| `EventBrokerProofs!TypeCorrect` | `Spec => []TypeOK` |
| `EventBrokerProofs!Panics` | `Spec => []OnlyOvertakenPanics` |
| `EventBrokerProofs!BrokerImplementsBroadcast` | `Spec => B!Spec` |
| `PluginManagerProofs!TypeCorrect` | `Spec => []TypeOK` |
| `PluginManagerProofs!LookupsFindOpen` | `Spec => []MapNeverClosed` |
| `PluginManagerProofs!StopEndsLoading` | `Spec => []StopIsFinal` |
| `PluginManagerProofs!InstancesAccountedFor` | `Spec => []OpenIsKnown` |
| `PluginManagerProofs!RowAndMapAgree` | `Spec => []RowTellsMap` |
| `PlaybackProofs!TypeCorrect` | `Spec => []TypeOK` |
| `PlaybackProofs!PlayersAccountedFor` | `Spec => []NoPlayerLost` |
| `PlaybackProofs!ActiveIsCurrent` | `Spec => []ActiveAtIndex` |
| `PlaybackProofs!SwitchesInOrder` | `Spec => PlaysInOrder` |
| `CacheWarmerProofs!TypeCorrect` | `Spec => []TypeOK` |
| `CacheWarmerProofs!FailedAreInvalidated` | `Spec => []FailedNotKept` |
| `CacheWarmerProofs!MadeOnce` | `Spec => []SingleFlight` |
| `HostServicesProofs!TypeCorrect` | `Spec => []TypeOK` |
| `HostServicesProofs!SizesAccounted` | `Spec => []StorageAccounted` |
| `HostServicesProofs!KeepsSchedules` | `Spec => []SchedulesKept` |
| `HostServicesProofs!KnowsConnections` | `Spec => []ConnectionsKnown` |

*Skipping folders.* That a folder whose stored hash is the directory's has exactly
the directory's files in the database is not inductive: the hash is stored by
`Persist`, which relies on what `Walk` listed and `Process` read several steps
before. `ScanInvariant` adds what each entry in the pipeline knows: about its own
rows always (`EntryLocal`), about the disk as long as the directory has not changed
since the listing (`EntryCurrent`); that a row's path is unique (`UniquePaths`),
without which storing one folder disturbs another; that phase 2's copy of the rows
still agrees with the table (`SnapFaithful`), without which `MoveTrack` could write
an old path over a newer row; and that no stored hash is from the future
(`TimesBounded`), so that a change on disk invalidates it. The proof has one lemma
per action. The invariant holds only while no move target was used twice
(`doubled`), which is the finding `scan_double`, and without the fault `"tags"`
(section 6).

*Albums.* That an untouched album accounts for its tracks fails to be inductive at two
places: `MoveTrack` puts a row into an album without touching it, and phase 3
decides once which albums to look at. `AlbumInvariant` says for the first that every
match phase 2 read is still in the table, under its own id or that of the row that
took it over (`MatchesKept`), so that the album had the moved track before the move;
for the second that what phase 3 need not look at any more is complete, touched or not
(`RefreshedAlbumsComplete`). It needs no assumption on faults, requests or moves.

*Full scans.* While the flag is set, a known folder has been read again, or is in the
pipeline, or is one of the folders the job has still to find (`FullScanInvariant`), and a
scan that runs reads every folder it comes to. `WholeLibrary` excludes what the code
does not cover: selective requests, storage that does not open, directories that cannot
be read (section 6).

*Scans end in sync.* The safety core of `EventuallyInSync`. `QuietWhole` excludes what
makes the statement false: changes on disk while a scan runs, what cannot be read, and
requests for some folders only. A scan that reaches its end then has brought the
database in line with the disk (`EndsInSync`), whatever earlier scans left behind. By
`SyncInvariant` files are in directories that are there, rows that are not missing in
folders that are known (`FilesFoldered`, `RowsFoldered`); in phase 1 a directory is
still to be walked, or in the pipeline, or skipped or stored as it is now (`Covered`), and
a folder that is gone is still pending (`GonePending`), unless something failed and the
scan will not reach phase 2; from phase 2 on the database is in line. `ScanInvariant`
supplies what a skipped or stored folder has in the database. In the later phases
`MoveTrack` is the step that could undo it, and does not until a move target is used
twice (`doubled`).

*Moved files.* `OnlyMoves` states what the property is about: an imported library whose
files have different contents and are only moved, between scans, to places no row is
about; scans of the whole library that can read it. Purging, persistent ids shared by
files, failed transactions and interruptions anywhere are allowed, without bound.
`MovesInvariant` follows the rows: each file keeps the row it was imported with
(`OwnRowsKept`); another row of it was added by the scan in progress or by the one it
resumes, and only when the file was no longer at the place of the first
(`NewRowsRecent`); from phase 2 on only first rows are missing (`FirstsMissing`), each
with the one match of its content (`MatchesReady`), as `SyncInvariant` has every file's
row there by then. So after phase 2 nothing is missing and nothing is left to purge, and
when the scan ends no file has a second row. It holds as long as no two missing rows had
a match in common (`contested`): the counterexample TLC finds without that is in
section 6.

*Scrobbles in order.* `OrderInv`: no row that is still in the buffer is `Earlier` than
the row a worker has in hand, and a row to be deleted has been answered for. The
first part is what carries the order over the steps between reading a row and
sending it: rows inserted in between get a higher rowid, so they are never
`Earlier`, and deletions only make it easier, whichever worker they come from.

*Delivery.* With `pending <- buffer`, `ServiceAnswers` and `CallCutOff` map to
`Answer`, `Dequeue` to `Forget` (the row in hand at "dequeue" has been answered
for), `Enqueue` to `Accept`, `TrackDeleted` to `TrackGone`, everything else to a
stutter.

*No lost wake-up.* `WakeInv` adds to `NothingStuck` that the scrobbler in charge
has a worker that runs and is not cancelled. `NothingStuck` then carries itself: a
row's insertion is followed by its request's signal, a signal is consumed only by
the step that goes on to read the users, a user leaves the pass only when no row is
left or when the pass is going to fail, and a failed pass arms a timer. The signal's
capacity of one is enough because it is consumed before the users are read.

*Sent once.* `OnceInv`: without failures, restarts and plugin turns only the tracker's
worker runs, and a row that was sent and is still in the buffer is in its hand at
"dequeue".

*One scan at a time.* `OneScan` says that the flag is up whenever somebody scans,
and with that it is inductive: a call gets past the flag only when it is down, and
the one that scans is the only one to take it down.

*Attendance.* `NoticedIsAttended` needs one fact beside it, `CallsCover`: a call asks
for every folder its caller cares for. The proof follows a folder from hand to
hand (`Watched`, `Requested`, `Reading`): a notification becomes a target, targets
become a call before they are cleared, a call becomes a scan of at least those
folders or is refused while the scan that runs has them ahead, and a folder leaves
that scan only by being read.

*Event streams.* The invariant follows a stream through its life (`Lifecycle`): what
may be in which channel in which place of the handler; that ids on their way
(queue, hand, writing) are ordered behind what was written and concern the stream;
and that a stream's channel is closed in the step that takes it out of the map, but
for a registration that comes after its end. `Distribute` maps to `Publish`,
`Register` to `Join`, `Write` to `Receive`, the rest to stutters.

*Plugins.* `IInv`: an instance in somebody's hand is open and not in the map, in
nobody else's hand (`Owned`, so the map never holds a closed one); every open
instance is somewhere (`Known`); a goroutine between Add and Done is counted, and
after Stop nobody is (`Counted`); an operation under way has steps left
(`Programmed`). That row and map agree at rest needs a second invariant, `QInv`,
about states where operations have not overlapped: `Sound`, a row that is not there
is neither enabled nor for anybody; `Booting`, before Start nothing goes on; `Quiet`,
what the one operation under way has read, and the steps it has left, bring row and
map together from where they are (`Agreement`, `Fit`, `Ready`).

*Jukebox.* `IInv`: the index is a place of the queue, -1 or 0 (`QueueOK`); the active
player is alive and, without overlaps, the only one but for those that `NewTrack` started
and gave up, for which no goroutine waits (`PlayerPart`); a goroutine that
waits for a player is alone and waits for the song at the index (`TaskPart`). That a
removal or a shuffle finds the current song again uses the least number principle of
`WellFoundedInduction` for `IndexOf`.

*File cache.* `IInv`: a content is final exactly when nobody writes it (`Closed`);
what is left of one that broke off is not in the cache once it was invalidated
(`NoRemains`); a content that is being made is the entry of its key, or its key is
`crossed` (`Entered`). The step lemmas are about `FileCache` alone (`CacheInv`), and
those of `CacheWarmer` reduce to them.

*Host services.* `IInv` has a part per service, and lemmas by which a step of one
service leaves the others' parts alone. For schedules: what is live and safe is the
latest of its name (`Latest`), an older timer that is still at work makes a newer one
unsafe (`Spread`), a timer is in one place once (`Once`). For connections the same
(`LatestConn`, `SpreadConn`), that one goroutine at most closes a connection
(`Exclusive`) and how often a plugin was told of its end at most (`Told`). `Closing` says how far
the unloading is. For the store, `StoreInvariant` adds to
`StorageAccounted` where a write under way belongs (`WritesPlaced`), that two writers of
a key are noticed (`WritersCrossed`), that without them the size a writer has read is
still the row's (`OldRead`), and that the one write past the check has room
(`OneAdds`, `RoomLeft`). Sums over a set have no induction rule that the provers can
use; the lemmas about them (a changed term, an added element, equal terms) follow from
the recursive function over the subsets of a finite set by a smallest counterexample,
for which `StoreAssumption` has `Keys` and `Calls` finite.

Every invariant and every action property of the passing runs, and both refinements,
are proved. Only model-checked are the liveness properties (`EventuallyInSync`,
`EventuallyDelivered`, `NoticedIsRead`, `SendersReturn`, `QueuedIsWritten`,
`Forgotten`, `EventuallySynced`, `EventuallySwitches`, `EventuallyWarmed`), as liveness
under fairness is outside what the prover handles. Proved and checked by no run:
`SentOnce`, `EndsInSync`, and the inductive invariants.

## 5. Plan

Done: `LibraryScan`, `ScrobbleBuffer` over `ScrobbleDelivery`, `ScanControl`,
`EventBroker` over `Broadcast`, `PluginManager`, `Playback`, `FileCache` and
`CacheWarmer`, the host services of plugins; each with its safety properties proved.

Left, in this order:

1. Safety cores of the other liveness properties, as `EndsInSync` is one: what the
   event broker and the cache warmer have done when they come to rest.
2. The now-playing queue and map of the play tracker.
3. `LibraryScan` over two libraries (cross-library moves), annotations of matched
   rows, and maintenance running beside a scan.
4. `ScanControl`: watches of several libraries started and stopped, progress messages.

### Not modelled

The modelled parts are those whose correctness depends on the order of steps: they
keep state that several goroutines, processes or restarts share. By lines they are a
small part of the repository. The rest is of four kinds, and a state machine of it
would say nothing that its code does not say:

* conversions and formats: tags to domain model, Subsonic and native API responses,
  playlists and ignore patterns, request parameters, smart-playlist criteria;
* input and output without state of its own: artwork readers, metadata agents,
  streaming and transcoding, file systems, HTTP middleware, metrics;
* one SQL statement per operation: most repositories, the libraries and users
  services, migrations, backup. Where statements matter together, they are in the
  models above;
* generated or declarative code: the plugin SDK with its generator, configuration,
  command line, wiring, the web interface, packaging.

Parts with state that are left out: the now-playing queue and maintenance (plan
above), the cache of values in memory (a library's), the job scheduler (a wrapper around a
cron library), the registry of singletons, sessions (tokens), the host services for caches, artwork, libraries
and users (they wrap a library or read the database). `PROJECT.json` lists all components.

## 6. Where code and documents disagree

Found by runs:

* `scan_double` - phase 2 may move two missing tracks onto one new file
  (`phase_2_missing_tracks.go:122`).
* `scan_rescan` - the flag by which a migration asks for a full rescan is deleted
  before the scan has left a trace (`cmd/root.go:206`); a restart in between, or a
  scan of somebody else's that holds the lock in these seconds, and the rescan never
  happens, against `db/migrations/migration.go:22`.

Seen in the models, and excepted from the properties where they would refute them.
The scan:

* A full scan that resumes an interrupted quick scan is not recorded as full
  (`scanner.go:195`), against `scanner/README.md:392`.
* A file that moves on before an interrupted scan is resumed has two missing rows, the
  one it was imported with and the one the interrupted scan gave it, and one match.
  Phase 2 moves both onto it (`scan_double`), or, interrupted in between, leaves the
  second one missing; when the file moves again both have one match in common again, the
  second one may take it, and the file's track id is lost, against
  `scanner/README.md:381-386`. `MovedFilesKeepIds` excepts this (`contested`).
* Retagging a track to another album leaves the old album's aggregate as it was
  (`phase_1_folders.go:379`).
* An extractor that leaves out a file it cannot read (`phase_1_folders.go:277`,
  fault `"tags"`): the folder is stored with its new hash and quick scans do not look
  at the file again. The theorem assumes this away and the runs leave it out.
* A crash between the purge and the garbage collection: the resumed scan sees no
  change and does not collect (`scanner.go:234`); empty albums stay until a later
  scan changes something.
* A library whose storage does not open, or a directory that cannot be read during
  a full scan, still lets `ScanEnd` clear the full-scan flag
  (`phase_1_folders.go:40`); a selective scan that resumes a full one clears it as
  well, with only its targets read. `FullScanCovers` is checked without these.
* With `PurgeMissing = "full"`, a purged track's album may keep counting it when
  nothing else touches the album.
* The ways to lose a noticed change listed in 2.3; "notification already pending"
  (`watcher.go:272`) is not so for the folder that is dropped in the selective mode.
* Every scan that ends stores the configured PIDs (`scanner.go:302-307`), also a
  quick or a selective one that finishes before the full scan a changed PID asks
  for has begun.

Scrobbles:

* A buffered scrobble reaches a plugin without a user name
  (`buffered_scrobbler.go:29`, `scrobbler_adapter.go:93`), against
  `plugins/capabilities/scrobbler.go:85`.
* A scrobble whose plugin is unloaded between loading the instance and the call is
  discarded (`buffered_scrobbler.go:134`, `scrobbler_adapter.go:159`).
* A plugin's scrobbler is created by the next play only, so rows a restart left in
  the buffer wait for it; a row inserted through a scrobbler that was replaced in
  the meantime waits for the next play or restart (`stranded`).

Event streams:

* A client that leaves at once may be taken out before it is registered: `listen` then
  registers it, sends the greeting on a closed channel and panics (`sse.go:237`).
  `OnlyOvertakenPanics` says that there is no other way to it.

Plugins:

* Two operations on a plugin at a time can leave an instance open that nobody will
  close (`manager_loader.go:363`), or an old row.
* The services made for a plugin that then fails to compile are not closed
  (`manager_loader.go:315-360`, `orphaned`).
* A file listed but unreadable loses its row (`manager_sync.go:166-168`); a database
  error while a file event is handled adds the plugin again as new; a rescan, an
  update or a start that overlaps Stop stores "manager is stopped" in the row and
  disables the plugin for the next process.
* A change of the file between the sync of Start and the start of the watcher is seen by
  nobody until the next event or restart (`missed`).

Host services:

* A schedule cancelled and made anew inside its own callback is deleted by the
  clean-up that follows; a timer that comes late finds the new schedule of its name
  and fires that one's payload, against `plugins/host/scheduler.go` ("Once
  cancelled, the job will not trigger any future events").
* Schedules and connections made while the plugin is being unloaded are stopped by
  nobody; of two Connects for one name the first connection leaks.
* Writers of one key that cross make the counted size drift for good, even below
  zero; racing Sets can exceed the limit; `plugins/host/kvstore.go` says "returns
  the total storage used".

Jukebox:

* A player is lost, plays on and is reached by no command when Start, Skip or Clear
  overlap with the start of another player (`device.go:292`).
* An mpv that was started when its control socket does not show up within three seconds,
  or cannot be opened, is neither cancelled nor kept by a track (`mpv/track.go:48-60`): it
  plays its song to the end beside whatever comes next, and no command reaches it.
* `SetIndex` on an empty queue gives 0 (`queue.go:121`); after the current entry
  was removed an Add makes the first entry the current one, and the switcher later
  skips it; with the same song twice in the queue, removals and shuffles jump to its
  first place.
* An end that was noticed before a Skip cuts the next song short.
* The player of the switcher's next song that does not start ends the playback.
* `Set` closes the playing track; its comment says that it "will not change the
  currently playing track" (`device.go:91`).

File cache:

* Readers that come along, or before the invalidation, get the part of a failed
  content that is there, without an error.
* A content half written when the process ends is reloaded as a complete one
  (`spread_fs.go:59`).
* `invalidate` goes by the key and may take an entry that was made anew.
