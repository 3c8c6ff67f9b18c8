# SaveKnot in TLA+

Specifications of [SaveKnot](../src/README.md), the daemon that backs up the save
files of PC games, keeps a history of snapshots on the local disk and copies it to
a Cloudflare R2 bucket. The modules model the Go code under `src/internal`; TLC
checks them on small instances, and TLAPS proves the safety properties that are checked, and the
two refinements, for every value of the constants.

File names below are relative to `src/internal`. `PROJECT.json` lists, for every
definition, the lines it stands for.

## 1. The system

### 1.1 Components

| Component | State | Operations | Interacts with | Hard behaviour | What makes it correct |
|---|---|---|---|---|---|
| `app/coordinator.go`, snapshots | `syncMu`, `backupMu`, `activeSyncSnapshots` | Backup, Restore, SyncGame, syncPending, automaticSyncGame, SyncNow, DeleteSnapshot, ReconcileRemote, retention | everything below | six kinds of operations on up to four goroutines plus HTTP handlers, network calls between locked sections, R2 errors, crashes | no snapshot loses data; manifests after blobs; retention keeps the newest; operations end |
| `app/coordinator.go`, upload queue | `automaticSyncGames`, `automaticSyncWake` | queueAutomaticSync, runAutomaticSync, queuePendingAutomaticSync | watcher worker, store, syncGame | wakeups that meet a full channel, restarts | no game is forgotten; every automatic snapshot is tried |
| `app/coordinator.go`, library | `reconcileMu`, diagnostics | run, discover, registerSteamGame, refreshCatalog, RemapGame, ReconcileWatches | store, catalog, discovery, watcher | scans beside user edits; a scan that ends early | user decisions survive a rescan; a game's records come from one catalogue entry; what is watched follows what is enabled |
| `app/local_relocation.go` and `database/store.go` 1087-1960 | `blobs.path`, journals `pending_blob_sources` and `relocation_artifacts`, files | ConfigureLocal, PrepareBlobRelocation, Switch, Rollback, CleanupPendingBlobSources | settings, blob root of the snapshot service | crash between copy, switch, settings and clean-up | every indexed blob has its file at all times |
| `database/store.go`, snapshots | `snapshots`, `snapshot_blobs`, `blobs`, blob files | SaveSnapshot, ImportSnapshot, DeleteSnapshot, removeOrphanBlob, SaveBlob, MarkBlobUploaded, MarkSnapshotRemote, queries | all | each transaction is atomic, sequences of them are not | references and files agree |
| `database/store.go`, games | `games`, `game_paths`, catalogue tables | UpsertGame, UpdateGame, ReplaceCatalogPaths, AddPath, ... | API, discovery | read-modify-write without a transaction | no lost update, custom paths survive |
| `snapshot/service.go` | blob root, staged files, the backups of replaced files (in memory) | Create, Restore | store, registry backup | files that change while read; failure or a stop in the middle of a restore; two save paths that lead to one file | a snapshot is complete when it is listed; a restore puts everything in place or nothing |
| `remote/sync.go`, `remote/r2.go` | objects in R2 | Upload, EnsureLocal, NeedsDownload; Put, Get, Delete, List | store | partial uploads, lost answers | blobs before the manifest |
| `remote/reconcile.go` | none | Reconcile | store, R2 | runs without a lock, may overlap with itself | what is imported is complete; the history stays as it is |
| `watcher/watcher.go` | targets, OS watches, `pending`, `lastQueued`, channels `update` and `jobs` | Reconcile, run, Start | file system events, coordinator.automaticBackup | debouncing, a full queue, stale lists of targets, directories that come and go | changes are backed up, after a quiet period, before a maximum age |
| `settings/manager.go`, `config`, `secrets` | configuration file, vault, R2 health | ConfigureR2, DisconnectR2, ConfigureLocal, R2, RecordR2* | store, R2, keyring | several stores updated in turn | settings and secret belong together |
| `catalog` | manifest, ETag, SQLite index | Update, EnsureIndex, Compile, Resolve | HTTP, discovery | concurrent updates, partial writes | the ETag describes the index in use |
| `discovery` | none | scans of Steam, Epic, GOG, Ubisoft and folders | coordinator.discover | none: parsing | - |
| `events/bus.go`, `database/activity.go` | subscribers, activity table | PublishContext, Subscribe, Prune | API stream | slow subscribers, shutdown | every event is persisted before it is delivered |
| `registrybackup` | Windows registry | Export, Restore | snapshot service | partial restore | restored keys equal the document |
| `app/application.go` | life cycle | Build, Run | all | order of the shutdown | the database closes last |
| `api` | HTTP handlers, web interface | one handler per route | coordinator, store, settings, bus | concurrent requests; cancelled requests | - |
| `logging`, `platform`, `cmd`, `scripts` | - | log rotation, desktop integration, set-up | - | - | not modelled: no state the daemon relies on |

### 1.2 Goroutines and locks

`Coordinator.Start` runs the periodic loop, the automatic-sync worker and the watcher
(whose event loop and job worker are two more goroutines); each HTTP request has its own.
`syncMu` serialises everything that talks to R2 except ReconcileRemote: SyncGame,
automaticSyncGame, syncPending, Restore, DeleteSnapshot, ConfigureLocal. `backupMu`
guards sections that change local snapshots, is always taken after `syncMu` and is
released across network calls. ReconcileRemote takes neither. The SQLite pool has
one connection, so every transaction of `store.go` is a step; a transaction is
the unit of interleaving of all modules.

## 2. Modules

| Module | Extends | Models |
|---|---|---|
| `Store` | - | snapshot index, blob index, blob files; one operator per transaction |
| `Coordinator` | `Store` | the snapshot operations, their locks, R2, another device, crashes |
| `SnapshotArchive` | - | abstract: what the history of snapshots promises; `Coordinator` implements it |
| `SnapshotRestore` | - | a restore to disk: staging, activation, registry, every rollback |
| `RestorePromise` | - | abstract: what a restore promises; `SnapshotRestore` implements it |
| `StorageTarget` | - | connecting and disconnecting storage targets beside uploads |
| `Watcher` | - | the watcher, the callers of ReconcileWatches, the job worker |
| `AutoSync` | - | the queue of automatic uploads |
| `BlobRelocation` | - | the change of the local backup directory, its two journals, the clean-up at every start |
| `CatalogCache` | - | the three files of the catalogue and the refreshes that write them |
| `GameRecords` | - | games, save locations and pictures: scans, remaps and requests |
| `MCCoordinator`, `MCSnapshotRestore`, `MCStorageTarget`, `MCWatcher`, `MCAutoSync`, `MCBlobRelocation`, `MCCatalogCache`, `MCGameRecords` | the above | values of the constants for TLC |
| `CoordinatorProofs` | `Coordinator` | theorems about it |
| `WatcherProofs`, `AutoSyncProofs`, `RelocationProofs`, `RestoreProofs`, `TargetProofs`, `CatalogProofs`, `GameProofs` | `Watcher`, `AutoSync`, `BlobRelocation`, `SnapshotRestore`, `StorageTarget`, `CatalogCache`, `GameRecords` | theorems about them |

Faulty variants of a definition stand right before it; they are what the definition would be with a
plausible mistake, and each breaks the property it was written for.

### 2.1 Store and Coordinator

*Data.* A snapshot is a number of `1..MaxSnap`; its order is the order of
`created_at`. A manifest is the set of blobs it names (`files[s]`), fixed once the
identifier is used, since manifests are immutable; a game's save files hash to
one of `Contents`. `disk` are the blobs with a *valid* file at the indexed path:
every writer of the code renames a verified file into place and every reader of a
download verifies it. `uploaded` is `blobs.uploaded_to` for the one connected
bucket.

*Operations.* `job[w]` is the operation of goroutine `w`: its step (`pc`) and its
locals, among them the lists it read earlier (`todo`, `remote`, `orphans`), which may
be stale when they are used. `Role[w]` says which operations `w` may start.

| Code | Steps |
|---|---|
| `Backup` / `Service.Create` / `applyLocalRetention` | `Backup` - `StoreFile`, `IndexFile` per blob - `CreateSaved` or `CreateSkipped` or `CreateFails` - unlock - `LocalRetention` (locks again, reads the list) - `Trim`, `Sweep` per orphan - `TrimDone` |
| `SyncGame`, `automaticSyncGame`, `syncPending` / `Syncer.Upload` | `SyncGame` or `SyncPending` - `MarkActive` (under backupMu) - `PickUpload` - `EnsureBlob` per blob - `PutManifest` - `MarkSynced`, with `UploadFails` anywhere - `Unmark` - `ListExcess` - `Evict` (R2) - `Unlist` (under backupMu) - `Sweep` - `SyncDone` |
| `DeleteSnapshot` | `DeleteSnapshot` - `Evict` - `Unlist` - `Sweep` - `EvictDone` |
| `Restore` / `EnsureLocal` / `Service.Restore` | `Restore` - per blob `VerifyBlob`, or `FetchBlob` (the download) and `SwapBlob` (the renames and SaveBlob) - `RestoreBegin` (takes backupMu, starts the pre-restore snapshot) - the steps of Create - `RestoreEnds` |
| `ReconcileRemote` / `Reconciler.Reconcile` | `ReconcileRemote` (lists) - `Examine` (HasSnapshot) - `DownloadManifest` - `Import` - `ReconcileEnds` |

`DeleteSnapshot` of the store is a first transaction (`DeleteRow`, which also returns the
blobs without a reference) and then one transaction per orphan
(`RemoveOrphanBlob`, which checks the references again). The database has no foreign key from
`snapshot_blobs` to the file, so nothing but the order of these steps keeps files and
references together.

*Failure.* `UploadFails` and `EvictFails`: an R2 call returns an error after it took effect
or before. `RestoreFails`: a download fails, possibly with its file in place and not yet indexed. With
`SwapStops` it may also stop after it has moved the old file aside and before its own is in place: only
`interrupted_download` sets it (finding 1), and all other runs show what holds without it.
`SweepFails`, `CreateFails`, `UnlistFails`: the later transactions of an
operation do not happen. `Crash`: every operation, lock and mark is gone; a transaction that was
removing an orphan may have removed the file without deleting the row.
`OtherDevicePublishes` and `OtherDeviceDeletes`: the bucket is shared.

*Refinement.* `SnapshotArchive` knows no blobs on disk, index, lock or operation under way: a snapshot is taken whole, shared with other devices
only while it is in the history, adopted whole from another device, and removed only when the user has asked for it or enough newer
ones of its game are there; its content never changes. The mapping computes that content from what a restore would find: of a
synced snapshot the blobs in the bucket, of any other the blobs that are indexed and on disk (`History`); of a shared one the blobs in the bucket
(`Shared`). A deletion that lost a blob of another snapshot, or a manifest sent before its blobs, would thus be a step no action of the
archive allows. Two consequences of the archive say it in the user's words: what is listed gives back all of what was taken (`Faithful`), and it does so
until it is removed for one of the two reasons (`Lasting`). What a user has asked to delete is what the running DeleteSnapshot has on its list (`Requested`); a failure or a crash gives it up.
TLC checks `Archive!Spec` as a property of `backup_sync` and `import_restore`, and `CoordinatorProofs` proves it.

### 2.2 Watcher

The event loop `Manager.run` is a `select`: `ApplyTargets`, `HandleEvent`, `FlushPending` (for
the ticker) and the channels to it. `LoadTargets` and `Reconcile` are the two halves of
ReconcileWatches, which any number of callers run at once, without a lock. Its error paths are in the model: ListGames fails (`LoadFails`: the old
targets stay), the locations or the policy of a game cannot be read (`LoadTargets` leaves it out), or the directory to watch for it cannot be found
(`ApplyTargets` passes it over). `TakeJob` is the job worker; a backup lasts until it takes the next one. Instants are kept as the seconds left until
them: `snapshotDue` only ever compares an instant with now, so `min(max(first + ...))`
becomes `SnapshotDue` over remaining seconds, and no horizon is needed. Notifications are one
of two kinds per directory, merged while unread (the watcher reacts to the same
notification twice as it does once). `noticed`, `calm`, `always` and `ever` are history variables used by the
properties only: the last two are the games that were enabled all along, and at some time, since the first of the
calls that overlap began. A game whose targets an error left out is taken from `always`.

### 2.3 AutoSync

`queueAutomaticSync` is two steps, `QueueAdd` (under `automaticSyncMu`) and `QueueWake`
(non-blocking send); `runAutomaticSync` is `Woken`, `TakeGame`, `TakeNone`, and the sync it
runs is `Load` (the list is read) and `Upload` (it succeeds or fails and is not
retried). `phase` is the progress of `Start`, which queues what an earlier run left
before it starts the watcher. `owed` is a history variable.

### 2.4 BlobRelocation

*Data.* A root is a path the user may configure; `Place` says which directory it leads to, so two roots can be
one directory (a symbolic link, a junction), which `samePhysicalFile` exists for. A valid blob file is a place
and a hash. `index` is the root part of `blobs.local_path`, the rest being determined by the hash. `sources`
is the table `pending_blob_sources`, `artifacts` is `relocation_artifacts`; an artifact also carries the state
of its staging file (absent, a file of its own, or one more link of the destination). `needed` are the blobs of
snapshots that are not in R2. `before` and `op.exact` exist for the properties only.

*Operations.* ConfigureLocal holds both mutexes, so backups, restores and deletions (`StoreFile`, `Download`,
`IndexFile`, `Release`, `RemoveOrphan`) run only while it does not; they are the steps of `Coordinator`, reduced
to what they do to files and paths.

| Code | Steps |
|---|---|
| `PrepareBlobRelocation` | `ConfigureLocal` - per item `VerifyItem`, or `JournalItem` and then `ReuseDestination`, or `OwnStage` - `CopyStage` - `LinkStage`, or `MarkRenamed` - `RenameStage`; `PrepareFails` anywhere |
| `Switch`, the settings | `Switch` (one transaction) - `SaveSettings`, or `SaveFails` |
| `Rollback` | `Rollback` or `RollbackFails` (the switch back) - `CleanupArtifact` per artifact of the attempt - `UndoDone` |
| `CleanupPendingBlobSources` | `CleanupArtifact` per artifact - `CleanupSource`, `SkipSource` or `CleanupSourceFails` per source - `CleanupDone` |
| a stop and `Build` | `Restart`, possible in every state: it loses the receipt, reads the settings and starts CleanupPendingBlobSources |

*Failure.* `CleanupArtifact` removes any prefix of the artifact's files before its transaction rolls back;
`CleanupSourceFails` may have removed the source. Every transaction may fail, every file operation may
fail, and the daemon may stop between any two of them.

### 2.5 SnapshotRestore and RestorePromise

*Data.* `Paths` are the save locations of the game, numbered in the order GamePaths lists them; `Resolved` says which file
each leads to (two may lead to one) and `Template` what it was resolved from, of which `sourceKey` is the hash. A file has the
content it had at the start (`Old`) or that of the snapshot (`New`); a registry root can also be half written (`Part`). `kept` is
the content of the `.saveknot-old-*` files, `temps` the staged ones, `recorded` and `activated` the list `backups` in
memory. `captured` and `capturedRoots` are the pre-restore snapshot; exclusions keep files out of it, and are read once. `enabled` and
`enabledRoots` are the locations and keys that are switched on; requests and scans change them beside the restore (`ChangePath`, `ChangeRoot`,
recorded in `touched`), and every step that reads them in the code reads them anew. Coordinator.Restore holds `backupMu`, so one restore runs at a time; its downloads and
locks are in `Coordinator`, whose step `RestoreEnds` stands for what this module details.

| Code | Steps |
|---|---|
| `ValidateRestoreScope`, `createRollbackSnapshot`, the scope of the latter and the read of GamePaths for staging | `ValidateScope`, `CreateRollback`, `Locate` |
| `addPath`, `updatePath`, `deletePath`, `SaveGameRelations` | `ChangePath`, `ChangeRoot`, between two reads |
| `stageRestoreFiles`, `loadRestoreRegistry` | `StageFile` or `StageFails` per file, `LoadRegistry` |
| `activateRestoredFiles` | `Preserve` and `Activate` per file, `AllActivated` |
| `registrybackup.restore` | `ApplyRoot` per root, `RegistryApplied`, or `RevertRegistry` and then `RestorePrevious` (`restorePreviousRegistry`) |
| `rollbackRestoredFiles` | `RemoveRestored` and `PutBack` per entry, backwards, `Undone` |
| `removeRestoreBackups`, `cleanupStagedRestoreFiles` | `Tidy`, `Unstage` |
| a stop | `Stop`, anywhere; nothing at the next start knows of the restore |

*Refinement.* `RestorePromise` has the values of files and roots and one step: everything wanted is in place, or nothing has
changed, or, only when the process stopped or undoing failed as well, each thing is old, new, missing or half written.
The mapping shows the old values until the restore has an outcome, which is what a caller that looks before and
after sees. TLC checks `Promise!Spec` as a property, and `RestoreProofs` proves it.

### 2.6 StorageTarget

`settings`, `vault` and `uploadedTo` are config.json, the credential store and `blobs.uploaded_to`; a target is an account,
bucket and prefix with a secret of its own, and a request signed with the secret of another is refused (`Accepted`).
ConfigureR2 is `ConfigureR2` - `InvalidateBlobUploads` - `StoreSecret` - `SaveConnected`, with `ConfigureFails` anywhere;
DisconnectR2 is `DisconnectR2` - `GetSecret` - `DeleteSecret` - `SaveDisconnected`, which puts the secret back when the settings cannot be saved.
An upload is `LoadSettings` - `LoadSecret` (the two reads of `Manager.R2`) - `PickUpload` - `EnsureBlob` - `PutManifest` -
`MarkSnapshotRemote`, or `UploadFails`, under `syncMu`, so there is one. Requests take no lock. `trusted` and `spoiled` exist for the properties:
a target is not trusted from the moment somebody deletes its objects until the user connects to it again, and the
three stores are spoiled by an overlap or a step that was cut short until a request that runs alone succeeds.

### 2.7 CatalogCache

A refresh is `Start` (LoadCustomManifests; `CustomUnavailable` leaves one out) - `ReadTag` - `NotModified` or `Download` - `CompileDownload` -
`WriteManifest`, `RenameManifest` - `WriteTag`, `RenameTag`, and after a 304 or an error EnsureIndex: `IndexUsable`, or
`OpenManifest` and `Recompile`. A version of the catalogue is a number, and so is its ETag; of the index the version and the
custom manifests it was compiled with are kept. A compilation that does not commit leaves the empty tables it may have created
(`Abandoned`). The temporary file of `writeAtomic` has a fixed name that all refreshes share. `overlapped` and `lost` are history variables.

### 2.8 GameRecords

*Data.* `games`, `rows` (`game_paths`) and `artwork` (files). A place is a template together with what it resolves to, the key of a row. The
catalogue registry keys of a game are represented by the entry they come from. `match` says which entry an installed game
is matched to, `disk` which places exist.

| Code | Steps |
|---|---|
| `discover` (holds `reconcileMu`) | `Discover` - `Match`, `Register` or `MatchFails`, `RegisterFails` per installed game - `FindSaves` - `RegisterLocal` per game found - `ListLocal`, `ClearStale` per game not found - `Discovered`, or `ScanFails` |
| `RemapGame` | `RemapGame` (reads and resolves) - `SaveRemapped` |
| `Store.UpdateGame` (a switch or a picture) | `ReadGame` - `WriteGame`; it writes back every column it read |
| `uploadImage`, `resetImage` | `UploadImage` - `ReadGame` - `WriteGame` - `CleanupArtwork`; `ResetImage` - `ReadGame` - `WriteGame` - `RemoveArtwork`, or `RemoveFails` and a write of the old picture |
| one statement each | `AddGame`, `AddPath`, `UpdatePath`, `DeletePath`, `SetGameHidden`, `EnsureRemoteGame` |

`raced` is a history variable: the games that two requests changed at once.

## 3. Runs

| Run | Checks | Instance | Shows |
|---|---|---|---|
| `backup_sync` | TypeOK, RemoteComplete, SnapshotsRestorable, ActivePresent, RetentionKeepsRecent, KeepsArchive (refinement) | 2 workers (backup; sync and delete), 3 snapshots, 2 blobs, Keep 1, crashes, another device | blobs before manifests; no snapshot loses data; a snapshot being uploaded is not deleted; stale retention lists delete nothing recent; all of it implements `SnapshotArchive` |
| `import_restore` | ReferencedFilesKept, KeepsArchive (refinement) | 3 workers (backup; delete, restore and import; import), 2 snapshots, 2 blobs; 1,579,541 states | the unlocked import, of which two may overlap, never loses a file to a concurrent orphan removal; what it adopts is complete and what is in the history stays so |
| `operations_end` | OperationsEnd | 2 workers, every pair of operations that contend for a lock, fairness | no deadlock, no lock is kept |
| `interrupted_download` | SnapshotsRestorable, **violated** | 2 workers (backup; restore), `SwapStops` | finding 1 |
| `watch_debounce` | TypeOK, TargetsRecent, QuietRespected, ChangeIsBackedUp | 1 game, 2 callers, quiet 2, gap 3, dirty 3, about 655,000 states | debouncing under every interleaving of writes, ticks, revisions, errors and directory removal; what is watched was right at some moment since the calls began |
| `automatic_uploads` | TypeOK, NoLostWakeup, SnapshotIsTried | 3 games, 1 restart, fairness | no lost wakeup, every automatic snapshot is tried, also across a restart |
| `relocation` | TypeOK, NeededOnDisk, UndoneExactly, MovedCompletely | 1 blob, 3 roots of 2 places, 2 artifacts, restarts anywhere | no step takes the only copy of a blob; a change that fails is undone exactly, with the journals of earlier ones; one that completes leaves nothing behind, nor do unfinished ones before it |
| `restore_files` | TypeOK, OldOnDisk, ReplacedWasCaptured, NothingLeftBehind, KeepsPromise (refinement) | 3 paths, two of which lead to one file, 2 registry roots, 3 failing calls, 1 path or root changed meanwhile, a stop anywhere; 3,565,148 states | what is replaced has been captured, with two exceptions; a restore is all or nothing unless undoing fails too; no previous file leaves the disk before everything is in place |
| `restore_pattern` | RestoredWhereCaptured, **violated** | 2 paths of one template, no failure | finding 2 |
| `storage_target` | TypeOK, PairVerified, PublishedComplete | 2 targets, 2 callers, 3 requests, 2 snapshots that share a blob, 1 emptied target | no manifest without its blobs at any target; settings and secret agree unless requests overlap or are cut short |
| `catalog_cache` | TypeOK, TagNotAhead, CatalogKept, CatalogCurrent | 2 refreshers, 2 versions, 1 set of custom manifests, 2 faults | the ETag never gets ahead of the files; games are never discarded; the current catalogue arrives in the end |
| `game_records` | TypeOK, RelationsAgree, ArtworkExists, ChoicesKept, StaleCleared | 1 installed game, 2 entries, 1 game by hand, 2 places, 2 callers, 2 requests, 1 change, 1 fault; 852,381 states | records of a game come from one entry; what the user chose stays; pictures exist; places that are gone are dropped |

### 3.1 Bounds and why they are enough

* `MaxSnap` bounds identifiers, hence backups and publications of other devices
  together. With `Keep = 1`, three snapshots give one that is kept, one beyond and one that
  arrives while a list of excess is in use; two are enough where
  imports, restores and deletions meet over the same snapshot.
* Two blobs with `Contents = {{h1}, {h1, h2}}`: a blob shared by snapshots and one
  that only some need, so orphan removal has something to remove and something to leave.
* Two or three workers: the locks admit one operation that holds `syncMu`, one that
  holds only `backupMu`, and imports, which hold none. A third waiting operation adds no new
  interleaving of steps.
* One game in `Coordinator`: games share blobs, which two snapshots of one game do as well, and
  nothing else. The proofs are for any number of games.
* `MaxCrashes = 1` in `AutoSync`; crashes are not bounded in `Coordinator`.
* `QueueCap = 1` in `Watcher` (32 in the code, `watcher/watcher.go:47`): the queue is full as soon as one job waits.
* `BlobRelocation`: one blob, because a relocation treats each blob by itself except that an error in one
  ends the preparation of all, which is also what `PrepareFails` does in every state. Three roots of two places give
  chains of relocations, a return to the old root, and a root that is another name of the old one.
  `MaxJournal = 1` and `Slots = {1, 2}`: a relocation starts with at most one row of either journal left by an earlier one.
* Policies: quiet 2, gap 3, dirty 3 lets each of the three bounds decide the due time: the quiet period after a first event, the rest of the gap
  after a backup, the age of the first change after later events. Two callers give every overlap of an older list with a newer one.
* `SnapshotRestore`: three paths, of which two lead to one file, so that a rollback has an entry before and after them; three failing
  calls are one that fails the restore, one that fails undoing the registry and one that fails undoing a file. Every subset of the paths and
  roots may be in the snapshot and enabled. One change (`MaxChanges`) falls between any two reads; more of them only switch more paths, each of which the
  property treats by itself. The theorems have no such bound.
* `StorageTarget`: three requests give connect, connect to another, and back, and every overlap of two; the second blob belongs
  to one snapshot only, so a snapshot may find all, some or none of its blobs recorded.
* `CatalogCache`: two versions, so that an ETag can be behind, equal or ahead; two faults (a failure, a crash, a lost index or new
  settings) in any order.
* `GameRecords`: two requests at once, or one after the other, beside a scan, with one failure or crash and one change of the disk or
  of what a game is matched to. The second entry has no wildcard, so a user can name its place by hand. A larger
  instance only adds games, which do not touch each other's rows.

Deadlock checking is on in every run but `restore_files` and `restore_pattern`, where a restore ends.

### 3.2 Fairness

* `Coordinator`: weak fairness of the steps of a started operation (a goroutine runs, a network call
  returns, since every R2 request has a context and the HTTP client errors in the end);
  strong fairness of the steps that take `backupMu`, because `sync.Mutex` hands the
  lock to a waiter after a millisecond of starvation. Nothing is assumed of the start of operations, of other
  devices or of crashes.
* `Watcher`: weak fairness of each case of `select`, which Go chooses at random among the ready ones,
  of the ticker, and of the job worker. Strong fairness of a due game being flushed: `flushPending` ranges
  over a Go map, whose order is random, so a game is not passed over at every tick that has room.
  Nothing is assumed of games that write, nor of callers: one that has loaded a list may never hand it over.
* `AutoSync`: weak fairness of each goroutine; strong fairness of taking each queued
  game, as the map is ranged over in random order.
* `CatalogCache`: weak fairness of the loop's next refresh (a ticker) and of every step of a refresh that has begun (the HTTP client
  gives up after 45 seconds). Nothing is assumed of requested refreshes or of faults.
* `GameRecords`: weak fairness of the next scan, as with periodic discovery, and of the steps of one that has begun. Nothing is
  assumed of users. Without periodic discovery `StaleCleared` holds only as long as the user asks for scans.

## 4. Proofs

All theorems are of the form `Spec => []Inv` (or an action property, or the specification a component implements), proved
with TLAPS for all constants that satisfy the assumptions of their modules, which TLC evaluates in every run:

* `Store` and `Coordinator`: some game exists, `MaxSnap` and `Keep` are positive, `SwapStops` is a truth value, manifests
  are not empty sets of hashes, `None` is no worker.
* `Watcher`: the games are finite in number; the capacity of the queue and the times of each policy are numbers, as its `ASSUME`s say.
* `BlobRelocation`: every root leads somewhere, slots are numbers, `None` is no root, slot or artifact.
* `SnapshotRestore`: paths are finite in number (the list GamePaths returns), each leads to a file, and a file is no registry root.
* `StorageTarget`: manifests are sets of blobs, the bounds are numbers, `None` is no target or snapshot.
* `CatalogCache`: there is a loop, no custom manifests is one of the possibilities, the bounds are numbers.
* `GameRecords`: entries name places, the games of launchers, of the catalogue and of users are told apart, formats are
  not the words for no picture, the bounds are numbers.

Some theorems have one more hypothesis, which their statement names. The code guarantees none of these, and each marks
a place where it depends on something it does not enforce:

* `~SwapStops` (`SnapshotsRestorable`, `ReferencedFilesKept`, `KeepsArchive`, `HistoryFaithful`, `HistoryLasting`): no download stops between its two renames. Without it they are
  false: finding 1.
* `TemplatesApart` (`KeepsPromise`, `RestoredWhereCaptured`): paths with one template lead to one file. Without it a restore puts
  files in the wrong place: finding 2.

The properties that mention a history variable (`overlapped`, `spoiled`, `raced`, `touched`, `always`, `ever`) carry their exception with them.

| Theorem | Statement | Argument |
|---|---|---|
| `CoordinatorProofs!TypeCorrect` | `TypeOK` | inductive as it stands: `Job` ties the step to the operation and its locals |
| `RemoteCompleteCorrect` | `RemoteComplete` | `RemoteInv` adds what makes it inductive: an uploaded blob is in the bucket; a worker at `blobs` needs every blob of its snapshot that is not there; a worker at `publish` has nothing left to upload |
| `LocksHeldCorrect` | `LocksHeld` | at every step between a Lock and its Unlock the worker is the holder; hence two workers are never both in a guarded section |
| `LocksReleasedCorrect` | `LocksReleased` | the converse: the holder is at such a step. Every step that ends an operation, however it ends, gives back what the operation held (`ReturningStepsRelease`), the others take a lock or leave both alone (`TakingStepsRelease`, `QuietStepsRelease`) |
| `SnapshotsRestorableCorrect` | `SnapshotsRestorable` | `LocalInv`: with `LocksHeld`, while one worker creates a snapshot (it holds `backupMu`) nobody sweeps, so the blobs it has indexed stay; an orphan that is swept has no reference at that moment; a synced snapshot has its blobs in the bucket because `RemoteInv` holds |
| `ReferencedFilesKeptCorrect` | `ReferencedFilesKept` | an action property that needs no invariant: every step that removes a file has read the references in the transaction that does it, whatever list it works from |
| `RetentionKeepsRecentCorrect` | `RetentionKeepsRecent` | `RetentionInv`: every snapshot of a list in use is *still* superseded, that is, has at least `Keep` newer rows of its game |
| `ActivePresentCorrect` | `ActivePresent` | `ActiveInv`: the marks are those of the one operation that holds `syncMu` in its upload, and a trim in progress has passed them over |
| `KeepsArchiveCorrect` | `KeepsArchive` | refinement: `RemoteInv` and `LocalInv` make the mapped contents complete (`Complete`), `ActiveInv` and `CurrentListed` put what is uploaded into the history, `RetentionInv` and `CurrentListed` give each removal its reason; then every step is one action of the archive or a stutter (`UploadsArchive`, `EvictionsArchive`, `DeletionsArchive`, `AdditionsArchive`, `RequestsArchive`, `EnvironmentArchives`) |
| `HistoryFaithfulCorrect`, `HistoryLastingCorrect` | `Archive!Faithful`, `Archive!Lasting` | from `KeepsArchiveCorrect` alone: they hold of the archive (`ListedInductive`), whose steps are those of `Coordinator` seen through the mapping |
| `WatcherProofs!TypeCorrect` | `TypeOK` | inductive as it stands; the part that takes an argument is `ClockOK`, that no clock of a game passes the limits of its policy |
| `QuietRespectedCorrect` | `QuietRespected` | an action property; `DeadlineOK`: the due time of a pending game is at least what is missing of its quiet period, or is its age limit |
| `TargetsRecentCorrect` | `TargetsRecent` | `ListsRecent`: while a call is under way the library and every list it may hand over are recent, that is, between `always` and `ever`; when none is, the waiting list is recent, or, without one, the targets in force |
| `AutoSyncProofs!TypeCorrect` | `TypeOK` | inductive as it stands |
| `NoLostWakeupCorrect` | `NoLostWakeup` | from `TypeOK`, and inductive as it stands: a queuer that has added a game still has its token to leave |
| `RelocationProofs!TypeCorrect` | `TypeOK` | inductive as it stands: artifacts to clean up are journalled, items to prepare are indexed |
| `NeededOnDiskCorrect` | `NeededOnDisk` | `IInv`: until the switch the index is what the receipt recorded and every prepared needed blob has its file at the new root (`Prepared`, `InPreparation`); until the settings are saved the old files are there too (`Switched`) |
| `UndoneExactlyCorrect` | `UndoneExactly` | `AttemptInv`: the receipt gives back the index and the journal (`ReceiptKeeps`), the files that are new are the destinations of the attempt's artifacts (`DiskOK`), and the clean-up recognises exactly those (`AttemptOK`, `CurrentOK`) |
| `MovedCompletelyCorrect` | `MovedCompletely` | `JournalledOK`: every place that may hold an obsolete copy has a row for the new root, in the journal and then in the list of the clean-up, or its file is gone |
| `RestoreProofs!TypeCorrect` | `TypeOK` | inductive together with the rest of `RestoreInv` |
| `OldOnDiskCorrect`, `ReplacedWasCapturedCorrect`, `NothingLeftBehindCorrect` | the properties of these names | `RestoreInv`: what each phase may have renamed (`PhaseOK`, `CleanOK`), where the previous content of each file is (`SafeOK`), which roots may have changed (`RegistryOK`), and what was captured (`CapturedOK`) |
| `RestoreImplementsPromise` | `KeepsPromise` | refinement: `PromiseInv` says of each file and root what undoing would make of it (`UndoOK`, `PlacedOK`, `RegistryOK`, `ValuesOK`, `UnchangedOK`, `DoneOK`); each step but the decisive one leaves what the mapping shows, and the decisive one is the step of `RestorePromise` |
| `RestoredWhereCapturedCorrect` | `RestoredWhereCaptured` | from `PromiseInv` |
| `TargetProofs!TypeCorrect` | `TypeOK` | `Typed`: what an upload or a request is at determines its target and locals |
| `PublishedCompleteCorrect` | `PublishedComplete` | `IInv`: at a trusted target every recorded blob is there (`Recorded`), and every blob the upload under way has dealt with is there too (`Done`) |
| `PairVerifiedCorrect` | `PairVerified` | `PairInv`: while nothing is spoiled, a request under way is the only one (`AloneOK`, `AwareOK`), what it has written to the vault and remembers of it follows from its step (`SecretOK`), and the stores agree but between its two writes (`PairOK`) |
| `CatalogProofs!TypeCorrect` | `TypeOK` | `Typed` adds `Versioned`: a refresh that compiles has a version |
| `TagNotAheadCorrect` | `TagNotAhead` | `Released`: no file or refresh has a version above the server's; `Ordered`: unless refreshes overlapped, one is under way at most, and it has compiled its version and put the manifest in place before it writes the ETag |
| `CatalogKeptCorrect` | `CatalogKept` | an action property, from `Typed`: what replaces the rows of an index has a version, and an abandoned compilation of an index that is there replaces none |
| `GameProofs!TypeCorrect` | `TypeOK` | `TypesOK` adds what each step of a scan or a request relies on, above all that its game is known |
| `RelationsAgreeCorrect` | `RelationsAgree` | `Bare`: only games of a launcher have registry keys and an install path; `ScanOK`, `CallOK`: the places held for a registration or a remap are the entry's |
| `ArtworkExistsCorrect` | `ArtworkExists` | `PicturesOK`: a game not in `raced` has one request changing it at most (`Alone`), and what that one is about to record is there and what it is about to remove is not recorded (`Keeps`) |
| `ChoicesKeptCorrect` | `ChoicesKept` | an action property, from the same invariant: the rows of a game are keyed by place, so a row that stays is the row that was |

Why each strengthening is needed:

* `RemoteComplete` alone is not kept by `PutManifest`, whose guard speaks of the blobs still to
  upload and not of the bucket: `TransferInv`, a part of `RemoteInv`, relates the two. `RemoteInv` also says
  that no identifier of a row or a manifest is unused, so that an upload never meets an
  identifier whose blobs change.
* The theorem about `SnapshotsRestorable` assumes `~SwapStops`. Without it the statement is false: finding 1.
* `SnapshotsRestorable` alone is not kept by `CreateSaved`: `StoredInv` says that what the worker has
  stored is on disk and indexed, and `LocksHeld` that nobody else sweeps meanwhile. A crash in
  the middle of an orphan removal takes files that have no reference, and their rows are
  checked again before they are used.
* Retention works from a list that may have been read without `backupMu`. A listed
  snapshot stays superseded when rows are added (`SupersededGrows`) and, perhaps against
  intuition, when retention deletes a row that counted for it (`SupersededShrinks`): that row was superseded
  itself, and the rows newer than it count for the older one too. The one step that
  may delete a recent row is DeleteSnapshot on request, and it never runs beside a
  list in use: it holds `syncMu`, as the retention of a sync does, and deletes under `backupMu`, as the
  retention of a backup does. This is where `LocksHeld` enters.

* `NeededOnDisk` alone is kept neither by `Switch` nor by `Rollback`, which move the index to files that only
  the history of the operation vouches for. The clean-ups need no strengthening: each removes a file only after it has read
  in the same transaction that the index leads to another place. That is why a stop anywhere is harmless.

* `PublishedComplete` speaks of the step that publishes; what makes it true happened earlier: blobs that were skipped because
  `uploaded_to` named the target, and blobs that were put. `Recorded` and `Done` relate both to the bucket. The delicate step is
  reconnecting to a target that an upload is still writing to: the upload may record a blob it put before the bucket was emptied, so
  the target is not trusted again by that request.
* `TagNotAhead` alone is kept by the rename of the ETag only because the refresh has compiled that version and put the manifest in place before,
  and no other refresh has gone back in between.
* `RelationsAgree` alone is not kept by the search for saves, which replaces locations and leaves the registry keys: such a game has none, and the
  same goes for a game added by hand, whose remap links it only (`Bare`).
* `ArtworkExists` alone is kept by no step of an upload or a reset: each step relies on what the steps before it put in place or recorded.
  `Keeps` says this per step; that nobody undoes it meanwhile is `Alone`, and it is why `raced` is there.

* `ActivePresent` alone is kept neither by the retention of a backup nor by DeleteSnapshot: the one must have left out what is marked, the other
  must not run while something is. `ActiveInv` ties the marks to the list of the upload that holds `syncMu`, and every list that is being
  trimmed to what is not marked; `LocksHeld` does the rest, as lists are made and marks are set under `backupMu`.
* `LocksReleased` is inductive with the types alone; it is stated because a return path that forgets an Unlock would go unnoticed by `LocksHeld`,
  and by every other safety property: the daemon would just stop backing up.
* `KeepsArchive` needs all of these at once: a worker that puts a manifest knows only that it holds a list, `CurrentListed` that its snapshot is on
  that list, and `ActiveInv` that what is on the list is in the library.
* `QuietRespected` speaks of the one step in which the game is due; `DeadlineOK` carries the debt through the steps in between, where time passes, events
  move the due time and the queue is full.
* `TargetsRecent` speaks of moments at which nothing is under way; `ListsRecent` says what is true in between. A list that arrives last may be older
  than the one in force, but it was loaded after the first of the overlapping calls began, and that is all the property needs.
* `ReplacedWasCaptured` alone is kept by no step that replaces something: which path or root will be replaced is decided by reads made before.
  `CapturedOK` says for each phase what the snapshot already holds of what a later step may touch, and that only `touched` and `excluded` escape it.
* `PairVerified` likewise speaks of moments without a request; `SecretOK` and `PairOK` follow the two stores through the steps of one.
* `UndoneExactly` speaks of the last step of an undo. That the files are then what they were needs an account of every file the attempt
  created (`DiskOK`) and that `cleanupRelocationArtifact`, which sees only the row and the disk, takes exactly those: it decides by
  owner, commit mark, staging file and place. `CurrentOK` says the same of the artifact that is being prepared, at each of its steps.
* `MovedCompletely` speaks of the last step of a clean-up, which no longer sees what was on the list: `JournalledOK` relates the receipt to the list
  and the files. The switch establishes it from `ReceiptKeeps`, which is why the rows of earlier relocations must be retargeted.
* `OldOnDisk` alone is not kept by an undo of two paths that lead to one file: `Safe` says which backup counts, the one of the *first* entry with that
  destination, as the later ones hold files of the restore itself.
* The refinement needs to know, in every step of an undo, what it will have undone in the end (`UndoOK`, `RegistryOK`), because `RestorePromise` decides
  the outcome in one step.

The theorems about `Coordinator` build on one another in one module: types, the locks (held and released, with lemmas that say what each group of
steps leaves alone), the bucket, the local library, retention, marks, files, the archive. The other proof modules stand alone.

### Only model-checked

Liveness under fairness (`OperationsEnd`, `ChangeIsBackedUp`, `SnapshotIsTried`, `CatalogCurrent`, `StaleCleared`): TLAPS does not
prove properties under fairness here. The safety part of `OperationsEnd` is a theorem: with `LocksHeld` and `LocksReleased` every lock is held exactly
while it is needed, the holder of `backupMu` waits for no lock and that of `syncMu` for `backupMu` at most, so no circle of waiting operations can
form. That each step of an operation is taken in the end is what TLC adds. Everything else that a passing run checks is also proved. The two runs that expect a violation are
TLC's; the theorems with `~SwapStops` and `TemplatesApart` say that what they show is the only way the properties can fail in the models.

## 5. Findings

Two places where the code does something else than a document or an error text says, each with a run whose counterexample shows it.

1. **A download moves a valid file aside** (`remote/sync.go:143`, text at 146, `README.md:117`). `ensureLocalBlob`
   verifies the blob, downloads it without `backupMu`, and then takes whatever is at the destination for the invalid file. A
   Backup may have stored and indexed the blob there meanwhile. A stop, or a failed rename, before the download is
   in place leaves the Backup's unsynced snapshot without its blob; the bytes survive under an `.invalid-` name, and the
   next backup of the same content stores the file again.
2. **A restore mixes up the files of one pattern** (`snapshot/service.go:534`, `IDEA.MD:762`). A template with a wildcard resolves to several
   paths, and `sourceKey` hashes only source and template. `stageRestoreFiles` keeps one path per key, the last, so
   the files captured under all of them are put there. The pre-restore snapshot has the same keys and does not undo it.

### Observations

Differences from what a reader of the documents may expect, seen in the models; no run is kept for them.

* Coordinator. The retention after a sync lists its candidates without `backupMu` (`app/coordinator.go:1075`; the comment at 718 speaks of
  serialisation): a Backup beside it may delete one first, and the sync then reports `sql.ErrNoRows` although its uploads
  succeeded. Two imports that overlap, the one of the start and a requested one, both download and import a snapshot that is missing (`remote/reconcile.go:60`;
  `README.md:119` says "Already-known immutable snapshot IDs are not downloaded again"); the second import changes nothing, as `import_restore` shows. A Restore can, rarely,
  find a blob missing after its pre-restore snapshot, reports an error and works when it is tried again.
* Watcher. Of callers of ReconcileWatches that overlap the older list of targets may be handed over last (`app/coordinator.go:653`), so that a game disabled
  during the overlap stays watched until the next change (`README.md:95`: "it watches only enabled save locations"); `TargetsRecent` says how far this
  goes. A game that an error left out of a list is not watched until then either. A save directory that
  is removed and created again is not watched until something reconciles the watches, which nothing does periodically (`watcher/watcher.go:209`;
  `IDEA.MD:727`). A request that is cancelled between the change of a game and ReconcileWatches leaves the old targets in force (`LoadFails`). A tick may be
  taken before an event that the system has already delivered, so a backup can begin although the game has just written (`QuietRespected` counts
  from the last event the loop has handled).
* AutoSync. When the list of pending snapshots cannot be read at the start, they wait for the next automatic backup or sync of
  their game (`ListFails`).
* BlobRelocation. A blob row without a file, as a stopped orphan removal leaves it, makes every change of the local
  directory fail until the blob is stored again.
* SnapshotRestore. The pre-restore snapshot does not hold files that an exclusion matches, nor a location or key that is enabled between its capture and
  the staging (`snapshot/service.go:75` and 527); a restore replaces them all the same, and they cannot be undone (`IDEA.MD:762`). A stop during the activation leaves `.saveknot-old-*` files that nothing removes or puts back. When only the removal of the backups
  fails, Restore returns an error although everything was restored. `restorePreviousRegistry` writes every enabled root, also those the
  snapshot does not contain.
* StorageTarget. `remote_state` is not tied to a target: after a change of bucket, snapshots synced before are not uploaded again. A ConfigureR2
  whose last save fails leaves the new secret with the old settings (`settings/manager.go:243`). An upload under way while the user reconnects
  to an emptied bucket can record blobs there that are gone.
* CatalogCache. `EnsureIndex` accepts an index without games (`catalog/index.go:38`): after a lost index and a compilation that failed, it stays
  empty until the next version. Overlapping refreshes share the temporary names, and the ETag of one may stay with the files of another.
* GameRecords. A remap is undone by the next scan. A game imported from R2 before a scan finds it stays disabled. The saves of a game
  whose launcher has removed it are registered a second time as a game found by its saves. A location the user disabled is enabled again when its
  pattern for once resolves to nothing and then resolves again. Scans do not clear the locations of hidden games. Two concurrent updates of one
  game can lose one of them, and an upload of a picture between the steps of a reset can lose its file. When the search for saves fails, a scan ends
  before it reconciles the watches (`app/coordinator.go:357`).

## 6. What is not modelled

Parsing and formatting (discovery rules, catalogue documents, registry values, HTTP routing and validation), hashing and
compression (a blob is its hash; a file is valid or absent), logging, the web interface, desktop integration. A
blob file that is damaged behind the daemon's back is outside the model: `storeFile` trusts a file that exists
under its hash without reading it again. Blob objects are never deleted from R2 by the code, so apart from `EmptyTarget` the bucket only
grows. `RelocateBlobs`, the fallback for repositories that are not
`Store`, cannot be reached in the daemon. A game that writes its saves while they are restored is left out of `SnapshotRestore`, and so is an
import, which holds no lock, between the two reads of the latest snapshot for an unchanged pre-restore snapshot (`snapshot/service.go:516`). `Watcher` has
one location per game: switches of single locations after ListGames was read are not told apart from those of games. ConfigureLocal, which
takes both mutexes, is in `BlobRelocation` and not among the operations of `operations_end`. A PATCH of a game's picture names one
that is there: a client may name any other and gets what it asked for. Of the settings,
autostart, retention, automation and the health of R2 are single saves and not modelled, as are exclusions, notes and registry keys added by hand.
The event bus is not modelled yet; the plan follows.

## 7. What could follow

| Step | Module | Models | Properties |
|---|---|---|---|
| 1 | `EventBus` | PublishContext, Subscribe, Prune, shutdown | delivered events are in the history |
| 2 | composition of `Watcher` and `AutoSync` | a change reaches R2 | end-to-end liveness |
| 3 | composition of `GameRecords` and `Watcher` | registered games are watched | what an early end of a scan leaves unwatched |

Theorems they would allow: an invariant for `EventBus`, and for the second composition that a game registered by a complete scan is watched.
