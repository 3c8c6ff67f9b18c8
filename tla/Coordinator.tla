---------------------------- MODULE Coordinator ----------------------------
(***************************************************************************)
(* The coordinator of SaveKnot (internal/app/coordinator.go) with the      *)
(* services it drives: snapshot creation (internal/snapshot/service.go),   *)
(* uploads and downloads (internal/remote/sync.go) and the import of       *)
(* remote history (internal/remote/reconcile.go), over the local Store and *)
(* one connected R2 bucket that other devices also write to.               *)
(*                                                                         *)
(* The workers are the goroutines that call the coordinator: the watcher   *)
(* worker, the automatic-sync worker, the periodic loop and the HTTP       *)
(* handlers.  Role[w] is the set of operations worker w may start.         *)
(* Operations that touch R2 hold syncMu; operations that change local      *)
(* snapshots hold backupMu for shorter sections, always taken after        *)
(* syncMu; ReconcileRemote holds neither.                                  *)
(***************************************************************************)
EXTENDS Store

CONSTANTS
  Workers,    \* goroutines that run coordinator operations
  Role,       \* Role[w]: the operations worker w starts
  Contents,   \* the sets of blobs the save files of a game may hash to
  Keep,       \* RetentionKeep
  SwapStops,  \* whether a download may stop between its two renames
  None        \* no worker holds the lock; no game chosen

Operations ==
  {"backup", "syncGame", "syncPending", "delete", "restore", "reconcile"}

ASSUME KeepAssumption == Keep \in Nat \ {0}
ASSUME RoleAssumption == Role \in [Workers -> SUBSET Operations]
ASSUME ContentsAssumption == Contents \subseteq (SUBSET Hashes) \ {{}}
ASSUME SwapStopsAssumption == SwapStops \in BOOLEAN
ASSUME NoneAssumption == None \notin Workers \cup Games

VARIABLES
  bucket,     \* hashes of the blob objects in R2
  manifests,  \* identifiers of the snapshot manifests in R2
  syncMu,     \* holder of Coordinator.syncMu
  backupMu,   \* holder of Coordinator.backupMu
  active,     \* Coordinator.activeSyncSnapshots
  job         \* job[w]: the operation of worker w, its step and its locals

bucketVars == <<bucket, manifests>>
lockVars == <<syncMu, backupMu, active>>
vars == <<storeVars, bucketVars, lockVars, job>>

Steps ==
  {"idle",
   "store", "relock", "trim", "sweep",             \* Backup and its retention
   "mark", "pick", "blobs", "publish",             \* uploads
   "list", "evict", "unlist",                      \* applyRetention, deletion
   "fetch", "swap", "stage",                       \* Restore
   "examine", "download", "import"}                \* Reconcile

\* Those an operation goes through.
StepsOf(op) ==
  CASE op = "none" -> {"idle"}
    [] op = "backup" -> {"store", "relock", "trim", "sweep"}
    [] op \in {"syncGame", "syncPending"} ->
         {"mark", "pick", "blobs", "publish", "list", "evict", "unlist", "sweep"}
    [] op = "delete" -> {"evict", "unlist", "sweep"}
    [] op = "restore" -> {"fetch", "swap", "store", "stage"}
    [] op = "reconcile" -> {"examine", "download", "import"}

JobRecord ==
  [pc : Steps,
   op : Operations \cup {"none"},
   game : Games \cup {None},
   cur : Ids \cup {0},        \* the snapshot the step works on
   todo : SUBSET Ids,         \* the list a loop iterates over
   remote : SUBSET Ids,       \* those of todo read with state "synced"
   retain : SUBSET Games,     \* games whose retention is still to run
   content : SUBSET Hashes,   \* the manifest being created; the blob downloaded
   need : SUBSET Hashes,      \* blobs still to store, upload or download
   orphans : SUBSET Hashes]   \* blobs DeleteSnapshot will try to remove

Job ==
  {j \in JobRecord :
     /\ j.pc \in StepsOf(j.op)
     /\ j.op \in {"backup", "syncGame", "restore"} => j.game \in Games
     /\ j.pc \in {"blobs", "publish", "unlist", "download", "import"} => j.cur \in Ids}

Idle == [pc |-> "idle", op |-> "none", game |-> None, cur |-> 0,
         todo |-> {}, remote |-> {}, retain |-> {},
         content |-> {}, need |-> {}, orphans |-> {}]

TypeOK ==
  /\ StoreTypeOK
  /\ bucket \subseteq Hashes
  /\ manifests \subseteq Ids
  /\ syncMu \in Workers \cup {None}
  /\ backupMu \in Workers \cup {None}
  /\ active \subseteq Ids
  /\ job \in [Workers -> Job]

Init ==
  /\ StoreInit
  /\ bucket = {}
  /\ manifests = {}
  /\ syncMu = None
  /\ backupMu = None
  /\ active = {}
  /\ job = [w \in Workers |-> Idle]

At(w, step) == job[w].pc = step

Advance(w, next) == job' = [job EXCEPT ![w] = next]

\* Worker w returns from its operation.
Return(w) == Advance(w, Idle)

Goto(w, step) == Advance(w, [job[w] EXCEPT !.pc = step])

-----------------------------------------------------------------------------
(***************************************************************************)
(* Backup, and the snapshot that Restore takes before it writes.           *)
(***************************************************************************)
\* Create reads the save files: they hash to one of Contents, or no readable
\* file is found.
StartCreate(w, start) ==
  \E content \in Contents \cup {{}} :
    Advance(w, [start EXCEPT !.pc = "store", !.content = content, !.need = content])

\* Faulty variant, a mutant: files are stored before the lock is taken.
BackupUnlocked(w, g) ==
  /\ At(w, "idle") /\ "backup" \in Role[w]
  /\ Unused # {}
  /\ StartCreate(w, [Idle EXCEPT !.op = "backup", !.game = g])
  /\ UNCHANGED <<storeVars, bucketVars, lockVars>>

Backup(w, g) ==
  /\ At(w, "idle") /\ "backup" \in Role[w]
  /\ Unused # {}
  /\ backupMu = None
  /\ backupMu' = w
  /\ StartCreate(w, [Idle EXCEPT !.op = "backup", !.game = g])
  /\ UNCHANGED <<storeVars, bucketVars, syncMu, active>>

\* storeFile renames the staged blob into place, unless the file exists.
StoreFile(w, h) ==
  /\ At(w, "store") /\ h \in job[w].need
  /\ h \notin disk
  /\ disk' = disk \cup {h}
  /\ UNCHANGED <<tableVars, blobs, uploaded, bucketVars, lockVars, job>>

IndexFile(w, h) ==
  /\ At(w, "store") /\ h \in job[w].need
  /\ h \in disk
  /\ SaveBlob(h) /\ UNCHANGED disk
  /\ Advance(w, [job[w] EXCEPT !.need = @ \ {h}])
  /\ UNCHANGED <<bucketVars, lockVars>>

\* Nothing was found (ErrNoFiles), or nothing changed since the latest
\* snapshot of the game (ErrUnchanged).
SkipCreate(g, content) ==
  \/ content = {}
  \/ \E s \in LatestSnapshot(g) : files[s] = content

\* Faulty variant, a mutant: a return path without the unlock.
CreateSkippedKeepsLock(w) ==
  /\ At(w, "store") /\ job[w].need = {}
  /\ SkipCreate(job[w].game, job[w].content)
  /\ IF job[w].op = "backup" THEN Return(w) ELSE Goto(w, "stage")
  /\ UNCHANGED <<storeVars, bucketVars, lockVars>>

\* Create returns without a snapshot: Backup unlocks, Restore goes on.
CreateSkipped(w) ==
  /\ At(w, "store") /\ job[w].need = {}
  /\ SkipCreate(job[w].game, job[w].content)
  /\ IF job[w].op = "backup"
       THEN Return(w) /\ backupMu' = None
       ELSE Goto(w, "stage") /\ UNCHANGED backupMu
  /\ UNCHANGED <<storeVars, bucketVars, syncMu, active>>

CreateSaved(w) ==
  /\ At(w, "store") /\ job[w].need = {}
  /\ ~SkipCreate(job[w].game, job[w].content)
  /\ \E s \in Oldest(Unused) : SaveSnapshot(s, job[w].game, job[w].content)
  /\ IF job[w].op = "backup"
       THEN Goto(w, "relock") /\ backupMu' = None
       ELSE Goto(w, "stage") /\ UNCHANGED backupMu
  /\ UNCHANGED <<bucketVars, syncMu, active>>

\* The game is missing or hidden, a file cannot be read or stored, the
\* request is cancelled: blobs stored so far stay behind.
CreateFails(w) ==
  /\ At(w, "store")
  /\ Return(w)
  /\ backupMu' = None
  /\ syncMu' = IF job[w].op = "restore" THEN None ELSE syncMu
  /\ UNCHANGED <<storeVars, bucketVars, active>>

\* Faulty variant, a mutant: snapshots being uploaded are not passed over.
LocalRetentionIgnoresActive(w) ==
  /\ At(w, "relock")
  /\ backupMu = None
  /\ backupMu' = w
  /\ Advance(w, [job[w] EXCEPT
       !.pc = "trim",
       !.todo = SnapshotsBeyond(job[w].game, Keep) \ synced])
  /\ UNCHANGED <<storeVars, bucketVars, syncMu, active>>

\* applyLocalRetention: the lock is taken again, the list is read, and the
\* two "continue" conditions of the loop are applied to it.  Neither active
\* nor the state read with the list changes while backupMu is held.
LocalRetention(w) ==
  /\ At(w, "relock")
  /\ backupMu = None
  /\ backupMu' = w
  /\ Advance(w, [job[w] EXCEPT
       !.pc = "trim",
       !.todo = SnapshotsBeyond(job[w].game, Keep) \ (active \cup synced)])
  /\ UNCHANGED <<storeVars, bucketVars, syncMu, active>>

\* Worker w deletes the row of s and learns which blobs have no reference.
DeleteSnapshotRow(w, s) ==
  /\ DeleteRow(s)
  /\ Advance(w, [job[w] EXCEPT !.pc = "sweep",
                                   !.todo = @ \ {s},
                                   !.orphans = OrphansWithout(s)])

Trim(w) ==
  /\ At(w, "trim")
  /\ \E s \in Newest(job[w].todo) : DeleteSnapshotRow(w, s)
  /\ UNCHANGED <<bucketVars, lockVars>>

\* The list is exhausted, or a query fails.
TrimDone(w) ==
  /\ At(w, "trim")
  /\ Return(w)
  /\ backupMu' = None
  /\ UNCHANGED <<storeVars, bucketVars, syncMu, active>>

-----------------------------------------------------------------------------
(***************************************************************************)
(* The second half of Store.DeleteSnapshot, under the caller's backupMu.   *)
(***************************************************************************)
Sweep(w, h) ==
  /\ At(w, "sweep") /\ h \in job[w].orphans
  /\ RemoveOrphanBlob(h)
  /\ Advance(w, [job[w] EXCEPT !.orphans = @ \ {h}])
  /\ UNCHANGED <<bucketVars, lockVars>>

\* The file cannot be removed or the transaction fails: the row stays for a
\* retry, the other orphans are still tried, and the error stops the loop
\* that called DeleteSnapshot.
SweepFails(w, h) ==
  /\ At(w, "sweep") /\ h \in job[w].orphans
  /\ Advance(w, [job[w] EXCEPT !.orphans = @ \ {h}, !.todo = {}])
  /\ UNCHANGED <<storeVars, bucketVars, lockVars>>

SweepDone(w) ==
  /\ At(w, "sweep") /\ job[w].orphans = {}
  /\ IF job[w].op = "backup"
       THEN Goto(w, "trim") /\ UNCHANGED backupMu
       ELSE Goto(w, "evict") /\ backupMu' = None
  /\ UNCHANGED <<storeVars, bucketVars, syncMu, active>>

-----------------------------------------------------------------------------
(***************************************************************************)
(* SyncGame, automaticSyncGame and syncPending: mark the pending snapshots *)
(* active, upload them, unmark them, then apply retention.                 *)
(***************************************************************************)
TakeSyncMu(w, op) ==
  /\ At(w, "idle") /\ op \in Role[w]
  /\ syncMu = None
  /\ syncMu' = w

SyncGame(w, g) ==
  /\ TakeSyncMu(w, "syncGame")
  /\ Advance(w, [Idle EXCEPT !.pc = "mark", !.op = "syncGame", !.game = g])
  /\ UNCHANGED <<storeVars, bucketVars, backupMu, active>>

SyncPending(w) ==
  /\ TakeSyncMu(w, "syncPending")
  /\ Advance(w, [Idle EXCEPT !.pc = "mark", !.op = "syncPending"])
  /\ UNCHANGED <<storeVars, bucketVars, backupMu, active>>

\* The game is missing, hidden or not synced; R2 is not connected; the query
\* fails.
SyncRefused(w) ==
  /\ At(w, "mark")
  /\ Return(w)
  /\ syncMu' = None
  /\ UNCHANGED <<storeVars, bucketVars, backupMu, active>>

\* One section under backupMu: load the pending snapshots and mark them.
\* syncPending loads those of the watched games, whatever they are.
MarkActive(w) ==
  /\ At(w, "mark")
  /\ backupMu = None
  /\ \E games \in IF job[w].op = "syncGame" THEN {{job[w].game}} ELSE SUBSET Games :
       /\ active' = active \cup PendingSnapshots(games)
       /\ Advance(w, [job[w] EXCEPT
            !.pc = "pick",
            !.todo = PendingSnapshots(games),
            !.retain = IF job[w].op = "syncGame" THEN {job[w].game} ELSE {}])
  /\ UNCHANGED <<storeVars, bucketVars, syncMu, backupMu>>

\* The snapshots of the list not tried yet; it is in the order of created_at.
Remaining(w) == {s \in job[w].todo : s > job[w].cur}

PickUpload(w) ==
  /\ At(w, "pick")
  /\ \E s \in Oldest(Remaining(w)) :
       Advance(w, [job[w] EXCEPT !.pc = "blobs", !.cur = s, !.need = files[s]])
  /\ UNCHANGED <<storeVars, bucketVars, lockVars>>

\* ensureBlob: nothing to do when the index says the bucket has the blob,
\* else Put and MarkBlobUploaded.  The step between them shows only when it
\* is the last one, see UploadFails.
EnsureBlob(w, h) ==
  /\ At(w, "blobs") /\ h \in job[w].need
  /\ Readable(h) \/ h \in uploaded
  /\ bucket' = IF h \in uploaded THEN bucket ELSE bucket \cup {h}
  /\ uploaded' = uploaded \cup {h}
  /\ Advance(w, [job[w] EXCEPT !.need = @ \ {h}])
  /\ UNCHANGED <<tableVars, blobs, disk, manifests, lockVars>>

\* Faulty variant, a mutant: the manifest does not wait for the blobs.
PutManifestEarly(w) ==
  /\ At(w, "blobs")
  /\ manifests' = manifests \cup {job[w].cur}
  /\ Goto(w, "publish")
  /\ UNCHANGED <<storeVars, bucket, lockVars>>

PutManifest(w) ==
  /\ At(w, "blobs") /\ job[w].need = {}
  /\ manifests' = manifests \cup {job[w].cur}
  /\ Goto(w, "publish")
  /\ UNCHANGED <<storeVars, bucket, lockVars>>

MarkSynced(w) ==
  /\ At(w, "publish")
  /\ MarkSnapshotRemote(job[w].cur)
  /\ Advance(w, [job[w] EXCEPT
       !.pc = "pick",
       !.retain = IF job[w].op = "syncPending" THEN @ \cup {gameOf[job[w].cur]} ELSE @])
  /\ UNCHANGED <<bucketVars, lockVars>>

\* Upload returns an error.  A Put may have reached R2 although its caller
\* saw an error.  uploadAll stops at the first error and its callers skip
\* retention; syncSnapshotBatch goes on with the next snapshot.
UploadFails(w) ==
  /\ At(w, "blobs") \/ At(w, "publish")
  /\ \/ UNCHANGED bucketVars
     \/ /\ \E h \in job[w].need \ uploaded : Readable(h) /\ bucket' = bucket \cup {h}
        /\ UNCHANGED manifests
     \/ /\ job[w].need = {}
        /\ manifests' = manifests \cup {job[w].cur}
        /\ UNCHANGED bucket
  /\ Advance(w, [job[w] EXCEPT
       !.pc = "pick", !.need = {},
       !.cur = IF job[w].op = "syncGame" THEN MaxSnap ELSE @,
       !.retain = IF job[w].op = "syncGame" THEN {} ELSE @])
  /\ UNCHANGED <<storeVars, lockVars>>

Unmark(w) ==
  /\ At(w, "pick") /\ Remaining(w) = {}
  /\ backupMu = None
  /\ active' = active \ job[w].todo
  /\ Advance(w, [job[w] EXCEPT !.pc = "list", !.todo = {}, !.cur = 0])
  /\ UNCHANGED <<storeVars, bucketVars, syncMu, backupMu>>

-----------------------------------------------------------------------------
(***************************************************************************)
(* applyRetention after a sync, and DeleteSnapshot: remove the manifest    *)
(* from R2 if the snapshot was synced when it was read, then the row.      *)
(***************************************************************************)
\* The list is read without backupMu.  Without an R2 connection the loop
\* passes over the synced snapshots; with an error it does not start.
ListExcess(w, g) ==
  /\ At(w, "list") /\ g \in job[w].retain
  /\ \E excess \in {SnapshotsBeyond(g, Keep), SnapshotsBeyond(g, Keep) \ synced, {}} :
       Advance(w, [job[w] EXCEPT !.pc = "evict",
                                     !.todo = excess,
                                     !.remote = excess \cap synced,
                                     !.retain = @ \ {g}])
  /\ UNCHANGED <<storeVars, bucketVars, lockVars>>

SyncDone(w) ==
  /\ At(w, "list") /\ job[w].retain = {}
  /\ Return(w)
  /\ syncMu' = None
  /\ UNCHANGED <<storeVars, bucketVars, backupMu, active>>

DeleteSnapshot(w, s, remoteToo) ==
  /\ TakeSyncMu(w, "delete")
  /\ s \in rows
  /\ Advance(w, [Idle EXCEPT
       !.pc = "evict", !.op = "delete", !.todo = {s},
       !.remote = IF remoteToo THEN {s} \cap synced ELSE {}])
  /\ UNCHANGED <<storeVars, bucketVars, backupMu, active>>

Evict(w) ==
  /\ At(w, "evict")
  /\ \E s \in Newest(job[w].todo) :
       /\ manifests' = manifests \ (job[w].remote \cap {s})
       /\ Advance(w, [job[w] EXCEPT !.pc = "unlist", !.cur = s])
  /\ UNCHANGED <<storeVars, bucket, lockVars>>

\* R2 answers the Delete with an error, after it took effect or before.
EvictFails(w) ==
  /\ At(w, "evict")
  /\ \E s \in Newest(job[w].todo) \cap job[w].remote :
       manifests' \in {manifests, manifests \ {s}}
  /\ Advance(w, [job[w] EXCEPT !.todo = {}])
  /\ UNCHANGED <<storeVars, bucket, lockVars>>

EvictDone(w) ==
  /\ At(w, "evict") /\ job[w].todo = {}
  /\ IF job[w].op = "delete"
       THEN Return(w) /\ syncMu' = None
       ELSE /\ Advance(w, [job[w] EXCEPT !.pc = "list", !.cur = 0, !.remote = {}])
            /\ UNCHANGED syncMu
  /\ UNCHANGED <<storeVars, bucketVars, backupMu, active>>

Unlist(w) ==
  /\ At(w, "unlist")
  /\ backupMu = None
  /\ backupMu' = w
  /\ DeleteSnapshotRow(w, job[w].cur)
  /\ UNCHANGED <<bucketVars, syncMu, active>>

\* The row is gone (sql.ErrNoRows) or the transaction fails: the caller's
\* loop ends with the error.
UnlistFails(w) ==
  /\ At(w, "unlist")
  /\ backupMu = None
  /\ Advance(w, [job[w] EXCEPT !.pc = "evict", !.todo = {}])
  /\ UNCHANGED <<storeVars, bucketVars, lockVars>>

-----------------------------------------------------------------------------
(***************************************************************************)
(* Restore: NeedsDownload and EnsureLocal with syncMu only, take           *)
(* backupMu, take a snapshot of the current saves and replace them.        *)
(***************************************************************************)
Restore(w, s) ==
  /\ TakeSyncMu(w, "restore")
  /\ s \in rows
  /\ Advance(w, [Idle EXCEPT
       !.pc = "fetch", !.op = "restore", !.game = gameOf[s], !.cur = s,
       !.need = IF \A h \in files[s] : Readable(h) THEN {} ELSE files[s]])
  /\ UNCHANGED <<storeVars, bucketVars, backupMu, active>>

\* ensureLocalBlob: a blob whose file verifies is left alone.
VerifyBlob(w, h) ==
  /\ At(w, "fetch") /\ h \in job[w].need
  /\ Readable(h)
  /\ Advance(w, [job[w] EXCEPT !.need = @ \ {h}])
  /\ UNCHANGED <<storeVars, bucketVars, lockVars>>

\* Another is downloaded and verified beside its destination, which takes a
\* while and no lock that a Backup needs.
FetchBlob(w, h) ==
  /\ At(w, "fetch") /\ h \in job[w].need
  /\ ~Readable(h) /\ h \in bucket
  /\ Advance(w, [job[w] EXCEPT !.pc = "swap", !.content = {h}])
  /\ UNCHANGED <<storeVars, bucketVars, lockVars>>

\* Then a file at the destination is moved aside, as invalid, the download is
\* put in its place, and indexed.
SwapBlob(w, h) ==
  /\ At(w, "swap") /\ h \in job[w].content
  /\ disk' = disk \cup {h}
  /\ SaveBlob(h)
  /\ Advance(w, [job[w] EXCEPT !.pc = "fetch", !.need = @ \ {h}, !.content = {}])
  /\ UNCHANGED <<bucketVars, lockVars>>

\* R2 is unreachable or has no such blob, or the request is cancelled.  A
\* download in place may not be indexed; one that stops between the two
\* renames leaves no file.
RestoreFails(w) ==
  /\ \/ At(w, "fetch") /\ disk' = disk
     \/ At(w, "swap") /\ disk' \in {disk, disk \cup job[w].content}
     \/ At(w, "swap") /\ SwapStops /\ disk' = disk \ job[w].content
  /\ Return(w)
  /\ syncMu' = None
  /\ UNCHANGED <<tableVars, blobs, uploaded, bucketVars, backupMu, active>>

\* Faulty variant, a mutant: the pre-restore snapshot is taken with syncMu only.
RestoreBeginUnlocked(w) ==
  /\ At(w, "fetch") /\ job[w].need = {}
  /\ job[w].cur \in rows
  /\ StartCreate(w, job[w])
  /\ UNCHANGED <<storeVars, bucketVars, lockVars>>

\* Service.Restore reads the snapshot again before it starts.
RestoreBegin(w) ==
  /\ At(w, "fetch") /\ job[w].need = {}
  /\ backupMu = None
  /\ IF job[w].cur \in rows
       THEN StartCreate(w, job[w]) /\ backupMu' = w /\ UNCHANGED syncMu
       ELSE Return(w) /\ syncMu' = None /\ UNCHANGED backupMu
  /\ UNCHANGED <<storeVars, bucketVars, active>>

\* The staged files replace the saves, or the restore fails before that.
RestoreEnds(w) ==
  /\ At(w, "stage")
  /\ Return(w)
  /\ syncMu' = None
  /\ backupMu' = None
  /\ UNCHANGED <<storeVars, bucketVars, active>>

-----------------------------------------------------------------------------
(***************************************************************************)
(* ReconcileRemote: list the manifests, import those that have no row.     *)
(* It takes no lock.                                                       *)
(***************************************************************************)
ReconcileRemote(w) ==
  /\ At(w, "idle") /\ "reconcile" \in Role[w]
  /\ Advance(w, [Idle EXCEPT !.pc = "examine", !.op = "reconcile", !.todo = manifests])
  /\ UNCHANGED <<storeVars, bucketVars, lockVars>>

\* HasSnapshot: known identifiers are not downloaded again, unless two imports
\* overlap: both may find one unknown.
Examine(w, s) ==
  /\ At(w, "examine") /\ s \in job[w].todo
  /\ Advance(w, IF s \in rows
                  THEN [job[w] EXCEPT !.todo = @ \ {s}]
                  ELSE [job[w] EXCEPT !.todo = @ \ {s}, !.cur = s, !.pc = "download"])
  /\ UNCHANGED <<storeVars, bucketVars, lockVars>>

DownloadManifest(w) ==
  /\ At(w, "download")
  /\ job[w].cur \in manifests
  /\ Goto(w, "import")
  /\ UNCHANGED <<storeVars, bucketVars, lockVars>>

Import(w) ==
  /\ At(w, "import")
  /\ ImportSnapshot(job[w].cur)
  /\ Advance(w, [job[w] EXCEPT !.pc = "examine", !.cur = 0])
  /\ UNCHANGED <<bucketVars, lockVars>>

\* The list is exhausted, or an error ends the import: R2 fails, or a listed
\* manifest is gone.
ReconcileEnds(w) ==
  /\ job[w].op = "reconcile"
  /\ Return(w)
  /\ UNCHANGED <<storeVars, bucketVars, lockVars>>

-----------------------------------------------------------------------------
(***************************************************************************)
(* The environment: another device of the same user, and a crash.          *)
(***************************************************************************)
\* Another device uploads a snapshot: its blobs, then its manifest.  Clocks
\* may disagree: its identifier is any that nobody used.
OtherDevicePublishes(s, g, content) ==
  /\ s \in Unused
  /\ Allocate(s, g, content)
  /\ bucket' = bucket \cup content
  /\ manifests' = manifests \cup {s}
  /\ UNCHANGED <<rows, synced, blobVars, lockVars, job>>

\* Another device deletes a snapshot it knows, or its retention does.
OtherDeviceDeletes(s) ==
  /\ s \in manifests
  /\ manifests' = manifests \ {s}
  /\ UNCHANGED <<storeVars, bucket, lockVars, job>>

\* The orphans a worker may be removing.
Sweepable == (UNION {job[w].orphans : w \in Workers}) \ Referenced

\* The process stops and starts again.  Locks, marks and operations are in
\* memory.  A transaction that was removing an orphan may have removed its
\* file without the commit that deletes its row.
Crash ==
  /\ job' = [w \in Workers |-> Idle]
  /\ syncMu' = None
  /\ backupMu' = None
  /\ active' = {}
  /\ disk' \in {disk} \cup {disk \ {h} : h \in Sweepable}
  /\ UNCHANGED <<tableVars, blobs, uploaded, bucketVars>>

-----------------------------------------------------------------------------
\* The steps of a started operation that take backupMu.
Acquire(w) ==
  \/ LocalRetention(w) \/ MarkActive(w) \/ Unmark(w)
  \/ Unlist(w) \/ UnlistFails(w) \/ RestoreBegin(w)

Begin(w) ==
  \/ \E g \in Games : Backup(w, g) \/ SyncGame(w, g)
  \/ SyncPending(w)
  \/ \E s \in Ids : Restore(w, s) \/ \E remoteToo \in BOOLEAN : DeleteSnapshot(w, s, remoteToo)
  \/ ReconcileRemote(w)

Continue(w) ==
  \/ \E h \in Hashes : \/ StoreFile(w, h) \/ IndexFile(w, h) \/ Sweep(w, h)
                       \/ SweepFails(w, h) \/ EnsureBlob(w, h)
                       \/ VerifyBlob(w, h) \/ FetchBlob(w, h) \/ SwapBlob(w, h)
  \/ CreateSkipped(w) \/ CreateSaved(w) \/ CreateFails(w)
  \/ Trim(w) \/ TrimDone(w) \/ SweepDone(w)
  \/ SyncRefused(w) \/ PickUpload(w) \/ PutManifest(w) \/ MarkSynced(w) \/ UploadFails(w)
  \/ \E g \in Games : ListExcess(w, g)
  \/ SyncDone(w) \/ Evict(w) \/ EvictFails(w) \/ EvictDone(w)
  \/ RestoreFails(w) \/ RestoreEnds(w)
  \/ \E s \in Ids : Examine(w, s)
  \/ DownloadManifest(w) \/ Import(w) \/ ReconcileEnds(w)

Environment ==
  \/ \E s \in Ids, g \in Games, content \in Contents : OtherDevicePublishes(s, g, content)
  \/ \E s \in Ids : OtherDeviceDeletes(s)
  \/ Crash

Next ==
  \/ \E w \in Workers : Begin(w) \/ Continue(w) \/ Acquire(w)
  \/ Environment

Spec == Init /\ [][Next]_vars

\* A started operation is never left alone.  A goroutine blocked on backupMu
\* gets it in the end: sync.Mutex hands it to the first waiter once that has
\* waited a millisecond (starvation mode).
Fairness ==
  \A w \in Workers : WF_vars(Continue(w)) /\ SF_vars(Acquire(w))

FairSpec == Spec /\ Fairness

-----------------------------------------------------------------------------
(***************************************************************************)
(* Properties.                                                             *)
(***************************************************************************)
\* A snapshot is visible in R2 only after all of its blobs are there: Upload
\* puts the manifest last, and trusts the index of uploaded blobs.
RemoteComplete == \A s \in manifests : files[s] \subseteq bucket

\* No snapshot of the library has lost data: one that was never synced has
\* every blob indexed and on disk, whatever deletions, retention, crashes
\* and failures went on beside it; one that is synced has every blob in R2.
SnapshotsRestorable ==
  \A s \in rows : IF s \in synced THEN files[s] \subseteq bucket
                                 ELSE \A h \in files[s] : Readable(h)

\* A snapshot that a sync has marked keeps its row until it is unmarked: the
\* retention of a concurrent Backup passes over it.
ActivePresent == active \subseteq rows

\* No step removes the file of a blob that a snapshot refers to, although
\* ReconcileRemote adds references without a lock while orphans are swept.
ReferencedFilesKept == [][\A h \in disk \ disk' : h \notin Referenced]_vars

\* What retention deletes has at least Keep newer snapshots of its game at
\* the moment it goes, although applyRetention listed it earlier and without
\* backupMu.  Only DeleteSnapshot, on request, may delete others.
DeleteRequested(s) ==
  \E w \in Workers : At(w, "unlist") /\ job[w].op = "delete" /\ job[w].cur = s

RetentionKeepsRecent ==
  [][\A s \in rows \ rows' :
       \/ DeleteRequested(s)
       \/ Cardinality({t \in RowsOf(gameOf[s]) : t > s}) >= Keep]_vars

\* What SnapshotArchive sees: a restore may fetch what was synced from R2, the
\* rest has to be on the disk; another device has R2 only; and DeleteSnapshot
\* was called for what it has not removed yet.
History ==
  [s \in rows |-> {h \in files[s] : IF s \in synced THEN h \in bucket ELSE Readable(h)}]

Shared == [s \in manifests |-> files[s] \cap bucket]

Requested == {s \in Ids : \E w \in Workers : job[w].op = "delete" /\ s \in job[w].todo}

Archive == INSTANCE SnapshotArchive WITH
  Blobs <- Hashes, taken <- files, game <- gameOf,
  history <- History, shared <- Shared, requested <- Requested

\* The history of snapshots is what SnapshotArchive says, whatever operations,
\* failures, crashes and other devices do to the files and tables behind it.
KeepsArchive == Archive!Spec

\* Every started operation ends: no order of the two locks leaves a worker
\* waiting for ever, and no return path keeps a lock.
OperationsEnd == \A w \in Workers : ~At(w, "idle") ~> At(w, "idle")
=============================================================================
