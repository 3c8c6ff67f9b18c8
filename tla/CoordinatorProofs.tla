------------------------- MODULE CoordinatorProofs -------------------------
(***************************************************************************)
(* Theorems about Coordinator, for every value of its constants.           *)
(***************************************************************************)
EXTENDS Coordinator, FiniteSetTheorems, TLAPS

-----------------------------------------------------------------------------
(***************************************************************************)
(* Types.                                                                  *)
(***************************************************************************)
LEMMA IdleIsJob == Idle \in Job
  BY DEF Idle, Job, JobRecord, Steps, StepsOf, Operations

LEMMA InitTypeOK == Init => TypeOK
  BY GamesAssumption, IdleIsJob DEF Init, StoreInit, TypeOK, StoreTypeOK

\* What a step of w writes: its own job.
LEMMA AdvanceJob ==
  ASSUME TypeOK, NEW w \in Workers, NEW next, Advance(w, next)
  PROVE  /\ job'[w] = next
         /\ \A v \in Workers \ {w} : job'[v] = job[v]
  BY DEF TypeOK, Advance

\* What an operation leaves in the job of its worker.
LEMMA AdvanceTyped ==
  ASSUME TypeOK, NEW w \in Workers, NEW next \in Job, Advance(w, next)
  PROVE  job' \in [Workers -> Job]
  BY DEF TypeOK, Advance

LEMMA ReturnTyped ==
  ASSUME TypeOK, NEW w \in Workers, Return(w)
  PROVE  job' \in [Workers -> Job]
  BY IdleIsJob, AdvanceTyped DEF Return

LEMMA GotoTyped ==
  ASSUME TypeOK, NEW w \in Workers, NEW step \in Steps,
         step \in StepsOf(job[w].op), Goto(w, step),
         step \in {"blobs", "publish", "unlist", "download", "import"} => job[w].cur \in Ids
  PROVE  job' \in [Workers -> Job]
<1>1. [job[w] EXCEPT !.pc = step] \in Job
  BY DEF TypeOK, Job, JobRecord
<1> QED BY <1>1, AdvanceTyped DEF Goto

LEMMA StartCreateTyped ==
  ASSUME TypeOK, NEW w \in Workers, NEW start \in JobRecord, start.game \in Games,
         start.op \in {"backup", "restore"}, StartCreate(w, start)
  PROVE  job' \in [Workers -> Job]
<1>1. PICK content \in Contents \cup {{}} :
        Advance(w, [start EXCEPT !.pc = "store", !.content = content, !.need = content])
  BY DEF StartCreate
<1>2. [start EXCEPT !.pc = "store", !.content = content, !.need = content] \in Job
  BY ContentsAssumption DEF Job, JobRecord, Steps, StepsOf
<1> QED BY <1>1, <1>2, AdvanceTyped

\* The first steps of the operations.
LEMMA BeginTyped ==
  ASSUME TypeOK, NEW w \in Workers, Begin(w)
  PROVE  TypeOK'
<1> USE DEF TypeOK, StoreTypeOK, storeVars, bucketVars, lockVars, TakeSyncMu
<1>1. ASSUME NEW g \in Games, Backup(w, g) PROVE TypeOK'
  <2> DEFINE start == [Idle EXCEPT !.op = "backup", !.game = g]
  <2>1. start \in JobRecord /\ start.game = g /\ start.op = "backup"
    BY IdleIsJob DEF Idle, Job, JobRecord, Operations
  <2>2. job' \in [Workers -> Job]
    BY <1>1, <2>1, StartCreateTyped DEF Backup
  <2> QED BY <1>1, <2>2 DEF Backup
<1>2. ASSUME NEW g \in Games, SyncGame(w, g) PROVE TypeOK'
  <2>1. [Idle EXCEPT !.pc = "mark", !.op = "syncGame", !.game = g] \in Job
    BY IdleIsJob DEF Idle, Job, JobRecord, Operations, Steps, StepsOf
  <2>2. job' \in [Workers -> Job]
    BY <1>2, <2>1, AdvanceTyped DEF SyncGame
  <2> QED BY <1>2, <2>2 DEF SyncGame
<1>3. ASSUME SyncPending(w) PROVE TypeOK'
  <2>1. [Idle EXCEPT !.pc = "mark", !.op = "syncPending"] \in Job
    BY IdleIsJob DEF Idle, Job, JobRecord, Operations, Steps, StepsOf
  <2>2. job' \in [Workers -> Job]
    BY <1>3, <2>1, AdvanceTyped DEF SyncPending
  <2> QED BY <1>3, <2>2 DEF SyncPending
<1>4. ASSUME NEW s \in Ids, Restore(w, s) PROVE TypeOK'
  <2> DEFINE need == IF \A h \in files[s] : Readable(h) THEN {} ELSE files[s]
             next == [Idle EXCEPT !.pc = "fetch", !.op = "restore", !.game = gameOf[s],
                                  !.cur = s, !.need = need]
  <2>1. need \in SUBSET Hashes /\ gameOf[s] \in Games
    OBVIOUS
  <2> HIDE DEF need
  <2>2. next \in Job
    BY <2>1, IdleIsJob DEF Idle, Job, JobRecord, Operations, Steps, StepsOf
  <2>3. job' \in [Workers -> Job]
    BY <1>4, <2>2, AdvanceTyped DEF Restore, need
  <2> QED BY <1>4, <2>3 DEF Restore
<1>5. ASSUME NEW s \in Ids, NEW remoteToo \in BOOLEAN, DeleteSnapshot(w, s, remoteToo)
      PROVE  TypeOK'
  <2> DEFINE remote == IF remoteToo THEN {s} \cap synced ELSE {}
             next == [Idle EXCEPT !.pc = "evict", !.op = "delete", !.todo = {s},
                                  !.remote = remote]
  <2>1. remote \in SUBSET Ids /\ {s} \in SUBSET Ids
    OBVIOUS
  <2> HIDE DEF remote
  <2>2. next \in Job
    BY <2>1, IdleIsJob DEF Idle, Job, JobRecord, Operations, Steps, StepsOf
  <2>3. job' \in [Workers -> Job]
    BY <1>5, <2>2, AdvanceTyped DEF DeleteSnapshot, remote
  <2> QED BY <1>5, <2>3 DEF DeleteSnapshot
<1>6. ASSUME ReconcileRemote(w) PROVE TypeOK'
  <2>1. [Idle EXCEPT !.pc = "examine", !.op = "reconcile", !.todo = manifests] \in Job
    BY IdleIsJob DEF Idle, Job, JobRecord, Operations, Steps, StepsOf
  <2>2. job' \in [Workers -> Job]
    BY <1>6, <2>1, AdvanceTyped DEF ReconcileRemote
  <2> QED BY <1>6, <2>2 DEF ReconcileRemote
<1> QED BY <1>1, <1>2, <1>3, <1>4, <1>5, <1>6 DEF Begin

\* Creation of a snapshot, by Backup or before Restore writes.
LEMMA CreateTyped ==
  ASSUME TypeOK, NEW w \in Workers,
         \/ \E h \in Hashes : StoreFile(w, h) \/ IndexFile(w, h)
         \/ CreateSkipped(w) \/ CreateSaved(w) \/ CreateFails(w)
  PROVE  TypeOK'
<1> USE DEF TypeOK, StoreTypeOK, storeVars, tableVars, blobVars, bucketVars, lockVars, At
<1>0. job[w] \in Job
  OBVIOUS
<1>1. ASSUME NEW h \in Hashes, StoreFile(w, h) PROVE TypeOK'
  BY <1>1 DEF StoreFile
<1>2. ASSUME NEW h \in Hashes, IndexFile(w, h) PROVE TypeOK'
  <2>1. [job[w] EXCEPT !.need = @ \ {h}] \in Job
    BY <1>0, <1>2 DEF IndexFile, Job, JobRecord, Steps, StepsOf, Operations
  <2>2. job' \in [Workers -> Job]
    BY <1>2, <2>1, AdvanceTyped DEF IndexFile
  <2> QED BY <1>2, <2>2 DEF IndexFile, SaveBlob
<1>3. ASSUME CreateSkipped(w) PROVE TypeOK'
  <2>1. job' \in [Workers -> Job]
    BY <1>0, <1>3, ReturnTyped, GotoTyped DEF CreateSkipped, Job, JobRecord, Steps, StepsOf, Operations
  <2> QED BY <1>3, <2>1 DEF CreateSkipped
<1>4. ASSUME CreateSaved(w) PROVE TypeOK'
  <2>1. job' \in [Workers -> Job]
    BY <1>0, <1>4, GotoTyped DEF CreateSaved, Job, JobRecord, Steps, StepsOf, Operations
  <2>2. PICK s \in Ids : SaveSnapshot(s, job[w].game, job[w].content)
    BY <1>4 DEF CreateSaved, Oldest, Unused
  <2>3. job[w].content \in SUBSET Hashes /\ job[w].game \in Games
    BY <1>0, <1>4 DEF CreateSaved, Job, JobRecord, StepsOf, Operations
  <2> QED BY <1>4, <2>1, <2>2, <2>3 DEF CreateSaved, SaveSnapshot, Allocate
<1>5. ASSUME CreateFails(w) PROVE TypeOK'
  <2>1. job' \in [Workers -> Job]
    BY <1>0, <1>5, ReturnTyped DEF CreateFails, Job, JobRecord, Steps, StepsOf, Operations
  <2> QED BY <1>5, <2>1 DEF CreateFails
<1> QED BY <1>1, <1>2, <1>3, <1>4, <1>5

\* Local retention, and the deletion of a row and of the blobs it leaves.
LEMMA DeleteTyped ==
  ASSUME TypeOK, NEW w \in Workers,
         \/ LocalRetention(w) \/ Trim(w) \/ TrimDone(w) \/ Unlist(w) \/ SweepDone(w)
         \/ \E h \in Hashes : Sweep(w, h) \/ SweepFails(w, h)
  PROVE  TypeOK'
<1> USE DEF TypeOK, StoreTypeOK, storeVars, tableVars, blobVars, bucketVars, lockVars, At
<1>0. job[w] \in Job
  OBVIOUS
<1>1. ASSUME LocalRetention(w) PROVE TypeOK'
  <2> DEFINE list == SnapshotsBeyond(job[w].game, Keep) \ (active \cup synced)
  <2>1. list \in SUBSET Ids
    BY DEF SnapshotsBeyond, RowsOf
  <2>2. [job[w] EXCEPT !.pc = "trim", !.todo = list] \in Job
    BY <1>0, <1>1, <2>1 DEF LocalRetention, Job, JobRecord, Steps, StepsOf, Operations
  <2>3. job' \in [Workers -> Job]
    BY <1>1, <2>2, AdvanceTyped DEF LocalRetention
  <2> QED BY <1>1, <2>3 DEF LocalRetention
<1>2. ASSUME NEW s \in Ids, DeleteSnapshotRow(w, s), "sweep" \in StepsOf(job[w].op)
      PROVE  /\ job' \in [Workers -> Job]
             /\ rows' \subseteq Ids /\ synced' \subseteq rows'
             /\ UNCHANGED <<files, gameOf, blobVars>>
  <2> DEFINE next == [job[w] EXCEPT !.pc = "sweep", !.todo = @ \ {s},
                                    !.orphans = OrphansWithout(s)]
  <2>1. OrphansWithout(s) \in SUBSET Hashes
    BY DEF OrphansWithout
  <2>2. next \in Job
    BY <1>0, <1>2, <2>1 DEF Job, JobRecord, Steps
  <2>3. job' \in [Workers -> Job]
    BY <1>2, <2>2, AdvanceTyped DEF DeleteSnapshotRow
  <2> QED BY <1>2, <2>3 DEF DeleteSnapshotRow, DeleteRow
<1>3. ASSUME Trim(w) PROVE TypeOK'
  <2>1. PICK s \in job[w].todo : DeleteSnapshotRow(w, s)
    BY <1>3 DEF Trim, Newest
  <2>2. s \in Ids /\ "sweep" \in StepsOf(job[w].op)
    BY <1>0, <1>3 DEF Trim, Job, JobRecord, StepsOf, Operations
  <2> QED BY <1>2, <1>3, <2>1, <2>2 DEF Trim
<1>4. ASSUME TrimDone(w) PROVE TypeOK'
  <2>1. job' \in [Workers -> Job]
    BY <1>0, <1>4, ReturnTyped DEF TrimDone, Job, JobRecord, Steps, StepsOf, Operations
  <2> QED BY <1>4, <2>1 DEF TrimDone
<1>5. ASSUME Unlist(w) PROVE TypeOK'
  <2>1. job[w].cur \in Ids /\ "sweep" \in StepsOf(job[w].op)
    BY <1>0, <1>5 DEF Unlist, DeleteSnapshotRow, DeleteRow, Job, JobRecord, StepsOf, Operations
  <2> QED BY <1>2, <1>5, <2>1 DEF Unlist
<1>6. ASSUME SweepDone(w) PROVE TypeOK'
  <2>1. job' \in [Workers -> Job]
    BY <1>0, <1>6, GotoTyped DEF SweepDone, Job, JobRecord, Steps, StepsOf, Operations
  <2> QED BY <1>6, <2>1 DEF SweepDone
<1>7. ASSUME NEW h \in Hashes, Sweep(w, h) PROVE TypeOK'
  <2>1. [job[w] EXCEPT !.orphans = @ \ {h}] \in Job
    BY <1>0, <1>7 DEF Sweep, Job, JobRecord, Steps, StepsOf, Operations
  <2>2. job' \in [Workers -> Job]
    BY <1>7, <2>1, AdvanceTyped DEF Sweep
  <2> QED BY <1>7, <2>2 DEF Sweep, RemoveOrphanBlob
<1>8. ASSUME NEW h \in Hashes, SweepFails(w, h) PROVE TypeOK'
  <2>1. [job[w] EXCEPT !.orphans = @ \ {h}, !.todo = {}] \in Job
    BY <1>0, <1>8 DEF SweepFails, Job, JobRecord, Steps, StepsOf, Operations
  <2>2. job' \in [Workers -> Job]
    BY <1>8, <2>1, AdvanceTyped DEF SweepFails
  <2> QED BY <1>8, <2>2 DEF SweepFails
<1> QED BY <1>1, <1>3, <1>4, <1>5, <1>6, <1>7, <1>8

\* Uploads and the retention after them.
LEMMA SyncTyped ==
  ASSUME TypeOK, NEW w \in Workers,
         \/ SyncRefused(w) \/ MarkActive(w) \/ PickUpload(w)
         \/ \E h \in Hashes : EnsureBlob(w, h)
         \/ PutManifest(w) \/ MarkSynced(w) \/ UploadFails(w) \/ Unmark(w)
         \/ \E g \in Games : ListExcess(w, g)
         \/ SyncDone(w) \/ Evict(w) \/ EvictFails(w) \/ EvictDone(w) \/ UnlistFails(w)
  PROVE  TypeOK'
<1> USE DEF TypeOK, StoreTypeOK, storeVars, tableVars, blobVars, bucketVars, lockVars, At
<1>0. job[w] \in Job
  OBVIOUS
<1>1. ASSUME SyncRefused(w) PROVE TypeOK'
  <2>1. job' \in [Workers -> Job]
    BY <1>0, <1>1, ReturnTyped DEF SyncRefused, Job, JobRecord, Steps, StepsOf, Operations
  <2> QED BY <1>1, <2>1 DEF SyncRefused
<1>2. ASSUME MarkActive(w) PROVE TypeOK'
  <2> DEFINE retain == IF job[w].op = "syncGame" THEN {job[w].game} ELSE {}
             next(games) == [job[w] EXCEPT !.pc = "pick",
                                           !.todo = PendingSnapshots(games),
                                           !.retain = retain]
  <2>1. PICK games : /\ active' = active \cup PendingSnapshots(games)
                     /\ Advance(w, next(games))
    BY <1>2 DEF MarkActive
  <2>2. PendingSnapshots(games) \in SUBSET Ids
    BY DEF PendingSnapshots
  <2>0. retain \in SUBSET Games
    BY <1>0 DEF Job, JobRecord
  <2> HIDE DEF retain
  <2>3. next(games) \in Job
    BY <1>0, <1>2, <2>0, <2>2 DEF MarkActive, Job, JobRecord, Steps, StepsOf, Operations
  <2>4. job' \in [Workers -> Job]
    BY <2>1, <2>3, AdvanceTyped
  <2> QED BY <1>2, <2>1, <2>2, <2>4 DEF MarkActive
<1>3. ASSUME PickUpload(w) PROVE TypeOK'
  <2> DEFINE next(s) == [job[w] EXCEPT !.pc = "blobs", !.cur = s, !.need = files[s]]
  <2>1. PICK s \in job[w].todo : Advance(w, next(s))
    BY <1>3 DEF PickUpload, Oldest, Remaining
  <2>2. s \in Ids
    BY <1>0 DEF Job, JobRecord
  <2>3. next(s) \in Job
    BY <1>0, <1>3, <2>2 DEF PickUpload, Job, JobRecord, Steps, StepsOf, Operations
  <2>4. job' \in [Workers -> Job]
    BY <2>1, <2>3, AdvanceTyped
  <2> QED BY <1>3, <2>4 DEF PickUpload
<1>4. ASSUME NEW h \in Hashes, EnsureBlob(w, h) PROVE TypeOK'
  <2>1. [job[w] EXCEPT !.need = @ \ {h}] \in Job
    BY <1>0, <1>4 DEF EnsureBlob, Job, JobRecord, Steps, StepsOf, Operations
  <2>2. job' \in [Workers -> Job]
    BY <1>4, <2>1, AdvanceTyped DEF EnsureBlob
  <2> QED BY <1>4, <2>2 DEF EnsureBlob, Readable
<1>5. At(w, "blobs") \/ At(w, "publish") \/ At(w, "unlist") => job[w].cur \in Ids
  BY <1>0 DEF Job
<1>6. ASSUME PutManifest(w) PROVE TypeOK'
  <2>1. job' \in [Workers -> Job]
    BY <1>0, <1>5, <1>6, GotoTyped DEF PutManifest, Job, JobRecord, Steps, StepsOf, Operations
  <2> QED BY <1>5, <1>6, <2>1 DEF PutManifest
<1>7. ASSUME MarkSynced(w) PROVE TypeOK'
  <2> DEFINE games == IF job[w].op = "syncPending"
                        THEN job[w].retain \cup {gameOf[job[w].cur]} ELSE job[w].retain
  <2>1. games \in SUBSET Games
    BY <1>0, <1>5, <1>7 DEF MarkSynced, Job, JobRecord
  <2>2. [job[w] EXCEPT !.pc = "pick", !.retain = games] \in Job
    <3>1. job[w].pc = "publish"
      BY <1>7 DEF MarkSynced
    <3> HIDE DEF games
    <3> QED BY <1>0, <2>1, <3>1 DEF Job, JobRecord, Steps, StepsOf, Operations
  <2>3. job' \in [Workers -> Job]
    BY <1>7, <2>2, AdvanceTyped DEF MarkSynced
  <2> QED BY <1>5, <1>7, <2>3 DEF MarkSynced, MarkSnapshotRemote
<1>8. ASSUME UploadFails(w) PROVE TypeOK'
  <2> DEFINE cur == IF job[w].op = "syncGame" THEN MaxSnap ELSE job[w].cur
             retain == IF job[w].op = "syncGame" THEN {} ELSE job[w].retain
             next == [job[w] EXCEPT !.pc = "pick", !.need = {},
                                    !.cur = cur, !.retain = retain]
  <2>0. cur \in Ids \cup {0} /\ retain \in SUBSET Games
    BY <1>0, MaxSnapAssumption DEF Ids, Job, JobRecord
  <2> HIDE DEF cur, retain
  <2>1. next \in Job
    BY <1>0, <1>8, <2>0
    DEF UploadFails, Job, JobRecord, Steps, StepsOf, Operations
  <2>2. job' \in [Workers -> Job]
    BY <1>8, <2>1, AdvanceTyped DEF UploadFails, cur, retain
  <2>3. job[w].need \in SUBSET Hashes
    BY <1>0 DEF Job, JobRecord
  <2>4. bucket' \subseteq Hashes /\ manifests' \subseteq Ids
    BY <1>5, <1>8, <2>3 DEF UploadFails
  <2> QED BY <1>8, <2>2, <2>4 DEF UploadFails
<1>9. ASSUME Unmark(w) PROVE TypeOK'
  <2>1. [job[w] EXCEPT !.pc = "list", !.todo = {}, !.cur = 0] \in Job
    BY <1>0, <1>9 DEF Unmark, Job, JobRecord, Steps, StepsOf, Operations
  <2>2. job' \in [Workers -> Job]
    BY <1>9, <2>1, AdvanceTyped DEF Unmark
  <2> QED BY <1>9, <2>2 DEF Unmark
<1>10. ASSUME NEW g \in Games, ListExcess(w, g) PROVE TypeOK'
  <2> DEFINE next(excess) == [job[w] EXCEPT !.pc = "evict", !.todo = excess,
                                            !.remote = excess \cap synced,
                                            !.retain = @ \ {g}]
  <2>1. PICK excess \in {SnapshotsBeyond(g, Keep), SnapshotsBeyond(g, Keep) \ synced, {}} :
          Advance(w, next(excess))
    BY <1>10 DEF ListExcess
  <2>2. excess \in SUBSET Ids
    BY DEF SnapshotsBeyond, RowsOf
  <2>3. next(excess) \in Job
    BY <1>0, <1>10, <2>2 DEF ListExcess, Job, JobRecord, Steps, StepsOf, Operations
  <2>4. job' \in [Workers -> Job]
    BY <2>1, <2>3, AdvanceTyped
  <2> QED BY <1>10, <2>4 DEF ListExcess
<1>11. ASSUME SyncDone(w) PROVE TypeOK'
  <2>1. job' \in [Workers -> Job]
    BY <1>0, <1>11, ReturnTyped DEF SyncDone, Job, JobRecord, Steps, StepsOf, Operations
  <2> QED BY <1>11, <2>1 DEF SyncDone
<1>12. ASSUME Evict(w) PROVE TypeOK'
  <2>1. PICK s \in job[w].todo :
          /\ manifests' = manifests \ (job[w].remote \cap {s})
          /\ Advance(w, [job[w] EXCEPT !.pc = "unlist", !.cur = s])
    BY <1>12 DEF Evict, Newest
  <2>2. [job[w] EXCEPT !.pc = "unlist", !.cur = s] \in Job
    BY <1>0, <1>12 DEF Evict, Job, JobRecord, Steps, StepsOf, Operations
  <2>3. job' \in [Workers -> Job]
    BY <2>1, <2>2, AdvanceTyped
  <2> QED BY <1>12, <2>1, <2>3 DEF Evict
<1>13. ASSUME EvictFails(w) PROVE TypeOK'
  <2>1. [job[w] EXCEPT !.todo = {}] \in Job
    BY <1>0, <1>13 DEF EvictFails, Job, JobRecord, Steps, StepsOf, Operations
  <2>2. job' \in [Workers -> Job]
    BY <1>13, <2>1, AdvanceTyped DEF EvictFails
  <2> QED BY <1>13, <2>2 DEF EvictFails
<1>14. ASSUME EvictDone(w) PROVE TypeOK'
  <2>1. ASSUME job[w].op # "delete"
        PROVE  [job[w] EXCEPT !.pc = "list", !.cur = 0, !.remote = {}] \in Job
    BY <1>0, <1>14, <2>1
    DEF EvictDone, Job, JobRecord, Steps, StepsOf, Operations
  <2>2. job' \in [Workers -> Job]
    BY <1>14, <2>1, ReturnTyped, AdvanceTyped DEF EvictDone
  <2> QED BY <1>14, <2>2 DEF EvictDone
<1>15. ASSUME UnlistFails(w) PROVE TypeOK'
  <2>1. [job[w] EXCEPT !.pc = "evict", !.todo = {}] \in Job
    BY <1>0, <1>15 DEF UnlistFails, Job, JobRecord, Steps, StepsOf, Operations
  <2>2. job' \in [Workers -> Job]
    BY <1>15, <2>1, AdvanceTyped DEF UnlistFails
  <2> QED BY <1>15, <2>2 DEF UnlistFails
<1> QED
  BY <1>1, <1>2, <1>3, <1>4, <1>6, <1>7, <1>8, <1>9, <1>10, <1>11, <1>12, <1>13, <1>14, <1>15

\* The rest of Restore.
LEMMA RestoreTyped ==
  ASSUME TypeOK, NEW w \in Workers,
         \/ \E h \in Hashes : VerifyBlob(w, h) \/ FetchBlob(w, h) \/ SwapBlob(w, h)
         \/ RestoreFails(w) \/ RestoreBegin(w) \/ RestoreEnds(w)
  PROVE  TypeOK'
<1> USE DEF TypeOK, StoreTypeOK, storeVars, tableVars, blobVars, bucketVars, lockVars, At
<1>0. job[w] \in Job
  OBVIOUS
<1>v. ASSUME NEW h \in Hashes, VerifyBlob(w, h) PROVE TypeOK'
  <2>1. [job[w] EXCEPT !.need = @ \ {h}] \in Job
    BY <1>0, <1>v DEF VerifyBlob, Job, JobRecord, Steps, StepsOf, Operations
  <2>2. job' \in [Workers -> Job]
    BY <1>v, <2>1, AdvanceTyped DEF VerifyBlob
  <2> QED BY <1>v, <2>2 DEF VerifyBlob
<1>1. ASSUME NEW h \in Hashes, FetchBlob(w, h) PROVE TypeOK'
  <2>1. [job[w] EXCEPT !.pc = "swap", !.content = {h}] \in Job
    BY <1>0, <1>1 DEF FetchBlob, Job, JobRecord, Steps, StepsOf, Operations
  <2>2. job' \in [Workers -> Job]
    BY <1>1, <2>1, AdvanceTyped DEF FetchBlob
  <2> QED BY <1>1, <2>2 DEF FetchBlob
<1>s. ASSUME NEW h \in Hashes, SwapBlob(w, h) PROVE TypeOK'
  <2>1. [job[w] EXCEPT !.pc = "fetch", !.need = @ \ {h}, !.content = {}] \in Job
    BY <1>0, <1>s DEF SwapBlob, Job, JobRecord, Steps, StepsOf, Operations
  <2>2. job' \in [Workers -> Job]
    BY <1>s, <2>1, AdvanceTyped DEF SwapBlob
  <2> QED BY <1>s, <2>2 DEF SwapBlob, SaveBlob
<1>2. ASSUME RestoreFails(w) PROVE TypeOK'
  <2>1. job' \in [Workers -> Job]
    BY <1>2, ReturnTyped DEF RestoreFails
  <2>2. job[w].content \in SUBSET Hashes
    BY <1>0 DEF Job, JobRecord
  <2>3. disk' \in SUBSET Hashes
    BY <1>2, <2>2 DEF RestoreFails
  <2> QED BY <1>2, <2>1, <2>3 DEF RestoreFails
<1>3. ASSUME RestoreBegin(w) PROVE TypeOK'
  <2>1. job[w] \in JobRecord /\ job[w].op = "restore" /\ job[w].game \in Games
    BY <1>0, <1>3 DEF RestoreBegin, Job, StepsOf, JobRecord, Operations
  <2>2. job' \in [Workers -> Job]
    BY <1>3, <2>1, ReturnTyped, StartCreateTyped DEF RestoreBegin
  <2> QED BY <1>3, <2>2 DEF RestoreBegin
<1>4. ASSUME RestoreEnds(w) PROVE TypeOK'
  <2>1. job' \in [Workers -> Job]
    BY <1>0, <1>4, ReturnTyped DEF RestoreEnds, Job, JobRecord, Steps, StepsOf, Operations
  <2> QED BY <1>4, <2>1 DEF RestoreEnds
<1> QED BY <1>v, <1>1, <1>s, <1>2, <1>3, <1>4

\* The rest of ReconcileRemote.
LEMMA ReconcileTyped ==
  ASSUME TypeOK, NEW w \in Workers,
         \/ \E s \in Ids : Examine(w, s)
         \/ DownloadManifest(w) \/ Import(w) \/ ReconcileEnds(w)
  PROVE  TypeOK'
<1> USE DEF TypeOK, StoreTypeOK, storeVars, tableVars, blobVars, bucketVars, lockVars, At
<1>0. job[w] \in Job
  OBVIOUS
<1>1. ASSUME NEW s \in Ids, Examine(w, s) PROVE TypeOK'
  <2>1. /\ [job[w] EXCEPT !.todo = @ \ {s}] \in Job
        /\ [job[w] EXCEPT !.todo = @ \ {s}, !.cur = s, !.pc = "download"] \in Job
    <3>1. job[w].pc = "examine"
      BY <1>1 DEF Examine
    <3>2. [job[w] EXCEPT !.todo = @ \ {s}] \in Job
      BY <1>0, <3>1 DEF Job, JobRecord, StepsOf
    <3>3. [job[w] EXCEPT !.todo = @ \ {s}, !.cur = s, !.pc = "download"] \in Job
      BY <1>0, <3>1 DEF Job, JobRecord, Steps, StepsOf, Operations
    <3> QED BY <3>2, <3>3
  <2>2. job' \in [Workers -> Job]
    BY <1>1, <2>1, AdvanceTyped DEF Examine
  <2> QED BY <1>1, <2>2 DEF Examine
<1>2. ASSUME DownloadManifest(w) PROVE TypeOK'
  <2>1. job' \in [Workers -> Job]
    BY <1>0, <1>2, GotoTyped DEF DownloadManifest, Job, JobRecord, Steps, StepsOf, Operations
  <2> QED BY <1>2, <2>1 DEF DownloadManifest
<1>3. ASSUME Import(w) PROVE TypeOK'
  <2>1. job[w].cur \in Ids
    BY <1>0, <1>3 DEF Import, Job
  <2>2. [job[w] EXCEPT !.pc = "examine", !.cur = 0] \in Job
    BY <1>0, <1>3 DEF Import, Job, JobRecord, Steps, StepsOf, Operations
  <2>3. job' \in [Workers -> Job]
    BY <1>3, <2>2, AdvanceTyped DEF Import
  <2> QED BY <1>3, <2>1, <2>3 DEF Import, ImportSnapshot
<1>4. ASSUME ReconcileEnds(w) PROVE TypeOK'
  <2>1. job' \in [Workers -> Job]
    BY <1>0, <1>4, ReturnTyped DEF ReconcileEnds, Job, JobRecord, Steps, StepsOf, Operations
  <2> QED BY <1>4, <2>1 DEF ReconcileEnds
<1> QED BY <1>1, <1>2, <1>3, <1>4

\* Another device, and a crash.
LEMMA EnvironmentTyped ==
  ASSUME TypeOK, Environment
  PROVE  TypeOK'
<1> USE DEF TypeOK, StoreTypeOK, storeVars, tableVars, blobVars, bucketVars, lockVars
<1>1. ASSUME NEW s \in Ids, NEW g \in Games, NEW content \in Contents,
             OtherDevicePublishes(s, g, content)
      PROVE  TypeOK'
  BY <1>1, ContentsAssumption DEF OtherDevicePublishes, Allocate
<1>2. ASSUME NEW s \in Ids, OtherDeviceDeletes(s) PROVE TypeOK'
  BY <1>2 DEF OtherDeviceDeletes
<1>3. ASSUME Crash PROVE TypeOK'
  BY <1>3, IdleIsJob DEF Crash
<1> QED BY <1>1, <1>2, <1>3 DEF Environment

LEMMA NextTyped == TypeOK /\ [Next]_vars => TypeOK'
<1> SUFFICES ASSUME TypeOK, [Next]_vars PROVE TypeOK'
  OBVIOUS
<1>1. ASSUME NEW w \in Workers, Begin(w) \/ Continue(w) \/ Acquire(w) PROVE TypeOK'
  BY <1>1, BeginTyped, CreateTyped, DeleteTyped, SyncTyped, RestoreTyped, ReconcileTyped
  DEF Continue, Acquire
<1>2. ASSUME UNCHANGED vars PROVE TypeOK'
  BY <1>2 DEF TypeOK, StoreTypeOK, vars, storeVars, bucketVars, lockVars
<1> QED BY <1>1, <1>2, EnvironmentTyped DEF Next

\* The state stays well-formed: a row keeps its remote state and a blob its
\* upload state no longer than it exists, and every worker is at a step of
\* the operation it runs, with the game and the snapshot that step needs.
THEOREM TypeCorrect == Spec => []TypeOK
<1>1. Init => TypeOK
  BY InitTypeOK
<1>2. TypeOK /\ [Next]_vars => TypeOK'
  BY NextTyped
<1> QED BY <1>1, <1>2, PTL DEF Spec

-----------------------------------------------------------------------------
(***************************************************************************)
(* Where each step takes its worker, which the other proofs build on.      *)
(***************************************************************************)
\* The operation a worker runs, from its step.
LEMMA OperationOfStep ==
  ASSUME NEW j \in Job
  PROVE  /\ j.pc = "idle" => j.op = "none"
         /\ j.pc = "store" => j.op \in {"backup", "restore"}
         /\ j.pc \in {"relock", "trim"} => j.op = "backup"
         /\ j.pc = "sweep" => j.op \in {"backup", "syncGame", "syncPending", "delete"}
         /\ j.pc \in {"mark", "pick", "blobs", "publish", "list"} =>
              j.op \in {"syncGame", "syncPending"}
         /\ j.pc \in {"evict", "unlist"} => j.op \in {"syncGame", "syncPending", "delete"}
         /\ j.pc \in {"fetch", "swap", "stage"} => j.op = "restore"
         /\ j.op = "reconcile" => j.pc \in {"examine", "download", "import"}
  BY DEF Job, JobRecord, StepsOf, Operations

\* Worker w starts an operation, the others stay where they are.
Started(w, op, step) ==
  /\ job'[w].op = op /\ job'[w].pc = step
  /\ \A v \in Workers \ {w} : job'[v] = job[v]

\* Worker w goes to one of the given steps, or returns.
Moved(w, steps) ==
  /\ job'[w].pc \in steps
  /\ job'[w].op = IF job'[w].pc = "idle" THEN "none" ELSE job[w].op
  /\ \A v \in Workers \ {w} : job'[v] = job[v]

LEMMA Moves ==
  ASSUME TypeOK, NEW w \in Workers
  PROVE  /\ \A g \in Games : Backup(w, g) => Started(w, "backup", "store")
         /\ \A g \in Games : SyncGame(w, g) => Started(w, "syncGame", "mark")
         /\ SyncPending(w) => Started(w, "syncPending", "mark")
         /\ \A s \in Ids : Restore(w, s) => Started(w, "restore", "fetch")
         /\ \A s \in Ids, remoteToo \in BOOLEAN : DeleteSnapshot(w, s, remoteToo) => Started(w, "delete", "evict")
         /\ ReconcileRemote(w) => Started(w, "reconcile", "examine")
         /\ \A h \in Hashes : IndexFile(w, h) => Moved(w, {"store"})
         /\ CreateSkipped(w) => Moved(w, {"idle", "stage"})
         /\ CreateSaved(w) => Moved(w, {"relock", "stage"})
         /\ CreateFails(w) => Moved(w, {"idle"})
         /\ LocalRetention(w) => Moved(w, {"trim"})
         /\ Trim(w) => Moved(w, {"sweep"})
         /\ TrimDone(w) => Moved(w, {"idle"})
         /\ \A h \in Hashes : Sweep(w, h) => Moved(w, {"sweep"})
         /\ \A h \in Hashes : SweepFails(w, h) => Moved(w, {"sweep"})
         /\ SweepDone(w) => Moved(w, {"trim", "evict"})
         /\ SyncRefused(w) => Moved(w, {"idle"})
         /\ MarkActive(w) => Moved(w, {"pick"})
         /\ PickUpload(w) => Moved(w, {"blobs"})
         /\ \A h \in Hashes : EnsureBlob(w, h) => Moved(w, {"blobs"})
         /\ PutManifest(w) => Moved(w, {"publish"})
         /\ MarkSynced(w) => Moved(w, {"pick"})
         /\ UploadFails(w) => Moved(w, {"pick"})
         /\ Unmark(w) => Moved(w, {"list"})
         /\ \A g \in Games : ListExcess(w, g) => Moved(w, {"evict"})
         /\ SyncDone(w) => Moved(w, {"idle"})
         /\ Evict(w) => Moved(w, {"unlist"})
         /\ EvictFails(w) => Moved(w, {"evict"})
         /\ EvictDone(w) => Moved(w, {"idle", "list"})
         /\ Unlist(w) => Moved(w, {"sweep"})
         /\ UnlistFails(w) => Moved(w, {"evict"})
         /\ \A h \in Hashes : VerifyBlob(w, h) => Moved(w, {"fetch"})
         /\ \A h \in Hashes : FetchBlob(w, h) => Moved(w, {"swap"})
         /\ \A h \in Hashes : SwapBlob(w, h) => Moved(w, {"fetch"})
         /\ RestoreFails(w) => Moved(w, {"idle"})
         /\ RestoreBegin(w) => Moved(w, {"store", "idle"})
         /\ RestoreEnds(w) => Moved(w, {"idle"})
         /\ \A s \in Ids : Examine(w, s) => Moved(w, {"examine", "download"})
         /\ DownloadManifest(w) => Moved(w, {"import"})
         /\ Import(w) => Moved(w, {"examine"})
         /\ ReconcileEnds(w) => Moved(w, {"idle"})
<1>0. job \in [Workers -> JobRecord]
  BY DEF TypeOK, Job
<1>1. ASSUME NEW g \in Games, Backup(w, g) PROVE Started(w, "backup", "store")
  BY <1>0, <1>1 DEF Advance, Backup, StartCreate, Started, Idle, At, JobRecord
<1>2. ASSUME NEW g \in Games, SyncGame(w, g) PROVE Started(w, "syncGame", "mark")
  BY <1>0, <1>2 DEF Advance, SyncGame, TakeSyncMu, Started, Idle, At, JobRecord
<1>3. ASSUME SyncPending(w) PROVE Started(w, "syncPending", "mark")
  BY <1>0, <1>3 DEF Advance, SyncPending, TakeSyncMu, Started, Idle, At, JobRecord
<1>4. ASSUME NEW s \in Ids, Restore(w, s) PROVE Started(w, "restore", "fetch")
  BY <1>0, <1>4 DEF Advance, Restore, TakeSyncMu, Started, Idle, At, JobRecord
<1>5. ASSUME NEW s \in Ids, NEW remoteToo \in BOOLEAN, DeleteSnapshot(w, s, remoteToo) PROVE Started(w, "delete", "evict")
  BY <1>0, <1>5 DEF Advance, DeleteSnapshot, TakeSyncMu, Started, Idle, At, JobRecord
<1>6. ASSUME ReconcileRemote(w) PROVE Started(w, "reconcile", "examine")
  BY <1>0, <1>6 DEF Advance, ReconcileRemote, Started, Idle, At, JobRecord
<1>7. ASSUME NEW h \in Hashes, IndexFile(w, h) PROVE Moved(w, {"store"})
  BY <1>0, <1>7 DEF Advance, IndexFile, Moved, Idle, At, JobRecord
<1>8. ASSUME CreateSkipped(w) PROVE Moved(w, {"idle", "stage"})
  BY <1>0, <1>8 DEF Advance, CreateSkipped, Goto, Return, Moved, Idle, At, JobRecord
<1>9. ASSUME CreateSaved(w) PROVE Moved(w, {"relock", "stage"})
  BY <1>0, <1>9 DEF Advance, CreateSaved, Goto, Moved, Idle, At, JobRecord
<1>10. ASSUME CreateFails(w) PROVE Moved(w, {"idle"})
  BY <1>0, <1>10 DEF Advance, CreateFails, Return, Moved, Idle, At, JobRecord
<1>11. ASSUME LocalRetention(w) PROVE Moved(w, {"trim"})
  BY <1>0, <1>11 DEF Advance, LocalRetention, Moved, Idle, At, JobRecord
<1>12. ASSUME Trim(w) PROVE Moved(w, {"sweep"})
  BY <1>0, <1>12 DEF Advance, Trim, DeleteSnapshotRow, Moved, Idle, At, JobRecord
<1>13. ASSUME TrimDone(w) PROVE Moved(w, {"idle"})
  BY <1>0, <1>13 DEF Advance, TrimDone, Return, Moved, Idle, At, JobRecord
<1>14. ASSUME NEW h \in Hashes, Sweep(w, h) PROVE Moved(w, {"sweep"})
  BY <1>0, <1>14 DEF Advance, Sweep, Moved, Idle, At, JobRecord
<1>15. ASSUME NEW h \in Hashes, SweepFails(w, h) PROVE Moved(w, {"sweep"})
  BY <1>0, <1>15 DEF Advance, SweepFails, Moved, Idle, At, JobRecord
<1>16. ASSUME SweepDone(w) PROVE Moved(w, {"trim", "evict"})
  BY <1>0, <1>16 DEF Advance, SweepDone, Goto, Moved, Idle, At, JobRecord
<1>17. ASSUME SyncRefused(w) PROVE Moved(w, {"idle"})
  BY <1>0, <1>17 DEF Advance, SyncRefused, Return, Moved, Idle, At, JobRecord
<1>18. ASSUME MarkActive(w) PROVE Moved(w, {"pick"})
  BY <1>0, <1>18 DEF Advance, MarkActive, Moved, Idle, At, JobRecord
<1>19. ASSUME PickUpload(w) PROVE Moved(w, {"blobs"})
  BY <1>0, <1>19 DEF Advance, PickUpload, Moved, Idle, At, JobRecord
<1>20. ASSUME NEW h \in Hashes, EnsureBlob(w, h) PROVE Moved(w, {"blobs"})
  BY <1>0, <1>20 DEF Advance, EnsureBlob, Moved, Idle, At, JobRecord
<1>21. ASSUME PutManifest(w) PROVE Moved(w, {"publish"})
  BY <1>0, <1>21 DEF Advance, PutManifest, Goto, Moved, Idle, At, JobRecord
<1>22. ASSUME MarkSynced(w) PROVE Moved(w, {"pick"})
  BY <1>0, <1>22 DEF Advance, MarkSynced, Moved, Idle, At, JobRecord
<1>23. ASSUME UploadFails(w) PROVE Moved(w, {"pick"})
  BY <1>0, <1>23 DEF Advance, UploadFails, Moved, Idle, At, JobRecord
<1>24. ASSUME Unmark(w) PROVE Moved(w, {"list"})
  BY <1>0, <1>24 DEF Advance, Unmark, Moved, Idle, At, JobRecord
<1>25. ASSUME NEW g \in Games, ListExcess(w, g) PROVE Moved(w, {"evict"})
  BY <1>0, <1>25 DEF Advance, ListExcess, Moved, Idle, At, JobRecord
<1>26. ASSUME SyncDone(w) PROVE Moved(w, {"idle"})
  BY <1>0, <1>26 DEF Advance, SyncDone, Return, Moved, Idle, At, JobRecord
<1>27. ASSUME Evict(w) PROVE Moved(w, {"unlist"})
  BY <1>0, <1>27 DEF Advance, Evict, Moved, Idle, At, JobRecord
<1>28. ASSUME EvictFails(w) PROVE Moved(w, {"evict"})
  BY <1>0, <1>28 DEF Advance, EvictFails, Moved, Idle, At, JobRecord
<1>29. ASSUME EvictDone(w) PROVE Moved(w, {"idle", "list"})
  <2>1. CASE job[w].op = "delete"
    BY <1>0, <1>29, <2>1 DEF Advance, EvictDone, Return, Moved, Idle
  <2>2. CASE job[w].op # "delete"
    <3>1. job' = [job EXCEPT ![w] = [job[w] EXCEPT !.pc = "list", !.cur = 0, !.remote = {}]]
      BY <1>29, <2>2 DEF Advance, EvictDone
    <3> QED BY <1>0, <3>1 DEF Moved, JobRecord
  <2> QED BY <2>1, <2>2
<1>30. ASSUME Unlist(w) PROVE Moved(w, {"sweep"})
  BY <1>0, <1>30 DEF Advance, Unlist, DeleteSnapshotRow, Moved, Idle, At, JobRecord
<1>31. ASSUME UnlistFails(w) PROVE Moved(w, {"evict"})
  BY <1>0, <1>31 DEF Advance, UnlistFails, Moved, Idle, At, JobRecord
<1>v. ASSUME NEW h \in Hashes, VerifyBlob(w, h) PROVE Moved(w, {"fetch"})
  BY <1>0, <1>v DEF Advance, VerifyBlob, Moved, Idle, At, JobRecord
<1>s. ASSUME NEW h \in Hashes, SwapBlob(w, h) PROVE Moved(w, {"fetch"})
  BY <1>0, <1>s DEF Advance, SwapBlob, Moved, Idle, At, JobRecord
<1>32. ASSUME NEW h \in Hashes, FetchBlob(w, h) PROVE Moved(w, {"swap"})
  BY <1>0, <1>32 DEF Advance, FetchBlob, Moved, Idle, At, JobRecord
<1>33. ASSUME RestoreFails(w) PROVE Moved(w, {"idle"})
  BY <1>0, <1>33 DEF Advance, RestoreFails, Return, Moved, Idle, At, JobRecord
<1>34. ASSUME RestoreBegin(w) PROVE Moved(w, {"store", "idle"})
  <2>1. CASE job[w].cur \in rows
    <3>1. PICK content \in Contents \cup {{}} :
            job' = [job EXCEPT ![w] = [job[w] EXCEPT !.pc = "store", !.content = content,
                                                     !.need = content]]
      BY <1>34, <2>1 DEF Advance, RestoreBegin, StartCreate
    <3> QED BY <1>0, <3>1 DEF Moved, JobRecord
  <2>2. CASE job[w].cur \notin rows
    BY <1>0, <1>34, <2>2 DEF Advance, RestoreBegin, Return, Moved, Idle
  <2> QED BY <2>1, <2>2
<1>35. ASSUME RestoreEnds(w) PROVE Moved(w, {"idle"})
  BY <1>0, <1>35 DEF Advance, RestoreEnds, Return, Moved, Idle, At, JobRecord
<1>36. ASSUME NEW s \in Ids, Examine(w, s) PROVE Moved(w, {"examine", "download"})
  BY <1>0, <1>36 DEF Advance, Examine, Moved, Idle, At, JobRecord
<1>37. ASSUME DownloadManifest(w) PROVE Moved(w, {"import"})
  BY <1>0, <1>37 DEF Advance, DownloadManifest, Goto, Moved, Idle, At, JobRecord
<1>38. ASSUME Import(w) PROVE Moved(w, {"examine"})
  BY <1>0, <1>38 DEF Advance, Import, Moved, Idle, At, JobRecord
<1>39. ASSUME ReconcileEnds(w) PROVE Moved(w, {"idle"})
  BY <1>0, <1>39 DEF Advance, ReconcileEnds, Return, Moved, Idle, At, JobRecord
<1> QED
  BY <1>1, <1>2, <1>3, <1>4, <1>5, <1>6, <1>7, <1>8, <1>9, <1>10, <1>11, <1>12,
     <1>13, <1>14, <1>15, <1>16, <1>17, <1>18, <1>19, <1>20, <1>21, <1>22, <1>23, <1>24,
     <1>25, <1>26, <1>27, <1>28, <1>29, <1>30, <1>31, <1>32, <1>33, <1>34, <1>35, <1>36,
     <1>37, <1>38, <1>39, <1>v, <1>s

-----------------------------------------------------------------------------
(***************************************************************************)
(* The sections of syncMu and backupMu are exclusive.                      *)
(***************************************************************************)
\* The steps taken with backupMu, and the operations that hold syncMu.
Guarded == {"store", "trim", "sweep", "stage"}
UsesR2 == {"syncGame", "syncPending", "delete", "restore"}

LocksHeld ==
  \A w \in Workers :
    /\ job[w].pc \in Guarded => backupMu = w
    /\ job[w].op \in UsesR2 => syncMu = w

\* A step of w keeps the sections exclusive if it takes a lock that is free,
\* releases only a lock of its own, and has the locks it needs.
LEMMA LockStep ==
  ASSUME LocksHeld, NEW w \in Workers,
         \A v \in Workers \ {w} : job'[v] = job[v],
         job'[w].pc \in Guarded => backupMu' = w,
         job'[w].op \in UsesR2 => syncMu' = w,
         backupMu' = backupMu \/ backupMu \in {None, w},
         syncMu' = syncMu \/ syncMu \in {None, w}
  PROVE  LocksHeld'
  BY NoneAssumption DEF LocksHeld

LEMMA WorkerKeepsLocks ==
  ASSUME TypeOK, LocksHeld, NEW w \in Workers, Begin(w) \/ Continue(w) \/ Acquire(w)
  PROVE  LocksHeld'
<1> USE LockStep, Moves
    DEF lockVars, At, TakeSyncMu, Moved, Started, Guarded, UsesR2
<1>0. /\ job[w].pc \in Guarded => backupMu = w
      /\ job[w].op \in UsesR2 => syncMu = w
  BY DEF LocksHeld
<1>a. job[w] \in Job
  BY DEF TypeOK
<1>b. /\ job[w].pc \in {"mark", "list", "evict", "fetch", "swap", "stage"} => syncMu = w
      /\ job[w].pc \in {"store", "sweep"} /\ job[w].op # "backup" => syncMu = w
      /\ job[w].pc = "relock" => job[w].op = "backup"
  BY <1>0, <1>a, OperationOfStep
<1>d. job \in [Workers -> JobRecord]
  BY DEF TypeOK, Job
<1>c. job[w].op = "reconcile" => job[w].pc \notin Guarded
  BY <1>a, OperationOfStep
<1>1. ASSUME NEW g \in Games, Backup(w, g) PROVE LocksHeld'
  BY <1>0, <1>b, <1>c, <1>1 DEF Backup
<1>2. ASSUME NEW g \in Games, SyncGame(w, g) PROVE LocksHeld'
  BY <1>0, <1>b, <1>c, <1>2 DEF SyncGame
<1>3. ASSUME SyncPending(w) PROVE LocksHeld'
  BY <1>0, <1>b, <1>c, <1>3 DEF SyncPending
<1>4. ASSUME NEW s \in Ids, Restore(w, s) PROVE LocksHeld'
  BY <1>0, <1>b, <1>c, <1>4 DEF Restore
<1>5. ASSUME NEW s \in Ids, NEW remoteToo \in BOOLEAN, DeleteSnapshot(w, s, remoteToo) PROVE LocksHeld'
  BY <1>0, <1>b, <1>c, <1>5 DEF DeleteSnapshot
<1>6. ASSUME ReconcileRemote(w) PROVE LocksHeld'
  BY <1>0, <1>b, <1>c, <1>6 DEF ReconcileRemote
<1>7. ASSUME NEW h \in Hashes, StoreFile(w, h) PROVE LocksHeld'
  BY <1>0, <1>b, <1>c, <1>7 DEF StoreFile
<1>8. ASSUME NEW h \in Hashes, IndexFile(w, h) PROVE LocksHeld'
  BY <1>0, <1>b, <1>c, <1>8 DEF IndexFile
<1>9. ASSUME CreateSkipped(w) PROVE LocksHeld'
  <2> HIDE Moves
  <2>0. /\ syncMu' = syncMu
        /\ IF job[w].op = "backup" THEN Return(w) /\ backupMu' = None
                                   ELSE Goto(w, "stage") /\ UNCHANGED backupMu
    BY <1>9 DEF CreateSkipped
  <2>1. CASE job[w].op = "backup"
    <3>1. Moved(w, {"idle"}) /\ job'[w].op = "none"
      <4>1. job' = [job EXCEPT ![w] = Idle]
        BY <2>0, <2>1 DEF Return, Advance
      <4> QED BY <1>d, <4>1 DEF Idle
    <3> QED BY <1>0, <1>b, <1>9, <2>0, <2>1, <3>1 DEF CreateSkipped
  <2>2. CASE job[w].op # "backup"
    <3>1. Moved(w, {"stage"}) /\ job'[w].op = job[w].op
      <4>1. job' = [job EXCEPT ![w] = [job[w] EXCEPT !.pc = "stage"]]
        BY <2>0, <2>2 DEF Goto, Advance
      <4> QED BY <1>d, <4>1 DEF JobRecord
    <3>2. job[w].pc = "store"
      BY <1>9 DEF CreateSkipped
    <3>3. syncMu' = w /\ backupMu' = w
      BY <1>0, <1>b, <2>0, <2>2, <3>2
    <3>4. backupMu \in {None, w} /\ syncMu \in {None, w}
      BY <1>0, <1>b, <2>2, <3>2
    <3> QED BY <3>1, <3>3, <3>4
  <2> QED BY <2>1, <2>2
<1>10. ASSUME CreateSaved(w) PROVE LocksHeld'
  <2>1. CASE job[w].op = "backup"
    BY <1>0, <1>b, <1>d, <1>10, <2>1 DEF CreateSaved, Goto, Advance, JobRecord
  <2>2. CASE job[w].op # "backup"
    BY <1>0, <1>b, <1>d, <1>10, <2>2 DEF CreateSaved, Goto, Advance, JobRecord
  <2> QED BY <2>1, <2>2
<1>11. ASSUME CreateFails(w) PROVE LocksHeld'
  BY <1>0, <1>b, <1>c, <1>11 DEF CreateFails
<1>12. ASSUME LocalRetention(w) PROVE LocksHeld'
  BY <1>0, <1>b, <1>c, <1>12, Zenon DEF LocalRetention
<1>13. ASSUME Trim(w) PROVE LocksHeld'
  BY <1>0, <1>b, <1>c, <1>13 DEF Trim
<1>14. ASSUME TrimDone(w) PROVE LocksHeld'
  BY <1>0, <1>b, <1>c, <1>14 DEF TrimDone
<1>15. ASSUME NEW h \in Hashes, Sweep(w, h) PROVE LocksHeld'
  BY <1>0, <1>b, <1>c, <1>15 DEF Sweep
<1>16. ASSUME NEW h \in Hashes, SweepFails(w, h) PROVE LocksHeld'
  BY <1>0, <1>b, <1>c, <1>16 DEF SweepFails
<1>17. ASSUME SweepDone(w) PROVE LocksHeld'
  <2> HIDE Moves
  <2>1. CASE job[w].op = "backup"
    <3>1. Moved(w, {"trim"}) /\ job'[w].op = job[w].op
      <4>1. job' = [job EXCEPT ![w] = [job[w] EXCEPT !.pc = "trim"]]
        BY <1>17, <2>1 DEF SweepDone, Goto, Advance
      <4> QED BY <1>d, <4>1 DEF JobRecord
    <3> QED BY <1>0, <1>b, <1>17, <2>1, <3>1 DEF SweepDone
  <2>2. CASE job[w].op # "backup"
    <3>1. Moved(w, {"evict"}) /\ job'[w].op = job[w].op
      <4>1. job' = [job EXCEPT ![w] = [job[w] EXCEPT !.pc = "evict"]]
        BY <1>17, <2>2 DEF SweepDone, Goto, Advance
      <4> QED BY <1>d, <4>1 DEF JobRecord
    <3> QED BY <1>0, <1>b, <1>17, <2>2, <3>1 DEF SweepDone
  <2> QED BY <2>1, <2>2
<1>18. ASSUME SyncRefused(w) PROVE LocksHeld'
  BY <1>0, <1>b, <1>c, <1>18 DEF SyncRefused
<1>19. ASSUME MarkActive(w) PROVE LocksHeld'
  BY <1>0, <1>b, <1>c, <1>19 DEF MarkActive
<1>20. ASSUME PickUpload(w) PROVE LocksHeld'
  BY <1>0, <1>b, <1>c, <1>20 DEF PickUpload
<1>21. ASSUME NEW h \in Hashes, EnsureBlob(w, h) PROVE LocksHeld'
  BY <1>0, <1>b, <1>c, <1>21 DEF EnsureBlob
<1>22. ASSUME PutManifest(w) PROVE LocksHeld'
  BY <1>0, <1>b, <1>c, <1>22 DEF PutManifest
<1>23. ASSUME MarkSynced(w) PROVE LocksHeld'
  BY <1>0, <1>b, <1>c, <1>23, Zenon DEF MarkSynced
<1>24. ASSUME UploadFails(w) PROVE LocksHeld'
  BY <1>0, <1>b, <1>c, <1>24, Zenon DEF UploadFails
<1>25. ASSUME Unmark(w) PROVE LocksHeld'
  BY <1>0, <1>b, <1>c, <1>25, Zenon DEF Unmark
<1>26. ASSUME NEW g \in Games, ListExcess(w, g) PROVE LocksHeld'
  BY <1>0, <1>b, <1>c, <1>26, Zenon DEF ListExcess
<1>27. ASSUME SyncDone(w) PROVE LocksHeld'
  BY <1>0, <1>b, <1>c, <1>27 DEF SyncDone
<1>28. ASSUME Evict(w) PROVE LocksHeld'
  BY <1>0, <1>b, <1>c, <1>28 DEF Evict
<1>29. ASSUME EvictFails(w) PROVE LocksHeld'
  BY <1>0, <1>b, <1>c, <1>29 DEF EvictFails
<1>30. ASSUME EvictDone(w) PROVE LocksHeld'
  <2>1. /\ job'[w].pc \in {"idle", "list"}
        /\ job'[w].op = IF job'[w].pc = "idle" THEN "none" ELSE job[w].op
        /\ \A v \in Workers \ {w} : job'[v] = job[v]
    BY <1>30
  <2> HIDE LockStep, Moves
  <2>2. job[w].op = "delete" => job'[w].op = "none"
    BY <1>d, <1>30 DEF EvictDone, Return, Advance, Idle
  <2>3. job[w].op # "delete" => syncMu' = syncMu
    BY <1>30 DEF EvictDone
  <2>4. job'[w].op \in UsesR2 => syncMu' = w
    BY <1>0, <2>1, <2>2, <2>3
  <2>5. backupMu' = backupMu /\ (syncMu' = syncMu \/ syncMu = w)
    BY <1>b, <1>30 DEF EvictDone
  <2> QED BY <2>1, <2>4, <2>5, LockStep
<1>31. ASSUME Unlist(w) PROVE LocksHeld'
  BY <1>0, <1>b, <1>c, <1>31 DEF Unlist
<1>32. ASSUME UnlistFails(w) PROVE LocksHeld'
  BY <1>0, <1>b, <1>c, <1>32, Zenon DEF UnlistFails
<1>v. ASSUME NEW h \in Hashes, VerifyBlob(w, h) PROVE LocksHeld'
  BY <1>0, <1>b, <1>c, <1>v DEF VerifyBlob
<1>s. ASSUME NEW h \in Hashes, SwapBlob(w, h) PROVE LocksHeld'
  BY <1>0, <1>b, <1>c, <1>s DEF SwapBlob, SaveBlob
<1>33. ASSUME NEW h \in Hashes, FetchBlob(w, h) PROVE LocksHeld'
  BY <1>0, <1>b, <1>c, <1>33 DEF FetchBlob
<1>34. ASSUME RestoreFails(w) PROVE LocksHeld'
  BY <1>0, <1>b, <1>c, <1>34 DEF RestoreFails
<1>35. ASSUME RestoreBegin(w) PROVE LocksHeld'
  <2> HIDE Moves
  <2>1. CASE job[w].cur \in rows
    <3>1. Moved(w, {"store"}) /\ job'[w].op = job[w].op
      <4>1. PICK content \in Contents \cup {{}} :
              job' = [job EXCEPT ![w] = [job[w] EXCEPT !.pc = "store", !.content = content,
                                                       !.need = content]]
        BY <1>35, <2>1 DEF Advance, RestoreBegin, StartCreate
      <4> QED BY <1>d, <4>1 DEF JobRecord
    <3> QED BY <1>0, <1>b, <1>35, <2>1, <3>1 DEF RestoreBegin
  <2>2. CASE job[w].cur \notin rows
    BY <1>0, <1>b, <1>35, <2>2, AdvanceJob DEF RestoreBegin, Return, Idle
  <2> QED BY <2>1, <2>2
<1>36. ASSUME RestoreEnds(w) PROVE LocksHeld'
  BY <1>0, <1>b, <1>c, <1>36 DEF RestoreEnds
<1>37. ASSUME NEW s \in Ids, Examine(w, s) PROVE LocksHeld'
  BY <1>0, <1>b, <1>c, <1>37 DEF Examine
<1>38. ASSUME DownloadManifest(w) PROVE LocksHeld'
  BY <1>0, <1>b, <1>c, <1>38 DEF DownloadManifest
<1>39. ASSUME Import(w) PROVE LocksHeld'
  BY <1>0, <1>b, <1>c, <1>39, Zenon DEF Import
<1>40. ASSUME ReconcileEnds(w) PROVE LocksHeld'
  BY <1>0, <1>b, <1>c, <1>40 DEF ReconcileEnds
<1> HIDE LockStep, Moves
<1> QED
  BY <1>1, <1>2, <1>3, <1>4, <1>5, <1>6, <1>7, <1>8, <1>9, <1>10, <1>11, <1>12,
     <1>13, <1>14, <1>15, <1>16, <1>17, <1>18, <1>19, <1>20, <1>21, <1>22, <1>23, <1>24,
     <1>25, <1>26, <1>27, <1>28, <1>29, <1>30, <1>31, <1>32, <1>33, <1>34, <1>35, <1>36,
     <1>37, <1>38, <1>39, <1>40, <1>v, <1>s
  DEF Begin, Continue, Acquire

LEMMA LocksHeldInductive == TypeOK /\ LocksHeld /\ [Next]_vars => LocksHeld'
<1> SUFFICES ASSUME TypeOK, LocksHeld, [Next]_vars PROVE LocksHeld'
  OBVIOUS
<1>1. ASSUME Environment PROVE LocksHeld'
  BY <1>1 DEF Environment, OtherDevicePublishes, OtherDeviceDeletes, Crash, lockVars,
              LocksHeld, Guarded, UsesR2, Idle
<1>2. ASSUME UNCHANGED vars PROVE LocksHeld'
  BY <1>2 DEF LocksHeld, vars, lockVars
<1> QED BY <1>1, <1>2, WorkerKeepsLocks DEF Next

\* Whoever is inside a section holds its lock, so no two workers are: not two
\* of the sections that change local snapshots, and not two of the operations
\* that talk to R2.
THEOREM LocksHeldCorrect == Spec => []LocksHeld
<1>1. Init => LocksHeld
  BY DEF Init, LocksHeld, Idle, Guarded, UsesR2
<1>2. TypeOK /\ LocksHeld /\ [Next]_vars => LocksHeld'
  BY LocksHeldInductive
<1> QED BY <1>1, <1>2, TypeCorrect, PTL DEF Spec

-----------------------------------------------------------------------------
(***************************************************************************)
(* No return path keeps a lock.                                            *)
(***************************************************************************)
\* The converse of LocksHeld: a lock is held only by a worker that still needs
\* it.  With LocksHeld, each lock is held exactly when it is needed.
LocksReleased ==
  \A w \in Workers :
    /\ backupMu = w => job[w].pc \in Guarded
    /\ syncMu = w => job[w].op \in UsesR2

LEMMA ReleaseStep ==
  ASSUME LocksReleased, NEW w \in Workers,
         \A v \in Workers \ {w} : job'[v] = job[v],
         backupMu' \in {backupMu, w, None}, syncMu' \in {syncMu, w, None},
         backupMu' = w => job'[w].pc \in Guarded,
         syncMu' = w => job'[w].op \in UsesR2
  PROVE  LocksReleased'
  BY NoneAssumption DEF LocksReleased

\* A step that takes and releases nothing may not leave a guarded section, nor
\* end an operation that holds syncMu.
LEMMA QuietRelease ==
  ASSUME LocksReleased, NEW w \in Workers, UNCHANGED <<syncMu, backupMu>>, NEW steps, Moved(w, steps),
         "idle" \notin steps, job[w].pc \in Guarded => steps \subseteq Guarded
  PROVE  LocksReleased'
<1>1. job'[w].op = job[w].op /\ \A v \in Workers \ {w} : job'[v] = job[v]
  BY DEF Moved
<1>2. job[w].pc \in Guarded => job'[w].pc \in Guarded
  BY DEF Moved
<1>3. /\ backupMu = w => job[w].pc \in Guarded
      /\ syncMu = w => job[w].op \in UsesR2
  BY DEF LocksReleased
<1> QED BY <1>1, <1>2, <1>3, ReleaseStep

LEMMA QuietStepsRelease ==
  ASSUME TypeOK, LocksReleased, NEW w \in Workers,
         \/ \E h \in Hashes : \/ IndexFile(w, h) \/ Sweep(w, h) \/ SweepFails(w, h) \/ EnsureBlob(w, h)
                              \/ VerifyBlob(w, h) \/ FetchBlob(w, h) \/ SwapBlob(w, h)
         \/ Trim(w) \/ MarkActive(w) \/ PickUpload(w) \/ PutManifest(w) \/ MarkSynced(w) \/ UploadFails(w)
         \/ Unmark(w) \/ Evict(w) \/ EvictFails(w) \/ UnlistFails(w) \/ DownloadManifest(w) \/ Import(w)
         \/ \E g \in Games : ListExcess(w, g)
         \/ \E s \in Ids : Examine(w, s)
  PROVE  LocksReleased'
<1>1. UNCHANGED <<syncMu, backupMu>>
  BY DEF IndexFile, Sweep, SweepFails, EnsureBlob, VerifyBlob, FetchBlob, SwapBlob, Trim, MarkActive,
         PickUpload, PutManifest, MarkSynced, UploadFails, Unmark, Evict, EvictFails, UnlistFails,
         DownloadManifest, Import, ListExcess, Examine, lockVars
<1>2. CASE (\E h \in Hashes : Sweep(w, h) \/ SweepFails(w, h)) \/ Trim(w)
  <2>1. Moved(w, {"sweep"})
    BY <1>2, Moves
  <2> QED BY <1>1, <2>1, QuietRelease DEF Guarded
<1>3. CASE \E h \in Hashes : IndexFile(w, h)
  <2>1. Moved(w, {"store"})
    BY <1>3, Moves
  <2> QED BY <1>1, <2>1, QuietRelease DEF Guarded
<1>4. CASE \/ \E h \in Hashes : EnsureBlob(w, h) \/ VerifyBlob(w, h) \/ FetchBlob(w, h) \/ SwapBlob(w, h)
           \/ MarkActive(w) \/ PickUpload(w) \/ PutManifest(w) \/ MarkSynced(w) \/ UploadFails(w)
           \/ Unmark(w) \/ Evict(w) \/ EvictFails(w) \/ UnlistFails(w) \/ DownloadManifest(w) \/ Import(w)
           \/ \E g \in Games : ListExcess(w, g)
           \/ \E s \in Ids : Examine(w, s)
  <2> DEFINE steps == {"blobs", "fetch", "swap", "pick", "publish", "list", "unlist", "evict",
                       "examine", "download", "import"}
  <2>1. job[w].pc \notin Guarded
    BY <1>4 DEF EnsureBlob, VerifyBlob, FetchBlob, SwapBlob, MarkActive, PickUpload, PutManifest, MarkSynced,
           UploadFails, Unmark, Evict, EvictFails, UnlistFails, DownloadManifest, Import, ListExcess,
           Examine, At, Guarded
  <2>2. Moved(w, steps)
    <3>1. PICK some \in SUBSET steps : Moved(w, some)
      BY <1>4, Moves
    <3> QED BY <3>1 DEF Moved
  <2> QED BY <1>1, <2>1, <2>2, QuietRelease
<1> QED BY <1>2, <1>3, <1>4

\* The steps that take a lock.
LEMMA TakingStepsRelease ==
  ASSUME TypeOK, LocksReleased, NEW w \in Workers,
         Begin(w) \/ LocalRetention(w) \/ Unlist(w)
  PROVE  LocksReleased'
<1>1. job[w] \in Job /\ (backupMu = w => job[w].pc \in Guarded) /\ (syncMu = w => job[w].op \in UsesR2)
  BY DEF LocksReleased, TypeOK
<1>2. CASE \E g \in Games : Backup(w, g)
  <2>1. Started(w, "backup", "store") /\ At(w, "idle") /\ backupMu' = w /\ syncMu' = syncMu
    BY <1>2, Moves DEF Backup
  <2>2. syncMu # w
    BY <1>1, <2>1, OperationOfStep DEF At, UsesR2
  <2> QED BY <2>1, <2>2, ReleaseStep DEF Started, Guarded
<1>3. CASE \/ \E g \in Games : SyncGame(w, g)
           \/ SyncPending(w)
           \/ \E s \in Ids : Restore(w, s) \/ \E remoteToo \in BOOLEAN : DeleteSnapshot(w, s, remoteToo)
  <2>1. At(w, "idle") /\ syncMu' = w /\ backupMu' = backupMu
    BY <1>3 DEF SyncGame, SyncPending, Restore, DeleteSnapshot, TakeSyncMu
  <2>2. PICK op \in UsesR2, step \in {"mark", "fetch", "evict"} : Started(w, op, step)
    BY <1>3, Moves DEF UsesR2
  <2>3. backupMu # w
    BY <1>1, <2>1 DEF At, Guarded
  <2> QED BY <2>1, <2>2, <2>3, ReleaseStep DEF Started
<1>4. CASE ReconcileRemote(w)
  <2>1. Started(w, "reconcile", "examine") /\ At(w, "idle") /\ UNCHANGED <<syncMu, backupMu>>
    BY <1>4, Moves DEF ReconcileRemote, lockVars
  <2>2. backupMu # w /\ syncMu # w
    BY <1>1, <2>1, OperationOfStep DEF At, Guarded, UsesR2
  <2> QED BY <2>1, <2>2, ReleaseStep DEF Started
<1>5. CASE LocalRetention(w) \/ Unlist(w)
  <2>1. backupMu' = w /\ syncMu' = syncMu
    BY <1>5 DEF LocalRetention, Unlist
  <2>2. Moved(w, {"trim", "sweep"})
    <3>1. Moved(w, {"trim"}) \/ Moved(w, {"sweep"})
      BY <1>5, Moves
    <3> QED BY <3>1 DEF Moved
  <2>3. job'[w].pc \in Guarded /\ job'[w].op = job[w].op /\ \A v \in Workers \ {w} : job'[v] = job[v]
    BY <2>2 DEF Moved, Guarded
  <2> QED BY <1>1, <2>1, <2>3, ReleaseStep
<1> QED BY <1>2, <1>3, <1>4, <1>5 DEF Begin

\* The steps after which the operation returns, or goes on with fewer locks.
LEMMA ReturningStepsRelease ==
  ASSUME TypeOK, LocksReleased, NEW w \in Workers,
         \/ CreateSkipped(w) \/ CreateSaved(w) \/ CreateFails(w) \/ TrimDone(w) \/ SweepDone(w)
         \/ SyncRefused(w) \/ SyncDone(w) \/ EvictDone(w) \/ RestoreFails(w) \/ RestoreBegin(w)
         \/ RestoreEnds(w) \/ ReconcileEnds(w)
  PROVE  LocksReleased'
<1>1. job[w] \in Job /\ (backupMu = w => job[w].pc \in Guarded) /\ (syncMu = w => job[w].op \in UsesR2)
  BY DEF LocksReleased, TypeOK
<1>a. job \in [Workers -> JobRecord]
  BY DEF TypeOK, Job
<1>2. ASSUME Return(w), backupMu' \in {backupMu, w, None}, syncMu' \in {syncMu, w, None},
             backupMu' # w, syncMu' # w
      PROVE  LocksReleased'
  <2>1. \A v \in Workers \ {w} : job'[v] = job[v]
    BY <1>2, AdvanceJob DEF Return
  <2> QED BY <1>2, <2>1, ReleaseStep
<1>3. ASSUME NEW step \in Steps, step # "idle", Goto(w, step),
             backupMu' \in {backupMu, w, None}, syncMu' = syncMu, backupMu' = w => step \in Guarded
      PROVE  LocksReleased'
  <2>1. job'[w].pc = step /\ job'[w].op = job[w].op /\ \A v \in Workers \ {w} : job'[v] = job[v]
    BY <1>a, <1>3 DEF Goto, Advance, JobRecord
  <2> QED BY <1>1, <1>3, <2>1, ReleaseStep
<1>4. w # None
  BY NoneAssumption
<1>5. CASE CreateSkipped(w)
  <2>1. job[w].op = "backup" => syncMu # w
    BY <1>1 DEF UsesR2
  <2>2. CASE job[w].op = "backup"
    BY <1>2, <1>4, <1>5, <2>1, <2>2 DEF CreateSkipped
  <2>3. CASE job[w].op # "backup"
    BY <1>3, <1>5, <2>3 DEF CreateSkipped, Guarded, Steps
  <2> QED BY <2>2, <2>3
<1>6. CASE CreateSaved(w)
  <2>1. CASE job[w].op = "backup"
    BY <1>3, <1>4, <1>6, <2>1 DEF CreateSaved, Steps
  <2>2. CASE job[w].op # "backup"
    BY <1>3, <1>6, <2>2 DEF CreateSaved, Guarded, Steps
  <2> QED BY <2>1, <2>2
<1>7. CASE CreateFails(w)
  <2>1. job[w].op # "restore" => syncMu # w
    BY <1>1, <1>7, OperationOfStep DEF CreateFails, At, UsesR2
  <2> QED BY <1>2, <1>4, <1>7, <2>1 DEF CreateFails
<1>8. CASE TrimDone(w)
  <2>1. syncMu # w
    BY <1>1, <1>8, OperationOfStep DEF TrimDone, At, UsesR2
  <2> QED BY <1>2, <1>4, <1>8, <2>1 DEF TrimDone
<1>9. CASE SweepDone(w)
  <2>1. CASE job[w].op = "backup"
    BY <1>3, <1>9, <2>1 DEF SweepDone, Guarded, Steps
  <2>2. CASE job[w].op # "backup"
    BY <1>3, <1>4, <1>9, <2>2 DEF SweepDone, Steps
  <2> QED BY <2>1, <2>2
<1>10. CASE SyncRefused(w) \/ SyncDone(w) \/ RestoreFails(w)
  <2>1. backupMu # w
    BY <1>1, <1>10 DEF SyncRefused, SyncDone, RestoreFails, At, Guarded
  <2> QED BY <1>2, <1>4, <1>10, <2>1 DEF SyncRefused, SyncDone, RestoreFails
<1>11. CASE EvictDone(w)
  <2>1. backupMu # w /\ backupMu' = backupMu
    BY <1>1, <1>11 DEF EvictDone, At, Guarded
  <2>2. CASE job[w].op = "delete"
    BY <1>2, <1>4, <1>11, <2>1, <2>2 DEF EvictDone
  <2>3. CASE job[w].op # "delete"
    <3>1. Advance(w, [job[w] EXCEPT !.pc = "list", !.cur = 0, !.remote = {}]) /\ syncMu' = syncMu
      BY <1>11, <2>3 DEF EvictDone
    <3>2. job'[w].op = job[w].op /\ \A v \in Workers \ {w} : job'[v] = job[v]
      BY <1>a, <3>1 DEF Advance, JobRecord
    <3> QED BY <1>1, <2>1, <3>1, <3>2, ReleaseStep
  <2> QED BY <2>2, <2>3
<1>12. CASE RestoreBegin(w)
  <2>1. CASE job[w].cur \in rows
    <3>1. Moved(w, {"store"}) /\ backupMu' = w /\ syncMu' = syncMu
      <4>1. PICK content \in Contents \cup {{}} :
              job' = [job EXCEPT ![w] = [job[w] EXCEPT !.pc = "store", !.content = content,
                                                       !.need = content]]
        BY <1>12, <2>1 DEF Advance, RestoreBegin, StartCreate
      <4>2. Moved(w, {"store"})
        BY <1>a, <4>1 DEF Moved, JobRecord
      <4> QED BY <1>12, <2>1, <4>2 DEF RestoreBegin
    <3>2. job'[w].pc \in Guarded /\ job'[w].op = job[w].op /\ \A v \in Workers \ {w} : job'[v] = job[v]
      BY <3>1 DEF Moved, Guarded
    <3> QED BY <1>1, <3>1, <3>2, ReleaseStep
  <2>2. CASE job[w].cur \notin rows
    BY <1>2, <1>4, <1>12, <2>2 DEF RestoreBegin
  <2> QED BY <2>1, <2>2
<1>13. CASE RestoreEnds(w)
  BY <1>2, <1>4, <1>13 DEF RestoreEnds
<1>14. CASE ReconcileEnds(w)
  <2>1. backupMu # w /\ syncMu # w
    BY <1>1, <1>14, OperationOfStep DEF ReconcileEnds, Guarded, UsesR2
  <2> QED BY <1>2, <1>14, <2>1 DEF ReconcileEnds, lockVars
<1> QED
  BY <1>5, <1>6, <1>7, <1>8, <1>9, <1>10, <1>11, <1>12, <1>13, <1>14

LEMMA LocksReleasedInductive == TypeOK /\ LocksReleased /\ [Next]_vars => LocksReleased'
<1> SUFFICES ASSUME TypeOK, LocksReleased, [Next]_vars PROVE LocksReleased'
  OBVIOUS
<1>1. ASSUME Environment PROVE LocksReleased'
  BY <1>1, NoneAssumption
  DEF Environment, OtherDevicePublishes, OtherDeviceDeletes, Crash, lockVars, LocksReleased
<1>2. ASSUME UNCHANGED vars PROVE LocksReleased'
  BY <1>2 DEF LocksReleased, vars, lockVars
<1>3. ASSUME NEW w \in Workers, NEW h \in Hashes, StoreFile(w, h) PROVE LocksReleased'
  BY <1>3 DEF StoreFile, LocksReleased, lockVars
<1>4. ASSUME NEW w \in Workers, Begin(w) \/ Continue(w) \/ Acquire(w),
             ~ \E h \in Hashes : StoreFile(w, h)
      PROVE  LocksReleased'
  BY <1>4, QuietStepsRelease, TakingStepsRelease, ReturningStepsRelease DEF Continue, Acquire
<1> QED BY <1>1, <1>2, <1>3, <1>4 DEF Next

\* No return path keeps a lock, whatever failed: each lock is held by a worker
\* only at a step that needs it.  So the holder of backupMu waits for no lock,
\* and that of syncMu for backupMu at most: the two are never waited for in a
\* circle.
THEOREM LocksReleasedCorrect == Spec => []LocksReleased
<1>1. Init => LocksReleased
  BY NoneAssumption DEF Init, LocksReleased
<1>2. TypeOK /\ LocksReleased /\ [Next]_vars => LocksReleased'
  BY LocksReleasedInductive
<1> QED BY <1>1, <1>2, TypeCorrect, PTL DEF Spec

-----------------------------------------------------------------------------
(***************************************************************************)
(* What is visible in R2 is complete: the proof of RemoteComplete.         *)
(***************************************************************************)
\* Where worker w stands in an upload or an import: what it has sent of the
\* snapshot it works on is in R2, and that snapshot has its final contents.
TransferInv(w) ==
  /\ job[w].pc \in {"pick", "blobs", "publish"} => job[w].todo \cap Unused = {}
  /\ job[w].pc \in {"blobs", "publish"} =>
       /\ job[w].cur \notin Unused
       /\ files[job[w].cur] \ job[w].need \subseteq bucket
  /\ job[w].pc = "publish" => job[w].need = {}
  /\ job[w].pc = "import" =>
       /\ job[w].cur \notin Unused
       /\ files[job[w].cur] \subseteq bucket

\* The strengthening of RemoteComplete that every step preserves: the index
\* of uploaded blobs, which Upload trusts, is right, and so is the remote
\* state of the rows.
RemoteInv ==
  /\ RemoteComplete
  /\ uploaded \subseteq bucket
  /\ \A s \in synced : files[s] \subseteq bucket
  /\ (rows \cup manifests) \cap Unused = {}
  /\ \A w \in Workers : TransferInv(w)

\* A snapshot never changes its blobs, and R2 keeps blobs for good.
Grows ==
  /\ bucket \subseteq bucket'
  /\ \A s \in Ids \ Unused : files'[s] = files[s]

\* What others do does not disturb a transfer.
LEMMA TransferStays ==
  ASSUME TypeOK, NEW w \in Workers, TransferInv(w), Grows, job'[w] = job[w],
         files' \in [Ids -> SUBSET Hashes]
  PROVE  TransferInv(w)'
<1>1. job[w] \in Job
  BY DEF TypeOK
<1>2. job[w].todo \subseteq Ids
  BY <1>1 DEF Job, JobRecord
<1>3. job[w].pc \in {"blobs", "publish", "import"} => job[w].cur \in Ids
  BY <1>1 DEF Job
<1>4. Unused' \subseteq Unused
  BY DEF Unused, Grows
<1>5. job[w].pc \in {"blobs", "publish", "import"} /\ job[w].cur \notin Unused
        => files'[job[w].cur] = files[job[w].cur]
  BY <1>3 DEF Grows
<1> QED BY <1>2, <1>3, <1>4, <1>5 DEF TransferInv, Grows

\* A step of w preserves RemoteInv if what it adds is complete.
LEMMA RemoteStep ==
  ASSUME TypeOK, TypeOK', RemoteInv, NEW w \in Workers, Grows,
         \A v \in Workers \ {w} : job'[v] = job[v],
         TransferInv(w)',
         \A s \in (manifests' \ manifests) \cup (synced' \ synced) :
           s \notin Unused /\ files[s] \subseteq bucket',
         \A s \in rows' \ rows : files'[s] # {},
         uploaded' \subseteq bucket'
  PROVE  RemoteInv'
<1>1. Unused' \subseteq Unused /\ Unused \subseteq Ids
  BY DEF Unused, Grows, TypeOK, StoreTypeOK
<1>2. \A s \in rows \cup manifests : s \in Ids \ Unused /\ files'[s] = files[s]
  BY DEF RemoteInv, Grows, TypeOK, StoreTypeOK
<1>3. \A s \in (manifests' \ manifests) \cup (synced' \ synced) :
         s \in Ids \ Unused /\ files'[s] = files[s]
  BY DEF Grows, TypeOK, StoreTypeOK
<1>4. \A s \in manifests' \cup synced' : files'[s] \subseteq bucket'
  BY <1>2, <1>3 DEF RemoteInv, RemoteComplete, Grows, TypeOK, StoreTypeOK
<1>5. (rows' \cup manifests') \cap Unused' = {}
  BY <1>1, <1>2, <1>3 DEF Unused
<1>6. \A v \in Workers : TransferInv(v)'
  BY TransferStays DEF RemoteInv, TypeOK, StoreTypeOK
<1> QED BY <1>4, <1>5, <1>6 DEF RemoteInv, RemoteComplete

\* Most steps add nothing that R2 has to complete.
LEMMA RemoteQuiet ==
  ASSUME TypeOK, TypeOK', RemoteInv, NEW w \in Workers,
         \A v \in Workers \ {w} : job'[v] = job[v],
         job'[w].pc \notin {"pick", "blobs", "publish", "import"},
         rows' \subseteq rows, synced' \subseteq synced, uploaded' \subseteq uploaded,
         manifests' \subseteq manifests, bucket' = bucket, files' = files
  PROVE  RemoteInv'
<1>1. Grows /\ TransferInv(w)'
  BY DEF Grows, TransferInv
<1>2. uploaded' \subseteq bucket'
  BY DEF RemoteInv
<1> QED BY <1>1, <1>2, RemoteStep

LEMMA QuietSteps ==
  ASSUME TypeOK, TypeOK', RemoteInv, NEW w \in Workers,
         \/ \E g \in Games : Backup(w, g) \/ SyncGame(w, g) \/ ListExcess(w, g)
         \/ \E s \in Ids : Restore(w, s) \/ Examine(w, s)
                           \/ \E remoteToo \in BOOLEAN : DeleteSnapshot(w, s, remoteToo)
         \/ \E h \in Hashes : IndexFile(w, h) \/ Sweep(w, h) \/ SweepFails(w, h)
                              \/ VerifyBlob(w, h) \/ FetchBlob(w, h) \/ SwapBlob(w, h)
         \/ SyncPending(w) \/ CreateSkipped(w) \/ CreateFails(w) \/ LocalRetention(w)
         \/ Trim(w) \/ TrimDone(w) \/ SweepDone(w) \/ SyncRefused(w) \/ Unmark(w)
         \/ SyncDone(w) \/ Evict(w) \/ EvictFails(w) \/ EvictDone(w) \/ Unlist(w)
         \/ UnlistFails(w) \/ RestoreFails(w) \/ RestoreBegin(w) \/ RestoreEnds(w)
         \/ ReconcileRemote(w) \/ ReconcileEnds(w)
  PROVE  RemoteInv'
<1> USE Moves, RemoteQuiet
    DEF storeVars, tableVars, blobVars, bucketVars, lockVars, Moved, Started
<1>1. ASSUME NEW g \in Games, Backup(w, g) PROVE RemoteInv'
  BY <1>1, Zenon DEF Backup
<1>2. ASSUME NEW g \in Games, SyncGame(w, g) PROVE RemoteInv'
  BY <1>2, Zenon DEF SyncGame
<1>3. ASSUME SyncPending(w) PROVE RemoteInv'
  <2>1. Started(w, "syncPending", "mark")
    BY <1>3
  <2>2. UNCHANGED <<storeVars, bucketVars>>
    BY <1>3 DEF SyncPending
  <2> HIDE Moves
  <2> QED BY <2>1, <2>2
<1>4. ASSUME NEW s \in Ids, Restore(w, s) PROVE RemoteInv'
  BY <1>4, Zenon DEF Restore
<1>5. ASSUME NEW s \in Ids, NEW remoteToo \in BOOLEAN, DeleteSnapshot(w, s, remoteToo) PROVE RemoteInv'
  BY <1>5, Zenon DEF DeleteSnapshot
<1>6. ASSUME ReconcileRemote(w) PROVE RemoteInv'
  <2>1. Started(w, "reconcile", "examine")
    BY <1>6
  <2>2. UNCHANGED <<storeVars, bucketVars>>
    BY <1>6 DEF ReconcileRemote
  <2> HIDE Moves
  <2> QED BY <2>1, <2>2
<1>7. ASSUME NEW h \in Hashes, IndexFile(w, h) PROVE RemoteInv'
  BY <1>7 DEF IndexFile, SaveBlob
<1>8. ASSUME CreateSkipped(w) PROVE RemoteInv'
  BY <1>8 DEF CreateSkipped
<1>9. ASSUME CreateFails(w) PROVE RemoteInv'
  BY <1>9 DEF CreateFails
<1>10. ASSUME LocalRetention(w) PROVE RemoteInv'
  BY <1>10, Zenon DEF LocalRetention
<1>11. ASSUME Trim(w) PROVE RemoteInv'
  BY <1>11, Zenon DEF Trim, DeleteSnapshotRow, DeleteRow
<1>12. ASSUME TrimDone(w) PROVE RemoteInv'
  BY <1>12 DEF TrimDone
<1>13. ASSUME NEW h \in Hashes, Sweep(w, h) PROVE RemoteInv'
  BY <1>13 DEF Sweep, RemoveOrphanBlob
<1>14. ASSUME NEW h \in Hashes, SweepFails(w, h) PROVE RemoteInv'
  BY <1>14, Zenon DEF SweepFails
<1>15. ASSUME SweepDone(w) PROVE RemoteInv'
  BY <1>15 DEF SweepDone
<1>16. ASSUME SyncRefused(w) PROVE RemoteInv'
  BY <1>16 DEF SyncRefused
<1>17. ASSUME Unmark(w) PROVE RemoteInv'
  BY <1>17, Zenon DEF Unmark
<1>18. ASSUME NEW g \in Games, ListExcess(w, g) PROVE RemoteInv'
  BY <1>18, Zenon DEF ListExcess
<1>19. ASSUME SyncDone(w) PROVE RemoteInv'
  BY <1>19 DEF SyncDone
<1>20. ASSUME Evict(w) PROVE RemoteInv'
  BY <1>20, Zenon DEF Evict
<1>21. ASSUME EvictFails(w) PROVE RemoteInv'
  BY <1>21 DEF EvictFails
<1>22. ASSUME EvictDone(w) PROVE RemoteInv'
  BY <1>22, Zenon DEF EvictDone
<1>23. ASSUME Unlist(w) PROVE RemoteInv'
  BY <1>23, Zenon DEF Unlist, DeleteSnapshotRow, DeleteRow
<1>24. ASSUME UnlistFails(w) PROVE RemoteInv'
  BY <1>24, Zenon DEF UnlistFails
<1>v. ASSUME NEW h \in Hashes, VerifyBlob(w, h) PROVE RemoteInv'
  BY <1>v DEF VerifyBlob
<1>s. ASSUME NEW h \in Hashes, SwapBlob(w, h) PROVE RemoteInv'
  BY <1>s DEF SwapBlob, SaveBlob
<1>25. ASSUME NEW h \in Hashes, FetchBlob(w, h) PROVE RemoteInv'
  BY <1>25 DEF FetchBlob
<1>26. ASSUME RestoreFails(w) PROVE RemoteInv'
  BY <1>26 DEF RestoreFails
<1>27. ASSUME RestoreBegin(w) PROVE RemoteInv'
  BY <1>27 DEF RestoreBegin
<1>28. ASSUME RestoreEnds(w) PROVE RemoteInv'
  BY <1>28 DEF RestoreEnds
<1>29. ASSUME NEW s \in Ids, Examine(w, s) PROVE RemoteInv'
  BY <1>29, Zenon DEF Examine
<1>30. ASSUME ReconcileEnds(w) PROVE RemoteInv'
  BY <1>30 DEF ReconcileEnds
<1> HIDE Moves, RemoteQuiet
<1> QED
  BY <1>1, <1>2, <1>3, <1>4, <1>5, <1>6, <1>7, <1>8, <1>9, <1>10, <1>11, <1>12,
     <1>13, <1>14, <1>15, <1>16, <1>17, <1>18, <1>19, <1>20, <1>21, <1>22, <1>23, <1>24,
     <1>25, <1>26, <1>27, <1>28, <1>29, <1>30, <1>v, <1>s

\* The steps of an upload, of an import and of the creation of a snapshot.
LEMMA TransferSteps ==
  ASSUME TypeOK, TypeOK', RemoteInv, NEW w \in Workers,
         \/ \E h \in Hashes : StoreFile(w, h) \/ EnsureBlob(w, h)
         \/ CreateSaved(w) \/ MarkActive(w) \/ PickUpload(w) \/ PutManifest(w)
         \/ MarkSynced(w) \/ UploadFails(w) \/ DownloadManifest(w) \/ Import(w)
  PROVE  RemoteInv'
<1> USE DEF storeVars, tableVars, blobVars, bucketVars, lockVars, At
<1>0. /\ job \in [Workers -> JobRecord]
      /\ files \in [Ids -> SUBSET Hashes]
      /\ TransferInv(w)
  BY DEF TypeOK, StoreTypeOK, Job, RemoteInv
<1>1. ASSUME NEW h \in Hashes, StoreFile(w, h) PROVE RemoteInv'
  BY <1>0, <1>1, RemoteStep DEF StoreFile, Grows, RemoteInv, TransferInv, Unused
<1>2. ASSUME NEW h \in Hashes, EnsureBlob(w, h) PROVE RemoteInv'
  <2>1. job' = [job EXCEPT ![w] = [job[w] EXCEPT !.need = @ \ {h}]]
    BY <1>2 DEF EnsureBlob, Advance
  <2>2. job'[w].pc = "blobs" /\ job'[w].cur = job[w].cur /\ job'[w].need = job[w].need \ {h}
    BY <1>0, <1>2, <2>1 DEF EnsureBlob, JobRecord
  <2>3. /\ \A v \in Workers \ {w} : job'[v] = job[v]
        /\ job'[w].todo = job[w].todo
    BY <1>0, <2>1 DEF JobRecord
  <2>4. h \in bucket' /\ bucket \subseteq bucket' /\ uploaded' \subseteq bucket' /\ files' = files
    BY <1>2 DEF EnsureBlob, RemoteInv
  <2>5. TransferInv(w)'
    BY <1>0, <1>2, <2>2, <2>3, <2>4 DEF EnsureBlob, TransferInv, Unused
  <2> QED BY <1>2, <2>3, <2>4, <2>5, RemoteStep DEF EnsureBlob, Grows
<1>3. ASSUME CreateSaved(w) PROVE RemoteInv'
  <2>1. Moved(w, {"relock", "stage"})
    BY <1>3, Moves
  <2>2. PICK s \in Unused : SaveSnapshot(s, job[w].game, job[w].content)
    BY <1>3 DEF CreateSaved, Oldest
  <2>3. job[w].content # {}
    BY <1>3 DEF CreateSaved, SkipCreate
  <2>4. Grows /\ \A t \in rows' \ rows : files'[t] # {}
    BY <1>0, <1>3, <2>2, <2>3 DEF CreateSaved, SaveSnapshot, Allocate, Grows, Unused
  <2>5. TransferInv(w)'
    BY <2>1 DEF Moved, TransferInv
  <2>6. uploaded' \subseteq bucket' /\ manifests' = manifests /\ synced' = synced
    BY <1>3, <2>2 DEF CreateSaved, SaveSnapshot, RemoteInv
  <2> QED BY <2>1, <2>4, <2>5, <2>6, RemoteStep DEF Moved
<1>4. ASSUME MarkActive(w) PROVE RemoteInv'
  <2>1. Moved(w, {"pick"})
    BY <1>4, Moves
  <2>2. job'[w].todo \subseteq rows
    <3>1. PICK games : Advance(w, [job[w] EXCEPT
                         !.pc = "pick",
                         !.todo = PendingSnapshots(games),
                         !.retain = IF job[w].op = "syncGame" THEN {job[w].game} ELSE {}])
      BY <1>4 DEF MarkActive
    <3>2. job'[w].todo = PendingSnapshots(games)
      BY <1>0, <3>1 DEF Advance, JobRecord
    <3> QED BY <3>2 DEF PendingSnapshots
  <2>3. job'[w].todo \cap Unused' = {}
    BY <1>4, <2>2 DEF MarkActive, RemoteInv, Unused
  <2>4. TransferInv(w)'
    BY <2>1, <2>3 DEF Moved, TransferInv
  <2> QED BY <1>4, <2>1, <2>4, RemoteStep DEF Moved, MarkActive, Grows, RemoteInv
<1>5. ASSUME PickUpload(w) PROVE RemoteInv'
  <2>1. Moved(w, {"blobs"})
    BY <1>5, Moves
  <2>2. PICK s \in job[w].todo :
          job' = [job EXCEPT ![w] = [job[w] EXCEPT !.pc = "blobs", !.cur = s, !.need = files[s]]]
    BY <1>5 DEF PickUpload, Oldest, Remaining, Advance
  <2>3. /\ job'[w].todo = job[w].todo /\ job'[w].cur = s /\ job'[w].need = files[s]
    BY <1>0, <2>2 DEF JobRecord
  <2>4. TransferInv(w)'
    BY <1>0, <1>5, <2>1, <2>3 DEF Moved, TransferInv, PickUpload, Unused
  <2> QED BY <1>5, <2>1, <2>4, RemoteStep DEF Moved, PickUpload, Grows, RemoteInv
<1>6. ASSUME PutManifest(w) PROVE RemoteInv'
  <2>1. Moved(w, {"publish"})
    BY <1>6, Moves
  <2>2. /\ job'[w].todo = job[w].todo /\ job'[w].cur = job[w].cur
        /\ job'[w].need = job[w].need
    BY <1>0, <1>6 DEF PutManifest, Goto, Advance, JobRecord
  <2>3. job[w].cur \notin Unused /\ files[job[w].cur] \subseteq bucket
    BY <1>0, <1>6 DEF PutManifest, TransferInv
  <2>4. TransferInv(w)'
    BY <1>0, <1>6, <2>1, <2>2 DEF Moved, TransferInv, PutManifest, Unused
  <2> QED BY <1>6, <2>1, <2>3, <2>4, RemoteStep DEF Moved, PutManifest, Grows, RemoteInv
<1>7. ASSUME MarkSynced(w) PROVE RemoteInv'
  <2>1. Moved(w, {"pick"})
    BY <1>7, Moves
  <2>2. job'[w].todo = job[w].todo
    BY <1>0, <1>7 DEF MarkSynced, Advance, JobRecord
  <2>3. job[w].cur \notin Unused /\ files[job[w].cur] \subseteq bucket
    BY <1>0, <1>7 DEF MarkSynced, TransferInv
  <2>4. TransferInv(w)'
    BY <1>0, <1>7, <2>1, <2>2 DEF Moved, TransferInv, MarkSynced, MarkSnapshotRemote, Unused
  <2> QED BY <1>7, <2>1, <2>3, <2>4, RemoteStep
          DEF Moved, MarkSynced, MarkSnapshotRemote, Grows, RemoteInv
<1>8. ASSUME UploadFails(w) PROVE RemoteInv'
  <2>1. Moved(w, {"pick"})
    BY <1>8, Moves
  <2>2. job'[w].todo = job[w].todo
    BY <1>0, <1>8 DEF UploadFails, Advance, JobRecord
  <2>3. /\ bucket \subseteq bucket'
        /\ \A s \in manifests' \ manifests : s \notin Unused /\ files[s] \subseteq bucket
    BY <1>0, <1>8 DEF UploadFails, TransferInv
  <2>4. TransferInv(w)'
    BY <1>0, <1>8, <2>1, <2>2 DEF Moved, TransferInv, UploadFails, Unused
  <2> QED BY <1>8, <2>1, <2>3, <2>4, RemoteStep DEF Moved, UploadFails, Grows, RemoteInv
<1>9. ASSUME DownloadManifest(w) PROVE RemoteInv'
  <2>1. Moved(w, {"import"})
    BY <1>9, Moves
  <2>2. job'[w].cur = job[w].cur
    BY <1>0, <1>9 DEF DownloadManifest, Goto, Advance, JobRecord
  <2>3. TransferInv(w)'
    BY <1>9, <2>1, <2>2 DEF Moved, TransferInv, DownloadManifest, RemoteInv, RemoteComplete, Unused
  <2> QED BY <1>9, <2>1, <2>3, RemoteStep DEF Moved, DownloadManifest, Grows, RemoteInv
<1>10. ASSUME Import(w) PROVE RemoteInv'
  <2>1. Moved(w, {"examine"})
    BY <1>10, Moves
  <2>2. job[w].cur \in Ids \ Unused /\ files[job[w].cur] \subseteq bucket
    BY <1>0, <1>10 DEF Import, TransferInv, TypeOK, Job
  <2>3. TransferInv(w)'
    BY <2>1 DEF Moved, TransferInv
  <2>4. files[job[w].cur] # {}
    BY <2>2 DEF Unused
  <2> QED BY <1>10, <2>1, <2>2, <2>3, <2>4, RemoteStep
          DEF Moved, Import, ImportSnapshot, Grows, RemoteInv
<1> QED BY <1>1, <1>2, <1>3, <1>4, <1>5, <1>6, <1>7, <1>8, <1>9, <1>10

\* Another device publishes complete snapshots under identifiers of its own.
LEMMA EnvironmentKeepsRemote ==
  ASSUME TypeOK, TypeOK', RemoteInv, Environment
  PROVE  RemoteInv'
<1> USE DEF storeVars, tableVars, blobVars, bucketVars, lockVars
<1>1. ASSUME NEW s \in Ids, NEW g \in Games, NEW content \in Contents,
             OtherDevicePublishes(s, g, content)
      PROVE  RemoteInv'
  <2>1. files' = [files EXCEPT ![s] = content] /\ s \in Unused /\ content # {}
    BY <1>1, ContentsAssumption DEF OtherDevicePublishes, Allocate
  <2>2. Grows
    BY <1>1, <2>1 DEF OtherDevicePublishes, Grows, Unused, TypeOK, StoreTypeOK
  <2>3. \A v \in Workers : TransferInv(v)'
    BY <1>1, <2>2, TransferStays
    DEF OtherDevicePublishes, RemoteInv, TypeOK, StoreTypeOK
  <2>4. s \notin rows \cup manifests /\ rows \subseteq Ids /\ manifests \subseteq Ids
    BY <2>1 DEF RemoteInv, TypeOK, StoreTypeOK
  <2>5. files'[s] = content /\ \A t \in rows \cup manifests : files'[t] = files[t]
    BY <2>1, <2>4 DEF TypeOK, StoreTypeOK, Unused
  <2>6. RemoteComplete' /\ \A t \in synced' : files'[t] \subseteq bucket'
    BY <1>1, <2>5 DEF OtherDevicePublishes, RemoteInv, RemoteComplete, TypeOK, StoreTypeOK
  <2>7. (rows' \cup manifests') \cap Unused' = {}
    BY <1>1, <2>1, <2>4, <2>5 DEF OtherDevicePublishes, RemoteInv, Unused
  <2> QED BY <1>1, <2>3, <2>6, <2>7 DEF OtherDevicePublishes, RemoteInv
<1>2. ASSUME NEW s \in Ids, OtherDeviceDeletes(s) PROVE RemoteInv'
  BY <1>2 DEF OtherDeviceDeletes, RemoteInv, RemoteComplete, TransferInv, Unused
<1>3. ASSUME Crash PROVE RemoteInv'
  <2>1. \A v \in Workers : TransferInv(v)'
    BY <1>3 DEF Crash, TransferInv, Idle
  <2> QED BY <1>3, <2>1 DEF Crash, RemoteInv, RemoteComplete, Unused
<1> QED BY <1>1, <1>2, <1>3 DEF Environment

LEMMA RemoteInvInductive ==
  TypeOK /\ TypeOK' /\ RemoteInv /\ [Next]_vars => RemoteInv'
<1> SUFFICES ASSUME TypeOK, TypeOK', RemoteInv, [Next]_vars PROVE RemoteInv'
  OBVIOUS
<1>1. ASSUME NEW w \in Workers, Begin(w) \/ Continue(w) \/ Acquire(w) PROVE RemoteInv'
  BY <1>1, QuietSteps, TransferSteps DEF Begin, Continue, Acquire
<1>2. ASSUME UNCHANGED vars PROVE RemoteInv'
  BY <1>2 DEF RemoteInv, RemoteComplete, TransferInv, Unused, vars, storeVars, bucketVars, lockVars
<1> QED BY <1>1, <1>2, EnvironmentKeepsRemote DEF Next

LEMMA InitRemoteInv == Init => RemoteInv
  BY DEF Init, StoreInit, RemoteInv, RemoteComplete, TransferInv, Idle, Unused

\* A manifest is in R2 only while every blob it names is: whatever fails,
\* crashes or runs beside the upload, and whatever the index of uploaded
\* blobs let it skip.
THEOREM RemoteCompleteCorrect == Spec => []RemoteComplete
<1>1. Init => RemoteInv
  BY InitRemoteInv
<1>2. TypeOK /\ TypeOK' /\ RemoteInv /\ [Next]_vars => RemoteInv'
  BY RemoteInvInductive
<1>3. RemoteInv => RemoteComplete
  BY DEF RemoteInv
<1> QED BY <1>1, <1>2, <1>3, TypeCorrect, PTL DEF Spec

-----------------------------------------------------------------------------
(***************************************************************************)
(* What the library keeps: the proofs of SnapshotsRestorable and           *)
(* RetentionKeepsRecent.                                                   *)
(***************************************************************************)
(* No snapshot of the library loses data.                                  *)

\* The blobs that the creation of a snapshot has stored stay until its row
\* refers to them.
StoredInv(w) ==
  At(w, "store") => \A h \in job[w].content \ job[w].need : Readable(h)

\* Together with RemoteInv, which covers the synced snapshots, this makes
\* SnapshotsRestorable inductive.
LocalInv ==
  /\ \A s \in rows \ synced : \A h \in files[s] : Readable(h)
  /\ \A w \in Workers : StoredInv(w)

\* A step that removes no blob and adds no unsynced row.
LEMMA LocalStep ==
  ASSUME TypeOK, RemoteInv, LocalInv, NEW w \in Workers,
         \A v \in Workers \ {w} : job'[v] = job[v],
         blobs \subseteq blobs', disk \subseteq disk',
         files' = files, rows' \ synced' \subseteq rows \ synced,
         StoredInv(w)'
  PROVE  LocalInv'
<1>1. \A h : Readable(h) => Readable(h)'
  BY DEF Readable
<1>2. \A v \in Workers \ {w} : StoredInv(v)'
  BY <1>1 DEF LocalInv, StoredInv, At
<1> QED BY <1>1, <1>2 DEF LocalInv

\* Most steps lead to one that has stored nothing.
LEMMA LocalQuiet ==
  ASSUME TypeOK, RemoteInv, LocalInv, NEW w \in Workers,
         \A v \in Workers \ {w} : job'[v] = job[v],
         job'[w].pc # "store",
         blobs \subseteq blobs', disk \subseteq disk',
         files' = files, rows' \ synced' \subseteq rows \ synced
  PROVE  LocalInv'
<1>1. StoredInv(w)'
  BY DEF StoredInv, At
<1> QED BY <1>1, LocalStep

LEMMA LocalQuietSteps ==
  ASSUME ~SwapStops, TypeOK, RemoteInv, LocalInv, NEW w \in Workers,
         \/ \E g \in Games : SyncGame(w, g) \/ ListExcess(w, g)
         \/ \E s \in Ids : Restore(w, s) \/ Examine(w, s)
                           \/ \E remoteToo \in BOOLEAN : DeleteSnapshot(w, s, remoteToo)
         \/ \E h \in Hashes : SweepFails(w, h) \/ EnsureBlob(w, h)
                              \/ VerifyBlob(w, h) \/ FetchBlob(w, h) \/ SwapBlob(w, h)
         \/ SyncPending(w) \/ CreateSkipped(w) \/ CreateFails(w) \/ LocalRetention(w)
         \/ Trim(w) \/ TrimDone(w) \/ SweepDone(w) \/ SyncRefused(w) \/ MarkActive(w)
         \/ PickUpload(w) \/ PutManifest(w) \/ MarkSynced(w) \/ UploadFails(w) \/ Unmark(w)
         \/ SyncDone(w) \/ Evict(w) \/ EvictFails(w) \/ EvictDone(w) \/ Unlist(w)
         \/ UnlistFails(w) \/ RestoreFails(w) \/ RestoreEnds(w) \/ ReconcileRemote(w)
         \/ DownloadManifest(w) \/ Import(w) \/ ReconcileEnds(w)
  PROVE  LocalInv'
<1>1. ASSUME NEW g \in Games, SyncGame(w, g) PROVE LocalInv'
  <2>1. Started(w, "syncGame", "mark") /\ UNCHANGED storeVars
    BY <1>1, Moves DEF SyncGame
  <2> QED BY <2>1, LocalQuiet DEF Started, storeVars
<1>2. ASSUME SyncPending(w) PROVE LocalInv'
  <2>1. Started(w, "syncPending", "mark") /\ UNCHANGED storeVars
    BY <1>2, Moves DEF SyncPending
  <2> QED BY <2>1, LocalQuiet DEF Started, storeVars
<1>3. ASSUME NEW s \in Ids, Restore(w, s) PROVE LocalInv'
  <2>1. Started(w, "restore", "fetch") /\ UNCHANGED storeVars
    BY <1>3, Moves DEF Restore
  <2> QED BY <2>1, LocalQuiet DEF Started, storeVars
<1>4. ASSUME NEW s \in Ids, NEW remoteToo \in BOOLEAN, DeleteSnapshot(w, s, remoteToo) PROVE LocalInv'
  <2>1. Started(w, "delete", "evict") /\ UNCHANGED storeVars
    BY <1>4, Moves DEF DeleteSnapshot
  <2> QED BY <2>1, LocalQuiet DEF Started, storeVars
<1>5. ASSUME ReconcileRemote(w) PROVE LocalInv'
  <2>1. Started(w, "reconcile", "examine") /\ UNCHANGED storeVars
    BY <1>5, Moves DEF ReconcileRemote
  <2> QED BY <2>1, LocalQuiet DEF Started, storeVars
<1> USE Moves, LocalQuiet
    DEF storeVars, tableVars, blobVars, bucketVars, lockVars, Moved, At
<1>6. ASSUME CreateSkipped(w) PROVE LocalInv'
  BY <1>6 DEF CreateSkipped
<1>7. ASSUME CreateFails(w) PROVE LocalInv'
  BY <1>7 DEF CreateFails
<1>8. ASSUME LocalRetention(w) PROVE LocalInv'
  BY <1>8, Zenon DEF LocalRetention
<1>9. ASSUME Trim(w) PROVE LocalInv'
  BY <1>9, Zenon DEF Trim, DeleteSnapshotRow, DeleteRow
<1>10. ASSUME TrimDone(w) PROVE LocalInv'
  BY <1>10 DEF TrimDone
<1>11. ASSUME NEW h \in Hashes, SweepFails(w, h) PROVE LocalInv'
  BY <1>11, Zenon DEF SweepFails
<1>12. ASSUME SweepDone(w) PROVE LocalInv'
  BY <1>12 DEF SweepDone
<1>13. ASSUME SyncRefused(w) PROVE LocalInv'
  BY <1>13 DEF SyncRefused
<1>14. ASSUME MarkActive(w) PROVE LocalInv'
  BY <1>14, Zenon DEF MarkActive
<1>15. ASSUME PickUpload(w) PROVE LocalInv'
  BY <1>15, Zenon DEF PickUpload
<1>16. ASSUME NEW h \in Hashes, EnsureBlob(w, h) PROVE LocalInv'
  BY <1>16 DEF EnsureBlob
<1>17. ASSUME PutManifest(w) PROVE LocalInv'
  BY <1>17 DEF PutManifest
<1>18. ASSUME MarkSynced(w) PROVE LocalInv'
  BY <1>18, Zenon DEF MarkSynced, MarkSnapshotRemote
<1>19. ASSUME UploadFails(w) PROVE LocalInv'
  BY <1>19, Zenon DEF UploadFails
<1>20. ASSUME Unmark(w) PROVE LocalInv'
  BY <1>20, Zenon DEF Unmark
<1>21. ASSUME NEW g \in Games, ListExcess(w, g) PROVE LocalInv'
  BY <1>21, Zenon DEF ListExcess
<1>22. ASSUME SyncDone(w) PROVE LocalInv'
  BY <1>22 DEF SyncDone
<1>23. ASSUME Evict(w) PROVE LocalInv'
  BY <1>23, Zenon DEF Evict
<1>24. ASSUME EvictFails(w) PROVE LocalInv'
  BY <1>24 DEF EvictFails
<1>25. ASSUME EvictDone(w) PROVE LocalInv'
  BY <1>25, Zenon DEF EvictDone
<1>26. ASSUME Unlist(w) PROVE LocalInv'
  BY <1>26, Zenon DEF Unlist, DeleteSnapshotRow, DeleteRow
<1>27. ASSUME UnlistFails(w) PROVE LocalInv'
  BY <1>27, Zenon DEF UnlistFails
<1>v. ASSUME NEW h \in Hashes, VerifyBlob(w, h) PROVE LocalInv'
  BY <1>v DEF VerifyBlob
<1>s. ASSUME NEW h \in Hashes, SwapBlob(w, h) PROVE LocalInv'
  BY <1>s DEF SwapBlob, SaveBlob
<1>28. ASSUME NEW h \in Hashes, FetchBlob(w, h) PROVE LocalInv'
  BY <1>28 DEF FetchBlob
<1>29. ASSUME RestoreFails(w) PROVE LocalInv'
  BY <1>29 DEF RestoreFails
<1>30. ASSUME RestoreEnds(w) PROVE LocalInv'
  BY <1>30 DEF RestoreEnds
<1>31. ASSUME NEW s \in Ids, Examine(w, s) PROVE LocalInv'
  BY <1>31, Zenon DEF Examine
<1>32. ASSUME DownloadManifest(w) PROVE LocalInv'
  BY <1>32 DEF DownloadManifest
<1>33. ASSUME Import(w) PROVE LocalInv'
  BY <1>33, Zenon DEF Import, ImportSnapshot
<1>34. ASSUME ReconcileEnds(w) PROVE LocalInv'
  BY <1>34 DEF ReconcileEnds
<1> HIDE Moves, LocalQuiet
<1> QED
  BY <1>1, <1>2, <1>3, <1>4, <1>5, <1>6, <1>7, <1>8, <1>9, <1>10, <1>11, <1>12,
     <1>13, <1>14, <1>15, <1>16, <1>17, <1>18, <1>19, <1>20, <1>21, <1>22, <1>23, <1>24,
     <1>25, <1>26, <1>27, <1>28, <1>29, <1>30, <1>31, <1>32, <1>33, <1>34, <1>v, <1>s

\* A creation starts with nothing stored.
LEMMA StartCreateStored ==
  ASSUME TypeOK, NEW w \in Workers, NEW start \in JobRecord, StartCreate(w, start)
  PROVE  StoredInv(w)'
<1>1. PICK content \in Contents \cup {{}} :
        Advance(w, [start EXCEPT !.pc = "store", !.content = content, !.need = content])
  BY DEF StartCreate
<1>2. job'[w] = [start EXCEPT !.pc = "store", !.content = content, !.need = content]
  BY <1>1 DEF TypeOK, Advance
<1>3. job'[w].content = content /\ job'[w].need = content
  BY <1>2 DEF JobRecord
<1> QED BY <1>3 DEF StoredInv

\* The creation of a snapshot, and the removal of orphans, which only its
\* exclusion from creation makes harmless.
LEMMA LocalSteps ==
  ASSUME TypeOK, RemoteInv, LocksHeld, LocalInv, NEW w \in Workers,
         \/ \E g \in Games : Backup(w, g)
         \/ \E h \in Hashes : StoreFile(w, h) \/ IndexFile(w, h) \/ Sweep(w, h)
         \/ CreateSaved(w) \/ RestoreBegin(w)
  PROVE  LocalInv'
<1> USE DEF storeVars, tableVars, blobVars, bucketVars, lockVars
<1>0. job \in [Workers -> JobRecord]
  BY DEF TypeOK, Job
<1>1. ASSUME NEW g \in Games, Backup(w, g) PROVE LocalInv'
  <2>1. [Idle EXCEPT !.op = "backup", !.game = g] \in JobRecord
    BY IdleIsJob DEF Idle, Job, JobRecord, Operations
  <2>2. StoredInv(w)'
    BY <1>1, <2>1, StartCreateStored DEF Backup
  <2>3. Started(w, "backup", "store") /\ UNCHANGED storeVars
    BY <1>1, Moves DEF Backup
  <2> QED BY <2>2, <2>3, LocalStep DEF Started
<1>2. ASSUME NEW h \in Hashes, StoreFile(w, h) PROVE LocalInv'
  BY <1>2 DEF StoreFile, LocalInv, StoredInv, Readable, At
<1>3. ASSUME NEW h \in Hashes, IndexFile(w, h) PROVE LocalInv'
  <2>1. Moved(w, {"store"})
    BY <1>3, Moves
  <2>2. job'[w].content = job[w].content /\ job'[w].need = job[w].need \ {h}
    BY <1>0, <1>3 DEF IndexFile, Advance, JobRecord
  <2>3. blobs' = blobs \cup {h} /\ disk' = disk /\ h \in disk
    BY <1>3 DEF IndexFile, SaveBlob
  <2>4. \A k \in job[w].content \ job[w].need : Readable(k)
    BY <1>3 DEF IndexFile, LocalInv, StoredInv
  <2>5. StoredInv(w)'
    BY <2>2, <2>3, <2>4 DEF StoredInv, Readable
  <2> QED BY <1>3, <2>1, <2>3, <2>5, LocalStep DEF Moved, IndexFile, SaveBlob
<1>4. ASSUME CreateSaved(w) PROVE LocalInv'
  <2>1. Moved(w, {"relock", "stage"})
    BY <1>4, Moves
  <2>2. PICK s \in Unused : SaveSnapshot(s, job[w].game, job[w].content)
    BY <1>4 DEF CreateSaved, Oldest
  <2>3. /\ rows' = rows \cup {s} /\ synced' = synced /\ UNCHANGED blobVars
        /\ files' = [files EXCEPT ![s] = job[w].content]
    BY <2>2 DEF SaveSnapshot, Allocate
  <2>4. \A h \in job[w].content : Readable(h)
    BY <1>4 DEF CreateSaved, LocalInv, StoredInv
  <2>5. s \in Ids \ rows /\ rows \subseteq Ids /\ files \in [Ids -> SUBSET Hashes]
    BY DEF Unused, RemoteInv, TypeOK, StoreTypeOK
  <2>6. \A t \in rows' \ synced' : \A h \in files'[t] : Readable(h)'
    BY <2>3, <2>4, <2>5 DEF LocalInv, Readable
  <2>7. \A v \in Workers : StoredInv(v)'
    BY <2>1, <2>3 DEF Moved, LocalInv, StoredInv, At, Readable
  <2> QED BY <2>6, <2>7 DEF LocalInv
<1>5. ASSUME NEW h \in Hashes, Sweep(w, h) PROVE LocalInv'
  <2>1. Moved(w, {"sweep"})
    BY <1>5, Moves
  <2>2. \A v \in Workers : ~At(v, "store")
    BY <1>5, NoneAssumption DEF Sweep, At, LocksHeld, Guarded
  <2>3. \A v \in Workers : StoredInv(v)'
    BY <2>1, <2>2 DEF Moved, StoredInv, At
  <2>4. \A s \in rows : \A k \in files[s] : Readable(k) => Readable(k)'
    BY <1>5 DEF Sweep, RemoveOrphanBlob, Referenced, Readable
  <2> QED BY <1>5, <2>3, <2>4 DEF Sweep, RemoveOrphanBlob, LocalInv
<1>6. ASSUME RestoreBegin(w) PROVE LocalInv'
  <2>1. Moved(w, {"store", "idle"}) /\ UNCHANGED storeVars
    BY <1>6, Moves DEF RestoreBegin
  <2>2. CASE job[w].cur \in rows
    BY <1>0, <1>6, <2>1, <2>2, StartCreateStored, LocalStep DEF RestoreBegin, Moved
  <2>3. CASE job[w].cur \notin rows
    <3>1. job'[w].pc # "store"
      BY <1>6, <2>3, AdvanceJob DEF RestoreBegin, Return, Idle
    <3> QED BY <2>1, <3>1, LocalQuiet DEF Moved
  <2> QED BY <2>2, <2>3
<1> QED BY <1>1, <1>2, <1>3, <1>4, <1>5, <1>6

LEMMA LocalInvInductive ==
  ASSUME ~SwapStops
  PROVE  TypeOK /\ RemoteInv /\ LocksHeld /\ LocalInv /\ [Next]_vars => LocalInv'
<1> SUFFICES ASSUME TypeOK, RemoteInv, LocksHeld, LocalInv, [Next]_vars PROVE LocalInv'
  OBVIOUS
<1> USE DEF storeVars, tableVars, blobVars, bucketVars, lockVars
<1>1. ASSUME NEW w \in Workers, Begin(w) \/ Continue(w) \/ Acquire(w) PROVE LocalInv'
  BY <1>1, LocalQuietSteps, LocalSteps DEF Begin, Continue, Acquire
<1>2. ASSUME NEW s \in Ids, NEW g \in Games, NEW content \in Contents,
             OtherDevicePublishes(s, g, content)
      PROVE  LocalInv'
  <2>1. \A t \in rows : files'[t] = files[t]
    BY <1>2 DEF OtherDevicePublishes, Allocate, RemoteInv, TypeOK, StoreTypeOK
  <2> QED BY <1>2, <2>1 DEF OtherDevicePublishes, LocalInv, StoredInv, At, Readable
<1>3. ASSUME NEW s \in Ids, OtherDeviceDeletes(s) PROVE LocalInv'
  BY <1>3 DEF OtherDeviceDeletes, LocalInv, StoredInv, At, Readable
<1>4. ASSUME Crash PROVE LocalInv'
  <2>1. \A v \in Workers : StoredInv(v)'
    BY <1>4 DEF Crash, StoredInv, At, Idle
  <2>2. \A s \in rows : \A k \in files[s] : k \in disk => k \in disk'
    <3> SUFFICES ASSUME NEW s \in rows, NEW k \in files[s], k \in disk
                 PROVE  k \in disk'
      OBVIOUS
    <3>1. k \in Referenced
      BY DEF Referenced
    <3>2. k \notin Sweepable
      BY <3>1 DEF Sweepable
    <3> QED BY <1>4, <3>2 DEF Crash
  <2> QED BY <1>4, <2>1, <2>2 DEF Crash, LocalInv, Readable
<1>5. ASSUME UNCHANGED vars PROVE LocalInv'
  BY <1>5 DEF vars, LocalInv, StoredInv, At, Readable
<1> QED BY <1>1, <1>2, <1>3, <1>4, <1>5 DEF Next, Environment

\* Every snapshot of the library can be restored: from the disk while it was
\* never synced, from R2 once it is, whatever deletions, retention, crashes
\* and failures happen beside the backups, if no download stops between its
\* two renames: run interrupted_download shows what that would lose.
THEOREM SnapshotsRestorableCorrect ==
  ASSUME ~SwapStops PROVE Spec => []SnapshotsRestorable
<1>1. Init => RemoteInv /\ LocksHeld /\ LocalInv
  BY InitRemoteInv
  DEF Init, StoreInit, LocksHeld, Guarded, UsesR2, LocalInv, StoredInv, At, Idle
<1>2. TypeOK /\ TypeOK' /\ RemoteInv /\ LocksHeld /\ LocalInv /\ [Next]_vars
        => RemoteInv' /\ LocksHeld' /\ LocalInv'
  BY RemoteInvInductive, LocksHeldInductive, LocalInvInductive
<1>3. RemoteInv /\ LocalInv => SnapshotsRestorable
  BY DEF RemoteInv, LocalInv, SnapshotsRestorable
<1> QED BY <1>1, <1>2, <1>3, TypeCorrect, PTL DEF Spec

-----------------------------------------------------------------------------
(* Retention keeps the newest snapshots of a game.                         *)

Newer(s) == {t \in RowsOf(gameOf[s]) : t > s}

\* Snapshot s has enough newer ones to be deleted.
Superseded(s) == Cardinality(Newer(s)) >= Keep

\* The steps that work on a list of excess snapshots, when no request named it.
Retaining(w) ==
  job[w].pc \in {"trim", "sweep", "evict", "unlist"} /\ job[w].op # "delete"

\* The list was read earlier, possibly without a lock, and is still right.
ListInv(w) ==
  Retaining(w) =>
    /\ \A s \in job[w].todo : s \notin Unused /\ Superseded(s)
    /\ job[w].pc = "unlist" => job[w].cur \in job[w].todo

RetentionInv == \A w \in Workers : ListInv(w)

LEMMA NewerFinite ==
  ASSUME TypeOK, NEW s \in Ids
  PROVE  IsFiniteSet(Newer(s)) /\ Cardinality(Newer(s)) \in Nat
<1>1. IsFiniteSet(Ids)
  BY FS_Interval, MaxSnapAssumption DEF Ids
<1>2. Newer(s) \subseteq Ids
  BY DEF Newer, RowsOf, TypeOK, StoreTypeOK
<1> QED BY <1>1, <1>2, FS_Subset, FS_CardinalityType

\* A snapshot stays superseded while a set of newer rows that is large enough
\* stays.
LEMMA SupersededStays ==
  ASSUME TypeOK, TypeOK', NEW s \in Ids, NEW t \in Ids,
         Superseded(t), Newer(t) \subseteq Newer(s)'
  PROVE  Superseded(s)'
<1>1. IsFiniteSet(Newer(s))' /\ (Cardinality(Newer(s)) \in Nat)'
  <2>1. IsFiniteSet(Ids)
    BY FS_Interval, MaxSnapAssumption DEF Ids
  <2>2. Newer(s)' \subseteq Ids
    BY DEF Newer, RowsOf, TypeOK, StoreTypeOK
  <2> QED BY <2>1, <2>2, FS_Subset, FS_CardinalityType
<1>2. IsFiniteSet(Newer(t)) /\ Cardinality(Newer(t)) \in Nat
  BY NewerFinite
<1>3. Cardinality(Newer(t)) <= Cardinality(Newer(s)')
  BY <1>1, FS_Subset
<1> QED BY <1>1, <1>2, <1>3, KeepAssumption DEF Superseded

\* The snapshots in use keep their identity.
GamesKept ==
  /\ Unused' \subseteq Unused
  /\ \A s \in Ids \ Unused : gameOf'[s] = gameOf[s]

\* Rows that are added leave a snapshot superseded.
LEMMA SupersededGrows ==
  ASSUME TypeOK, TypeOK', RemoteInv, GamesKept, rows \subseteq rows',
         NEW s \in Ids \ Unused, Superseded(s)
  PROVE  Superseded(s)'
<1>1. Newer(s) \subseteq Newer(s)'
  BY DEF Newer, RowsOf, GamesKept, RemoteInv, TypeOK, StoreTypeOK
<1> QED BY <1>1, SupersededStays

\* So does the deletion of a superseded row: if it counted, the rows newer
\* than itself count too, and there are enough of them.
LEMMA SupersededShrinks ==
  ASSUME TypeOK, TypeOK', NEW y \in rows, rows' = rows \ {y}, UNCHANGED <<files, gameOf>>,
         Superseded(y), NEW s \in Ids, Superseded(s)
  PROVE  Superseded(s)'
<1>0. y \in Ids /\ Ids \subseteq Nat /\ rows \subseteq Ids
  BY DEF Ids, TypeOK, StoreTypeOK
<1>1. CASE y \in Newer(s)
  <2>1. ASSUME NEW t \in Newer(y) PROVE t \in Newer(s)'
    <3>1. t \in rows /\ gameOf[t] = gameOf[y] /\ t > y /\ gameOf[y] = gameOf[s] /\ y > s
      BY <1>1, <2>1 DEF Newer, RowsOf
    <3>2. t > s /\ t # y
      BY <1>0, <3>1
    <3> QED BY <3>1, <3>2 DEF Newer, RowsOf
  <2> QED BY <1>0, <2>1, SupersededStays
<1>2. CASE y \notin Newer(s)
  <2>1. Newer(s) \subseteq Newer(s)'
    BY <1>2 DEF Newer, RowsOf
  <2> QED BY <2>1, SupersededStays
<1> QED BY <1>1, <1>2

-----------------------------------------------------------------------------
\* Where nothing is deleted, a list stays right.
LEMMA ListStays ==
  ASSUME TypeOK, TypeOK', RemoteInv, NEW v \in Workers, ListInv(v), job'[v] = job[v],
         GamesKept, rows \subseteq rows'
  PROVE  ListInv(v)'
<1>1. ASSUME Retaining(v)', NEW s \in job'[v].todo
      PROVE  s \notin Unused' /\ Superseded(s)'
  <2>1. s \in Ids
    BY <1>1 DEF TypeOK, Job, JobRecord
  <2>2. Retaining(v) /\ s \in job[v].todo
    BY <1>1 DEF Retaining
  <2>3. s \notin Unused /\ Superseded(s)
    BY <2>2 DEF ListInv
  <2> QED BY <2>1, <2>3, SupersededGrows DEF GamesKept
<1>2. ASSUME Retaining(v)', job'[v].pc = "unlist" PROVE job'[v].cur \in job'[v].todo
  BY <1>2 DEF ListInv, Retaining
<1> QED BY <1>1, <1>2 DEF ListInv

LEMMA RetentionStep ==
  ASSUME TypeOK, TypeOK', RemoteInv, RetentionInv, NEW w \in Workers,
         \A v \in Workers \ {w} : job'[v] = job[v],
         GamesKept, rows \subseteq rows', ListInv(w)'
  PROVE  RetentionInv'
  BY ListStays DEF RetentionInv

\* Most steps have no list, or one that a request named.
LEMMA RetentionQuiet ==
  ASSUME TypeOK, TypeOK', RemoteInv, RetentionInv, NEW w \in Workers,
         \A v \in Workers \ {w} : job'[v] = job[v],
         job'[w].pc \notin {"trim", "sweep", "evict", "unlist"} \/ job'[w].op = "delete",
         rows \subseteq rows', UNCHANGED <<files, gameOf>>
  PROVE  RetentionInv'
<1>1. GamesKept /\ ListInv(w)'
  BY DEF GamesKept, Unused, ListInv, Retaining
<1> QED BY <1>1, RetentionStep

LEMMA RetentionQuietSteps ==
  ASSUME TypeOK, TypeOK', RemoteInv, RetentionInv, NEW w \in Workers,
         \/ Begin(w)
         \/ \E s \in Ids : Examine(w, s)
         \/ \E h \in Hashes : StoreFile(w, h) \/ IndexFile(w, h) \/ EnsureBlob(w, h)
                              \/ VerifyBlob(w, h) \/ FetchBlob(w, h) \/ SwapBlob(w, h)
         \/ CreateSkipped(w) \/ CreateFails(w) \/ TrimDone(w) \/ SyncRefused(w) \/ MarkActive(w)
         \/ PickUpload(w) \/ PutManifest(w) \/ MarkSynced(w) \/ UploadFails(w) \/ Unmark(w)
         \/ SyncDone(w) \/ EvictDone(w) \/ RestoreFails(w) \/ RestoreBegin(w) \/ RestoreEnds(w)
         \/ DownloadManifest(w) \/ Import(w) \/ ReconcileEnds(w)
  PROVE  RetentionInv'
<1>0. ASSUME Begin(w) PROVE RetentionInv'
  <2>1. UNCHANGED storeVars
    BY <1>0, Zenon DEF Begin, Backup, SyncGame, SyncPending, Restore, DeleteSnapshot, ReconcileRemote
  <2>2. \E op, step : Started(w, op, step) /\ (step \in {"store", "mark", "fetch", "examine"} \/ op = "delete")
    BY <1>0, Moves DEF Begin
  <2> QED BY <2>1, <2>2, RetentionQuiet DEF Started, storeVars
<1>a. ASSUME NEW h \in Hashes, StoreFile(w, h) PROVE RetentionInv'
  BY <1>a, RetentionQuiet DEF StoreFile, tableVars, At
<1> USE Moves, RetentionQuiet
    DEF storeVars, tableVars, blobVars, bucketVars, lockVars, Moved
<1>1. ASSUME NEW h \in Hashes, IndexFile(w, h) PROVE RetentionInv'
  BY <1>1 DEF IndexFile, SaveBlob
<1>2. ASSUME CreateSkipped(w) PROVE RetentionInv'
  BY <1>2 DEF CreateSkipped
<1>3. ASSUME CreateFails(w) PROVE RetentionInv'
  BY <1>3 DEF CreateFails
<1>4. ASSUME TrimDone(w) PROVE RetentionInv'
  BY <1>4 DEF TrimDone
<1>5. ASSUME SyncRefused(w) PROVE RetentionInv'
  BY <1>5 DEF SyncRefused
<1>6. ASSUME MarkActive(w) PROVE RetentionInv'
  <2>1. Moved(w, {"pick"}) /\ UNCHANGED storeVars
    BY <1>6 DEF MarkActive
  <2> HIDE Moves
  <2> QED BY <2>1
<1>7. ASSUME PickUpload(w) PROVE RetentionInv'
  BY <1>7 DEF PickUpload
<1>8. ASSUME NEW h \in Hashes, EnsureBlob(w, h) PROVE RetentionInv'
  BY <1>8 DEF EnsureBlob
<1>9. ASSUME PutManifest(w) PROVE RetentionInv'
  BY <1>9 DEF PutManifest
<1>10. ASSUME MarkSynced(w) PROVE RetentionInv'
  BY <1>10, Zenon DEF MarkSynced, MarkSnapshotRemote
<1>11. ASSUME UploadFails(w) PROVE RetentionInv'
  BY <1>11, Zenon DEF UploadFails
<1>12. ASSUME Unmark(w) PROVE RetentionInv'
  BY <1>12, Zenon DEF Unmark
<1>13. ASSUME SyncDone(w) PROVE RetentionInv'
  BY <1>13 DEF SyncDone
<1>14. ASSUME EvictDone(w) PROVE RetentionInv'
  BY <1>14, Zenon DEF EvictDone
<1>v. ASSUME NEW h \in Hashes, VerifyBlob(w, h) PROVE RetentionInv'
  BY <1>v DEF VerifyBlob
<1>s. ASSUME NEW h \in Hashes, SwapBlob(w, h) PROVE RetentionInv'
  BY <1>s DEF SwapBlob, SaveBlob
<1>15. ASSUME NEW h \in Hashes, FetchBlob(w, h) PROVE RetentionInv'
  BY <1>15 DEF FetchBlob
<1>16. ASSUME RestoreFails(w) PROVE RetentionInv'
  BY <1>16 DEF RestoreFails
<1>17. ASSUME RestoreBegin(w) PROVE RetentionInv'
  BY <1>17 DEF RestoreBegin
<1>18. ASSUME RestoreEnds(w) PROVE RetentionInv'
  BY <1>18 DEF RestoreEnds
<1>19. ASSUME NEW s \in Ids, Examine(w, s) PROVE RetentionInv'
  BY <1>19, Zenon DEF Examine
<1>20. ASSUME DownloadManifest(w) PROVE RetentionInv'
  BY <1>20 DEF DownloadManifest
<1>21. ASSUME Import(w) PROVE RetentionInv'
  BY <1>21, Zenon DEF Import, ImportSnapshot
<1>22. ASSUME ReconcileEnds(w) PROVE RetentionInv'
  BY <1>22 DEF ReconcileEnds
<1> HIDE Moves, RetentionQuiet
<1> QED
  BY <1>0, <1>a, <1>1, <1>2, <1>3, <1>4, <1>5, <1>6, <1>7, <1>8, <1>9, <1>10, <1>11, <1>12,
     <1>13, <1>14, <1>15, <1>16, <1>17, <1>18, <1>19, <1>20, <1>21, <1>22, <1>v, <1>s

\* A list read now names superseded snapshots only.
LEMMA ExcessSuperseded ==
  ASSUME TypeOK, RemoteInv, NEW g \in Games, NEW s \in SnapshotsBeyond(g, Keep)
  PROVE  s \in Ids \ Unused /\ Superseded(s)
<1>1. s \in rows /\ gameOf[s] = g /\ Cardinality({t \in RowsOf(g) : t > s}) >= Keep
  BY DEF SnapshotsBeyond, RowsOf
<1> QED BY <1>1 DEF Superseded, Newer, RemoteInv, TypeOK, StoreTypeOK

\* A step that works on the list without adding to it.
LEMMA ListShrinks ==
  ASSUME TypeOK, TypeOK', RemoteInv, RetentionInv, NEW w \in Workers,
         \A v \in Workers \ {w} : job'[v] = job[v],
         rows' = rows, UNCHANGED <<files, gameOf>>,
         job'[w].op = job[w].op, Retaining(w)' => Retaining(w),
         job'[w].todo \subseteq job[w].todo,
         job'[w].pc = "unlist" => job'[w].cur \in job'[w].todo
  PROVE  RetentionInv'
<1>1. ASSUME Retaining(w)', NEW s \in job'[w].todo PROVE s \notin Unused' /\ Superseded(s)'
  <2>1. s \notin Unused /\ Superseded(s)
    BY <1>1 DEF RetentionInv, ListInv
  <2> QED BY <2>1 DEF Superseded, Newer, RowsOf, Unused
<1>2. ListInv(w)'
  BY <1>1 DEF ListInv
<1> QED BY <1>2, RetentionStep DEF GamesKept, Unused

\* The deletion of a row that a list names, or that a request names while no
\* list is being worked on.
LEMMA DeletionKeepsLists ==
  ASSUME TypeOK, TypeOK', RemoteInv, RetentionInv, NEW w \in Workers, NEW y \in Ids,
         DeleteSnapshotRow(w, y),
         \/ Retaining(w) /\ Superseded(y)
         \/ job[w].op = "delete" /\ \A v \in Workers : ~Retaining(v)
  PROVE  RetentionInv'
<1>0. job \in [Workers -> JobRecord]
  BY DEF TypeOK, Job
<1>1. /\ y \in rows /\ rows' = rows \ {y} /\ UNCHANGED <<files, gameOf>>
      /\ \A v \in Workers \ {w} : job'[v] = job[v]
      /\ job'[w].op = job[w].op /\ job'[w].pc = "sweep"
      /\ job'[w].todo = job[w].todo \ {y}
  BY <1>0 DEF DeleteSnapshotRow, DeleteRow, Advance, JobRecord
<1>2. CASE Retaining(w) /\ Superseded(y)
  <2>1. ASSUME NEW v \in Workers, Retaining(v), NEW s \in job'[v].todo
        PROVE  s \notin Unused' /\ Superseded(s)'
    <3>1. s \in job[v].todo /\ s \in Ids
      BY <1>0, <1>1 DEF JobRecord
    <3>2. s \notin Unused /\ Superseded(s)
      BY <2>1, <3>1 DEF RetentionInv, ListInv
    <3>3. Superseded(s)'
      BY <1>1, <1>2, <3>1, <3>2, SupersededShrinks
    <3> QED BY <1>1, <3>2, <3>3 DEF Unused
  <2>2. \A v \in Workers : Retaining(v)' => Retaining(v)
    BY <1>1, <1>2 DEF Retaining
  <2>3. \A v \in Workers : Retaining(v)' /\ job'[v].pc = "unlist" => job'[v].cur \in job'[v].todo
    BY <1>1 DEF RetentionInv, ListInv, Retaining
  <2> QED BY <2>1, <2>2, <2>3 DEF RetentionInv, ListInv
<1>3. CASE job[w].op = "delete" /\ \A v \in Workers : ~Retaining(v)
  BY <1>1, <1>3 DEF RetentionInv, ListInv, Retaining
<1> QED BY <1>2, <1>3

LEMMA RetentionSteps ==
  ASSUME TypeOK, TypeOK', RemoteInv, LocksHeld, RetentionInv, NEW w \in Workers,
         \/ LocalRetention(w) \/ Trim(w) \/ Evict(w) \/ EvictFails(w) \/ Unlist(w) \/ UnlistFails(w)
         \/ SweepDone(w) \/ CreateSaved(w)
         \/ \E g \in Games : ListExcess(w, g)
         \/ \E h \in Hashes : Sweep(w, h) \/ SweepFails(w, h)
  PROVE  RetentionInv'
<1> USE DEF storeVars, tableVars, blobVars, bucketVars, lockVars
<1>0. job \in [Workers -> JobRecord] /\ job[w] \in Job
  BY DEF TypeOK, Job
<1>1. ASSUME LocalRetention(w) PROVE RetentionInv'
  <2>1. Moved(w, {"trim"}) /\ job[w].op = "backup" /\ job[w].game \in Games
    BY <1>0, <1>1, Moves, OperationOfStep DEF LocalRetention, At, Job
  <2>2. job'[w].todo \subseteq SnapshotsBeyond(job[w].game, Keep)
    BY <1>0, <1>1 DEF LocalRetention, Advance, JobRecord
  <2>3. \A s \in job'[w].todo : s \in Ids \ Unused /\ Superseded(s)
    BY <2>1, <2>2, ExcessSuperseded
  <2>4. UNCHANGED <<rows, files, gameOf>>
    BY <1>1 DEF LocalRetention
  <2>5. \A s \in job'[w].todo : s \notin Unused' /\ Superseded(s)'
    BY <2>3, <2>4 DEF Unused, Superseded, Newer, RowsOf
  <2>6. ListInv(w)'
    BY <2>1, <2>5 DEF ListInv, Moved
  <2> QED BY <2>1, <2>4, <2>6, RetentionStep DEF Moved, GamesKept, Unused
<1>2. ASSUME NEW g \in Games, ListExcess(w, g) PROVE RetentionInv'
  <2>1. Moved(w, {"evict"})
    BY <1>2, Moves
  <2>2. job'[w].todo \subseteq SnapshotsBeyond(g, Keep)
    <3>1. PICK excess \in {SnapshotsBeyond(g, Keep), SnapshotsBeyond(g, Keep) \ synced, {}} :
            job' = [job EXCEPT ![w] = [job[w] EXCEPT !.pc = "evict", !.todo = excess,
                                                     !.remote = excess \cap synced,
                                                     !.retain = @ \ {g}]]
      BY <1>2 DEF ListExcess, Advance
    <3>2. job'[w].todo = excess
      BY <1>0, <3>1 DEF JobRecord
    <3> QED BY <3>2
  <2>3. \A s \in job'[w].todo : s \in Ids \ Unused /\ Superseded(s)
    BY <2>2, ExcessSuperseded
  <2>4. UNCHANGED <<rows, files, gameOf>>
    BY <1>2 DEF ListExcess
  <2>5. \A s \in job'[w].todo : s \notin Unused' /\ Superseded(s)'
    BY <2>3, <2>4 DEF Unused, Superseded, Newer, RowsOf
  <2>6. ListInv(w)'
    BY <2>1, <2>5 DEF ListInv, Moved
  <2> QED BY <2>1, <2>4, <2>6, RetentionStep DEF Moved, GamesKept, Unused
<1>3. ASSUME Trim(w) PROVE RetentionInv'
  <2>1. PICK s \in job[w].todo : DeleteSnapshotRow(w, s)
    BY <1>3 DEF Trim, Newest
  <2>2. s \in Ids /\ Retaining(w)
    BY <1>0, <1>3, OperationOfStep DEF Trim, At, Retaining, JobRecord
  <2>3. Superseded(s)
    BY <2>2 DEF RetentionInv, ListInv
  <2> QED BY <2>1, <2>2, <2>3, DeletionKeepsLists
<1>4. ASSUME Unlist(w) PROVE RetentionInv'
  <2>1. job[w].cur \in Ids /\ DeleteSnapshotRow(w, job[w].cur)
    BY <1>0, <1>4 DEF Unlist, At, Job
  <2>2. CASE job[w].op = "delete"
    <3>1. syncMu = w /\ backupMu = None
      BY <1>4, <2>2 DEF Unlist, LocksHeld, UsesR2
    <3>2. ASSUME NEW v \in Workers PROVE ~Retaining(v)
      <4>1. job[v] \in Job
        BY DEF TypeOK
      <4>2. job[v].pc \in {"trim", "sweep"} => backupMu = v
        BY DEF LocksHeld, Guarded
      <4>3. job[v].pc \in {"evict", "unlist"} => job[v].op \in UsesR2
        BY <4>1, OperationOfStep DEF UsesR2
      <4>4. job[v].op \in UsesR2 => v = w
        BY <3>1 DEF LocksHeld
      <4> QED BY <2>2, <3>1, <4>2, <4>3, <4>4, NoneAssumption DEF Retaining
    <3> QED BY <2>1, <2>2, <3>2, DeletionKeepsLists
  <2>3. CASE job[w].op # "delete"
    <3>1. Retaining(w) /\ job[w].cur \in job[w].todo
      BY <1>4, <2>3 DEF Unlist, At, Retaining, RetentionInv, ListInv
    <3>2. Superseded(job[w].cur)
      BY <3>1 DEF RetentionInv, ListInv
    <3> QED BY <2>1, <3>1, <3>2, DeletionKeepsLists
  <2> QED BY <2>2, <2>3
<1>5. ASSUME CreateSaved(w) PROVE RetentionInv'
  <2>1. Moved(w, {"relock", "stage"})
    BY <1>5, Moves
  <2>2. PICK s \in Unused : SaveSnapshot(s, job[w].game, job[w].content)
    BY <1>5 DEF CreateSaved, Oldest
  <2>3. /\ rows \subseteq rows'
        /\ files' = [files EXCEPT ![s] = job[w].content]
        /\ gameOf' = [gameOf EXCEPT ![s] = job[w].game]
    BY <2>2 DEF SaveSnapshot, Allocate
  <2>4. GamesKept
    BY <2>3 DEF GamesKept, Unused, TypeOK, StoreTypeOK
  <2>5. ListInv(w)'
    BY <2>1 DEF ListInv, Retaining, Moved
  <2> QED BY <2>1, <2>3, <2>4, <2>5, RetentionStep DEF Moved
<1>6. ASSUME Evict(w) PROVE RetentionInv'
  <2>1. Moved(w, {"unlist"})
    BY <1>6, Moves
  <2>2. PICK s \in job[w].todo : Advance(w, [job[w] EXCEPT !.pc = "unlist", !.cur = s])
    BY <1>6 DEF Evict, Newest
  <2>3. job'[w].todo = job[w].todo /\ job'[w].cur = s
    BY <1>0, <2>2 DEF Advance, JobRecord
  <2>4. Retaining(w)' => Retaining(w)
    BY <1>6, <2>1 DEF Retaining, Moved, Evict, At
  <2> QED BY <1>6, <2>1, <2>3, <2>4, ListShrinks DEF Evict, Moved
<1>7. ASSUME EvictFails(w) \/ UnlistFails(w) PROVE RetentionInv'
  <2>1. Moved(w, {"evict"})
    BY <1>7, Moves
  <2>2. job'[w].todo = {}
    <3>1. \/ Advance(w, [job[w] EXCEPT !.todo = {}])
          \/ Advance(w, [job[w] EXCEPT !.pc = "evict", !.todo = {}])
      BY <1>7 DEF EvictFails, UnlistFails
    <3> QED BY <1>0, <3>1 DEF Advance, JobRecord
  <2>3. Retaining(w)' => Retaining(w)
    BY <1>7, <2>1 DEF Retaining, Moved, EvictFails, UnlistFails, At
  <2> QED BY <1>7, <2>1, <2>2, <2>3, ListShrinks DEF EvictFails, UnlistFails, Moved
<1>8. ASSUME NEW h \in Hashes, Sweep(w, h) \/ SweepFails(w, h) PROVE RetentionInv'
  <2>1. Moved(w, {"sweep"})
    BY <1>8, Moves
  <2>2. job'[w].todo \subseteq job[w].todo
    <3>1. \/ Advance(w, [job[w] EXCEPT !.orphans = @ \ {h}])
          \/ Advance(w, [job[w] EXCEPT !.orphans = @ \ {h}, !.todo = {}])
      BY <1>8 DEF Sweep, SweepFails
    <3> QED BY <1>0, <3>1 DEF Advance, JobRecord
  <2>3. Retaining(w)' => Retaining(w)
    BY <1>8, <2>1 DEF Retaining, Moved, Sweep, SweepFails, At
  <2>4. UNCHANGED <<rows, files, gameOf>>
    BY <1>8 DEF Sweep, SweepFails, RemoveOrphanBlob
  <2> QED BY <2>1, <2>2, <2>3, <2>4, ListShrinks DEF Moved
<1>9. ASSUME SweepDone(w) PROVE RetentionInv'
  <2>1. Moved(w, {"trim", "evict"})
    BY <1>9, Moves
  <2>2. job'[w].todo = job[w].todo
    BY <1>0, <1>9 DEF SweepDone, Goto, Advance, JobRecord
  <2>3. Retaining(w)' => Retaining(w)
    BY <1>9, <2>1 DEF Retaining, Moved, SweepDone, At
  <2> QED BY <1>9, <2>1, <2>2, <2>3, ListShrinks DEF SweepDone, Moved
<1> QED BY <1>1, <1>2, <1>3, <1>4, <1>5, <1>6, <1>7, <1>8, <1>9

LEMMA RetentionInvInductive ==
  TypeOK /\ TypeOK' /\ RemoteInv /\ LocksHeld /\ RetentionInv /\ [Next]_vars => RetentionInv'
<1> SUFFICES ASSUME TypeOK, TypeOK', RemoteInv, LocksHeld, RetentionInv, [Next]_vars
             PROVE  RetentionInv'
  OBVIOUS
<1> USE DEF storeVars, tableVars, lockVars, bucketVars
<1>1. ASSUME NEW w \in Workers, Begin(w) \/ Continue(w) \/ Acquire(w) PROVE RetentionInv'
  BY <1>1, RetentionQuietSteps, RetentionSteps DEF Continue, Acquire
<1>2. ASSUME GamesKept, rows' = rows, job' = job PROVE RetentionInv'
  BY <1>2, ListStays DEF RetentionInv
<1>3. ASSUME NEW s \in Ids, NEW g \in Games, NEW content \in Contents,
             OtherDevicePublishes(s, g, content)
      PROVE  RetentionInv'
  <2>1. GamesKept
    BY <1>3, ContentsAssumption
    DEF OtherDevicePublishes, Allocate, GamesKept, Unused, TypeOK, StoreTypeOK
  <2> QED BY <1>2, <1>3, <2>1 DEF OtherDevicePublishes
<1>4. ASSUME NEW s \in Ids, OtherDeviceDeletes(s) PROVE RetentionInv'
  BY <1>2, <1>4 DEF OtherDeviceDeletes, GamesKept, Unused
<1>5. ASSUME Crash PROVE RetentionInv'
  BY <1>5 DEF Crash, RetentionInv, ListInv, Retaining, Idle
<1>6. ASSUME UNCHANGED vars PROVE RetentionInv'
  BY <1>2, <1>6 DEF vars, GamesKept, Unused
<1> QED BY <1>1, <1>3, <1>4, <1>5, <1>6 DEF Next, Environment

\* Only two steps delete a row.
LEMMA WorkerKeepsRows ==
  ASSUME NEW w \in Workers, Begin(w) \/ Continue(w) \/ Acquire(w), ~Trim(w), ~Unlist(w)
  PROVE  rows \subseteq rows'
<1> USE DEF storeVars, tableVars
<1>1. ASSUME Begin(w) PROVE rows \subseteq rows'
  BY <1>1 DEF Begin, Backup, SyncGame, SyncPending, Restore, DeleteSnapshot, ReconcileRemote
<1>2. ASSUME Acquire(w) PROVE rows \subseteq rows'
  BY <1>2 DEF Acquire, LocalRetention, MarkActive, Unmark, UnlistFails, RestoreBegin
<1>3. ASSUME NEW h \in Hashes,
             \/ StoreFile(w, h) \/ IndexFile(w, h) \/ Sweep(w, h)
             \/ SweepFails(w, h) \/ EnsureBlob(w, h)
             \/ VerifyBlob(w, h) \/ FetchBlob(w, h) \/ SwapBlob(w, h)
      PROVE  rows \subseteq rows'
  BY <1>3 DEF StoreFile, IndexFile, SaveBlob, Sweep, RemoveOrphanBlob, SweepFails,
              EnsureBlob, VerifyBlob, FetchBlob, SwapBlob
<1>4. ASSUME \/ CreateSkipped(w) \/ CreateSaved(w) \/ CreateFails(w)
             \/ TrimDone(w) \/ SweepDone(w) \/ SyncRefused(w)
      PROVE  rows \subseteq rows'
  BY <1>4 DEF CreateSkipped, CreateSaved, SaveSnapshot, CreateFails, TrimDone, SweepDone, SyncRefused
<1>5. ASSUME \/ PickUpload(w) \/ PutManifest(w) \/ MarkSynced(w) \/ UploadFails(w)
             \/ \E g \in Games : ListExcess(w, g)
             \/ SyncDone(w) \/ Evict(w) \/ EvictFails(w) \/ EvictDone(w)
      PROVE  rows \subseteq rows'
  BY <1>5 DEF PickUpload, PutManifest, MarkSynced, MarkSnapshotRemote, UploadFails,
              ListExcess, SyncDone, Evict, EvictFails, EvictDone
<1>6. ASSUME \/ RestoreFails(w) \/ RestoreEnds(w)
             \/ \E s \in Ids : Examine(w, s)
             \/ DownloadManifest(w) \/ Import(w) \/ ReconcileEnds(w)
      PROVE  rows \subseteq rows'
  BY <1>6 DEF RestoreFails, RestoreEnds, Examine, DownloadManifest, Import, ImportSnapshot, ReconcileEnds
<1> QED BY <1>1, <1>2, <1>3, <1>4, <1>5, <1>6 DEF Continue

LEMMA OnlyRetentionDeletes ==
  ASSUME [Next]_vars, ~ \E w \in Workers : Trim(w) \/ Unlist(w)
  PROVE  rows \subseteq rows'
<1>1. ASSUME Environment PROVE rows \subseteq rows'
  BY <1>1 DEF Environment, OtherDevicePublishes, OtherDeviceDeletes, Crash, storeVars, tableVars
<1> QED BY <1>1, WorkerKeepsRows DEF Next, vars, storeVars

\* Retention deletes no snapshot that is among the Keep newest of its game
\* when it goes: the list that applyRetention read without a lock stays right
\* whatever backups, imports and other deletions happen before it is used.
THEOREM RetentionKeepsRecentCorrect == Spec => RetentionKeepsRecent
<1>1. Init => RemoteInv /\ LocksHeld /\ RetentionInv
  BY InitRemoteInv
  DEF Init, LocksHeld, Guarded, UsesR2, RetentionInv, ListInv, Retaining, Idle
<1>2. TypeOK /\ TypeOK' /\ RemoteInv /\ LocksHeld /\ RetentionInv /\ [Next]_vars
        => RemoteInv' /\ LocksHeld' /\ RetentionInv'
  BY RemoteInvInductive, LocksHeldInductive, RetentionInvInductive
<1>3. TypeOK /\ RetentionInv /\ [Next]_vars
        => [\A s \in rows \ rows' :
              \/ DeleteRequested(s)
              \/ Cardinality({t \in RowsOf(gameOf[s]) : t > s}) >= Keep]_vars
  <2> SUFFICES ASSUME TypeOK, RetentionInv, [Next]_vars, NEW s \in rows \ rows'
               PROVE  DeleteRequested(s) \/ Superseded(s)
    BY DEF Superseded, Newer
  <2>1. ASSUME NEW w \in Workers, Trim(w) PROVE Superseded(s)
    <3>1. job[w] \in Job
      BY DEF TypeOK
    <3>2. Retaining(w)
      BY <2>1, <3>1, OperationOfStep DEF Trim, At, Retaining
    <3>3. s \in job[w].todo
      BY <2>1 DEF Trim, Newest, DeleteSnapshotRow, DeleteRow
    <3> QED BY <3>2, <3>3 DEF RetentionInv, ListInv
  <2>2. ASSUME NEW w \in Workers, Unlist(w) PROVE DeleteRequested(s) \/ Superseded(s)
    <3>1. s = job[w].cur
      BY <2>2 DEF Unlist, DeleteSnapshotRow, DeleteRow
    <3>2. CASE job[w].op = "delete"
      BY <2>2, <3>1, <3>2 DEF Unlist, DeleteRequested
    <3>3. CASE job[w].op # "delete"
      BY <2>2, <3>1, <3>3 DEF Unlist, At, RetentionInv, ListInv, Retaining
    <3> QED BY <3>2, <3>3
  <2> QED BY <2>1, <2>2, OnlyRetentionDeletes
<1> QED BY <1>1, <1>2, <1>3, TypeCorrect, PTL DEF Spec, RetentionKeepsRecent

-----------------------------------------------------------------------------
(***************************************************************************)
(* A sync keeps the rows it has marked: the proof of ActivePresent.        *)
(***************************************************************************)
Uploading == {"pick", "blobs", "publish"}

\* The steps of the retention that a backup runs.
Trimming(j) == j.pc = "trim" \/ (j.pc = "sweep" /\ j.op = "backup")

\* The one worker that uploads has marked its list and nobody else has marked
\* anything; what a backup is going to delete is not marked.
ActiveInv ==
  /\ active \subseteq rows
  /\ \A w \in Workers : job[w].pc \in Uploading => active = job[w].todo
  /\ (\A w \in Workers : job[w].pc \notin Uploading) => active = {}
  /\ \A w \in Workers : Trimming(job[w]) => job[w].todo \cap active = {}

\* Only a worker that uploads has anything marked.
LEMMA NothingMarked ==
  ASSUME TypeOK, LocksHeld, ActiveInv, NEW w \in Workers,
         job[w].op \in UsesR2, job[w].pc \notin Uploading
  PROVE  active = {}
<1>1. ASSUME NEW v \in Workers, job[v].pc \in Uploading PROVE FALSE
  <2>1. job[v].op \in UsesR2
    BY <1>1, OperationOfStep DEF Uploading, UsesR2, TypeOK
  <2>2. syncMu = v /\ syncMu = w
    BY <2>1 DEF LocksHeld
  <2> QED BY <1>1, <2>2
<1> QED BY <1>1 DEF ActiveInv

\* A step that changes no mark.
LEMMA ActiveStep ==
  ASSUME ActiveInv, NEW w \in Workers,
         \A v \in Workers \ {w} : job'[v] = job[v],
         active' = active, active \subseteq rows',
         job'[w].pc \in Uploading <=> job[w].pc \in Uploading,
         job[w].pc \in Uploading => job'[w].todo = job[w].todo,
         Trimming(job'[w]) => job'[w].todo \cap active = {}
  PROVE  ActiveInv'
<1>1. \A v \in Workers : job'[v].pc \in Uploading => active' = job'[v].todo
  BY DEF ActiveInv
<1>2. (\A v \in Workers : job'[v].pc \notin Uploading) => active' = {}
  <2> SUFFICES ASSUME \A v \in Workers : job'[v].pc \notin Uploading
               PROVE  \A v \in Workers : job[v].pc \notin Uploading
    BY DEF ActiveInv
  <2> QED OBVIOUS
<1>3. \A v \in Workers : Trimming(job'[v]) => job'[v].todo \cap active' = {}
  BY DEF ActiveInv
<1> QED BY <1>1, <1>2, <1>3 DEF ActiveInv, Trimming

\* Most steps neither upload nor trim.
LEMMA ActiveQuiet ==
  ASSUME ActiveInv, NEW w \in Workers,
         \A v \in Workers \ {w} : job'[v] = job[v],
         active' = active, rows \subseteq rows',
         job[w].pc \notin Uploading,
         job'[w].pc \notin Uploading \cup {"trim"},
         job'[w].pc = "sweep" => job'[w].op # "backup"
  PROVE  ActiveInv'
<1>1. active \subseteq rows'
  BY DEF ActiveInv
<1> QED BY <1>1, ActiveStep DEF Trimming

LEMMA ActiveQuietSteps ==
  ASSUME TypeOK, ActiveInv, NEW w \in Workers, rows \subseteq rows',
         \/ Begin(w)
         \/ \E s \in Ids : Examine(w, s)
         \/ \E h \in Hashes : IndexFile(w, h) \/ VerifyBlob(w, h) \/ FetchBlob(w, h) \/ SwapBlob(w, h)
         \/ CreateSkipped(w) \/ CreateSaved(w) \/ CreateFails(w) \/ TrimDone(w) \/ SyncRefused(w)
         \/ \E g \in Games : ListExcess(w, g)
         \/ SyncDone(w) \/ Evict(w) \/ EvictFails(w) \/ EvictDone(w) \/ UnlistFails(w)
         \/ RestoreFails(w) \/ RestoreBegin(w) \/ RestoreEnds(w)
         \/ DownloadManifest(w) \/ Import(w) \/ ReconcileEnds(w)
  PROVE  ActiveInv'
<1>0. job[w] \in Job
  BY DEF TypeOK
<1>1. active' = active
  BY DEF Begin, Backup, SyncGame, SyncPending, Restore, DeleteSnapshot, ReconcileRemote, Examine,
     IndexFile, VerifyBlob, FetchBlob, SwapBlob, CreateSkipped, CreateSaved, CreateFails, TrimDone,
     SyncRefused, ListExcess, SyncDone, Evict, EvictFails, EvictDone, UnlistFails, RestoreFails,
     RestoreBegin, RestoreEnds, DownloadManifest, Import, ReconcileEnds, lockVars
<1>2. job[w].pc \notin Uploading
  <2>1. job[w].op = "reconcile" => job[w].pc \notin Uploading
    BY <1>0, OperationOfStep DEF Uploading
  <2> QED BY <2>1 DEF Begin, Backup, SyncGame, SyncPending, Restore, DeleteSnapshot, ReconcileRemote, Examine,
     IndexFile, VerifyBlob, FetchBlob, SwapBlob, CreateSkipped, CreateSaved, CreateFails, TrimDone,
     SyncRefused, ListExcess, SyncDone, Evict, EvictFails, EvictDone, UnlistFails, RestoreFails,
     RestoreBegin, RestoreEnds, DownloadManifest, Import, ReconcileEnds, TakeSyncMu, At, Uploading
<1>3. \/ \E op, step : Started(w, op, step) /\ step \in {"store", "mark", "fetch", "examine", "evict"}
      \/ Moved(w, {"idle", "store", "relock", "stage", "evict", "unlist", "list", "fetch", "swap",
                   "examine", "download", "import"})
  <2>1. CASE Begin(w)
    BY <2>1, Moves DEF Begin
  <2>2. CASE ~Begin(w)
    <3>1. \/ Moved(w, {"idle"}) \/ Moved(w, {"store"}) \/ Moved(w, {"idle", "stage"}) \/ Moved(w, {"relock", "stage"})
          \/ Moved(w, {"evict"}) \/ Moved(w, {"unlist"}) \/ Moved(w, {"idle", "list"}) \/ Moved(w, {"fetch"})
          \/ Moved(w, {"swap"}) \/ Moved(w, {"store", "idle"}) \/ Moved(w, {"examine", "download"})
          \/ Moved(w, {"import"}) \/ Moved(w, {"examine"})
      BY <2>2, Moves
    <3> QED BY <3>1 DEF Moved
  <2> QED BY <2>1, <2>2
<1>4. /\ \A v \in Workers \ {w} : job'[v] = job[v]
      /\ job'[w].pc \notin Uploading \cup {"trim", "sweep"}
  BY <1>3 DEF Started, Moved, Uploading
<1> QED BY <1>1, <1>2, <1>4, ActiveQuiet

LEMMA ActiveUploadSteps ==
  ASSUME TypeOK, ActiveInv, NEW w \in Workers, rows \subseteq rows',
         \/ PickUpload(w) \/ PutManifest(w) \/ MarkSynced(w) \/ UploadFails(w)
         \/ \E h \in Hashes : EnsureBlob(w, h)
  PROVE  ActiveInv'
<1>1. Moved(w, {"blobs"}) \/ Moved(w, {"publish"}) \/ Moved(w, {"pick"})
  BY Moves
<1>2. job[w].pc \in Uploading /\ active' = active
  BY DEF PickUpload, PutManifest, MarkSynced, UploadFails, EnsureBlob, At, Uploading, lockVars
<1>3. job'[w].todo = job[w].todo
  <2>1. job \in [Workers -> JobRecord]
    BY DEF TypeOK, Job
  <2>2. CASE PickUpload(w)
    BY <2>1, <2>2 DEF PickUpload, Advance, JobRecord
  <2>3. CASE PutManifest(w)
    BY <2>1, <2>3 DEF PutManifest, Goto, Advance, JobRecord
  <2>4. CASE MarkSynced(w)
    BY <2>1, <2>4 DEF MarkSynced, Advance, JobRecord
  <2>5. CASE UploadFails(w)
    BY <2>1, <2>5 DEF UploadFails, Advance, JobRecord
  <2>6. CASE \E h \in Hashes : EnsureBlob(w, h)
    BY <2>1, <2>6 DEF EnsureBlob, Advance, JobRecord
  <2> QED BY <2>2, <2>3, <2>4, <2>5, <2>6
<1>4. active \subseteq rows'
  BY DEF ActiveInv
<1> QED BY <1>1, <1>2, <1>3, <1>4, ActiveStep DEF Moved, Uploading, Trimming

LEMMA ActiveTrimSteps ==
  ASSUME TypeOK, LocksHeld, ActiveInv, NEW w \in Workers,
         \/ LocalRetention(w) \/ Trim(w) \/ SweepDone(w) \/ Unlist(w)
         \/ \E h \in Hashes : Sweep(w, h) \/ SweepFails(w, h)
  PROVE  ActiveInv'
<1>0. job \in [Workers -> JobRecord] /\ job[w] \in Job
  BY DEF TypeOK, Job
<1>1. Moved(w, {"trim"}) \/ Moved(w, {"sweep"}) \/ Moved(w, {"trim", "evict"})
  BY Moves
<1>2. job[w].pc \notin Uploading /\ job'[w].pc \notin Uploading /\ active' = active
  BY <1>1 DEF LocalRetention, Trim, SweepDone, Unlist, Sweep, SweepFails, At, Uploading, lockVars, Moved
<1>3. CASE LocalRetention(w)
  <2>1. job'[w].todo \cap active = {}
    BY <1>0, <1>3 DEF LocalRetention, Advance, JobRecord
  <2> QED BY <1>1, <1>2, <1>3, <2>1, ActiveStep DEF Moved, LocalRetention, storeVars, ActiveInv
<1>4. CASE Trim(w)
  <2>1. PICK s \in job[w].todo : rows' = rows \ {s} /\ job'[w].todo = job[w].todo \ {s}
    <3>1. PICK s \in job[w].todo : DeleteSnapshotRow(w, s)
      BY <1>4 DEF Trim, Newest
    <3>2. job'[w].todo = job[w].todo \ {s} /\ rows' = rows \ {s}
      BY <1>0, <3>1 DEF DeleteSnapshotRow, DeleteRow, Advance, JobRecord
    <3> QED BY <3>2
  <2>2. job[w].todo \cap active = {} /\ active \subseteq rows
    BY <1>4 DEF Trim, At, Trimming, ActiveInv
  <2> QED BY <1>1, <1>2, <2>1, <2>2, ActiveStep DEF Moved
<1>5. CASE Unlist(w)
  <2>1. job[w].op \in {"syncGame", "syncPending", "delete"}
    BY <1>0, <1>5, OperationOfStep DEF Unlist, At
  <2>2. active = {}
    BY <1>2, <2>1, NothingMarked DEF UsesR2
  <2> QED BY <1>1, <1>2, <2>2, ActiveStep DEF Moved
<1>6. CASE SweepDone(w) \/ (\E h \in Hashes : Sweep(w, h) \/ SweepFails(w, h))
  <2>1. job'[w].todo \subseteq job[w].todo /\ rows' = rows
    <3>1. CASE SweepDone(w)
      <4>1. \E step : Goto(w, step)
        BY <3>1 DEF SweepDone
      <4>2. job'[w].todo = job[w].todo
        BY <1>0, <4>1 DEF Goto, Advance, JobRecord
      <4> QED BY <3>1, <4>2 DEF SweepDone, storeVars, tableVars
    <3>2. ASSUME NEW h \in Hashes, Sweep(w, h) PROVE job'[w].todo \subseteq job[w].todo /\ rows' = rows
      <4>1. Advance(w, [job[w] EXCEPT !.orphans = @ \ {h}])
        BY <3>2 DEF Sweep
      <4>2. job'[w].todo = job[w].todo
        BY <1>0, <4>1 DEF Advance, JobRecord
      <4> QED BY <3>2, <4>2 DEF Sweep, RemoveOrphanBlob, tableVars
    <3>3. ASSUME NEW h \in Hashes, SweepFails(w, h) PROVE job'[w].todo \subseteq job[w].todo /\ rows' = rows
      <4>1. Advance(w, [job[w] EXCEPT !.orphans = @ \ {h}, !.todo = {}])
        BY <3>3 DEF SweepFails
      <4>2. job'[w].todo = {}
        BY <1>0, <4>1 DEF Advance, JobRecord
      <4> QED BY <3>3, <4>2 DEF SweepFails, storeVars
    <3> QED BY <1>6, <3>1, <3>2, <3>3
  <2>2. Trimming(job'[w]) => Trimming(job[w])
    <3>1. job[w].pc = "sweep"
      BY <1>6 DEF SweepDone, Sweep, SweepFails, At
    <3>2. job'[w].op \in {"none", job[w].op}
      BY <1>1 DEF Moved
    <3>3. job'[w].pc = "trim" => job[w].op = "backup"
      <4>1. CASE SweepDone(w)
        BY <1>0, <4>1 DEF SweepDone, Advance, Goto, JobRecord
      <4>2. CASE \E h \in Hashes : Sweep(w, h) \/ SweepFails(w, h)
        BY <4>2, Moves DEF Moved
      <4> QED BY <1>6, <4>1, <4>2
    <3> QED BY <3>1, <3>2, <3>3 DEF Trimming
  <2>3. active \subseteq rows /\ (Trimming(job[w]) => job[w].todo \cap active = {})
    BY DEF ActiveInv
  <2> QED BY <1>1, <1>2, <2>1, <2>2, <2>3, ActiveStep DEF Moved
<1> QED BY <1>3, <1>4, <1>5, <1>6

\* The two steps that change the marks hold both locks.
LEMMA ActiveMarkSteps ==
  ASSUME TypeOK, LocksHeld, ActiveInv, NEW w \in Workers, MarkActive(w) \/ Unmark(w)
  PROVE  ActiveInv'
<1>0. job \in [Workers -> JobRecord] /\ job[w] \in Job
  BY DEF TypeOK, Job
<1>1. Moved(w, {"pick"}) \/ Moved(w, {"list"})
  BY Moves
<1>2. job[w].op \in UsesR2
  BY <1>0, OperationOfStep DEF MarkActive, Unmark, At, UsesR2
<1>3. \A v \in Workers \ {w} : job[v].pc \notin Uploading /\ ~Trimming(job[v])
  <2> TAKE v \in Workers \ {w}
  <2>1. ASSUME job[v].pc \in Uploading PROVE FALSE
    <3>1. job[v].op \in UsesR2
      BY <2>1, OperationOfStep DEF Uploading, UsesR2, TypeOK
    <3> QED BY <1>2, <3>1 DEF LocksHeld
  <2>2. ASSUME Trimming(job[v]) PROVE FALSE
    <3>1. backupMu = v
      BY <2>2 DEF Trimming, LocksHeld, Guarded
    <3> QED BY <3>1, NoneAssumption DEF MarkActive, Unmark
  <2> QED BY <2>1, <2>2
<1>4. rows' = rows
  BY DEF MarkActive, Unmark, storeVars
<1>5. CASE MarkActive(w)
  <2>1. active = {}
    BY <1>2, <1>5, NothingMarked DEF MarkActive, At, Uploading
  <2>2. PICK games : active' = active \cup PendingSnapshots(games) /\ job'[w].todo = PendingSnapshots(games)
    <3>1. PICK games \in IF job[w].op = "syncGame" THEN {{job[w].game}} ELSE SUBSET Games :
            /\ active' = active \cup PendingSnapshots(games)
            /\ Advance(w, [job[w] EXCEPT
                 !.pc = "pick",
                 !.todo = PendingSnapshots(games),
                 !.retain = IF job[w].op = "syncGame" THEN {job[w].game} ELSE {}])
      BY <1>5, Zenon DEF MarkActive
    <3>2. job'[w].todo = PendingSnapshots(games)
      BY <1>0, <3>1 DEF Advance, JobRecord
    <3> QED BY <3>1, <3>2
  <2>3. active' = job'[w].todo /\ active' \subseteq rows'
    BY <1>4, <2>1, <2>2 DEF PendingSnapshots
  <2>4. job'[w].pc = "pick" /\ \A v \in Workers \ {w} : job'[v] = job[v]
    BY <1>5, Moves DEF Moved
  <2> QED BY <1>3, <2>3, <2>4 DEF ActiveInv, Uploading, Trimming
<1>6. CASE Unmark(w)
  <2>1. active' = {}
    BY <1>6 DEF Unmark, At, ActiveInv, Uploading
  <2>2. job'[w].pc = "list" /\ \A v \in Workers \ {w} : job'[v] = job[v]
    BY <1>6, Moves DEF Moved
  <2> QED BY <1>3, <2>1, <2>2 DEF ActiveInv, Uploading, Trimming
<1> QED BY <1>5, <1>6

LEMMA ActiveInvInductive == TypeOK /\ LocksHeld /\ ActiveInv /\ [Next]_vars => ActiveInv'
<1> SUFFICES ASSUME TypeOK, LocksHeld, ActiveInv, [Next]_vars PROVE ActiveInv'
  OBVIOUS
<1>1. ASSUME NEW w \in Workers, Begin(w) \/ Continue(w) \/ Acquire(w) PROVE ActiveInv'
  <2>1. CASE Trim(w) \/ Unlist(w)
    BY <2>1, ActiveTrimSteps
  <2>2. CASE \E h \in Hashes : StoreFile(w, h)
    BY <2>2 DEF StoreFile, tableVars, lockVars, ActiveInv, Trimming
  <2>3. CASE ~(Trim(w) \/ Unlist(w))
    <3>1. CASE MarkActive(w) \/ Unmark(w)
      BY <3>1, ActiveMarkSteps
    <3>2. CASE \/ LocalRetention(w) \/ SweepDone(w)
               \/ \E h \in Hashes : Sweep(w, h) \/ SweepFails(w, h)
      BY <3>2, ActiveTrimSteps
    <3>3. ASSUME ~(MarkActive(w) \/ Unmark(w) \/ LocalRetention(w))
          PROVE  rows \subseteq rows'
      BY <1>1, <2>3, WorkerKeepsRows
    <3> QED BY <1>1, <2>2, <2>3, <3>1, <3>2, <3>3, ActiveQuietSteps, ActiveUploadSteps
            DEF Begin, Continue, Acquire
  <2> QED BY <2>1, <2>3
<1>2. ASSUME Environment PROVE ActiveInv'
  BY <1>2 DEF Environment, OtherDevicePublishes, OtherDeviceDeletes, Crash, lockVars, tableVars, storeVars,
              ActiveInv, Idle, Uploading, Trimming
<1>3. ASSUME UNCHANGED vars PROVE ActiveInv'
  BY <1>3 DEF ActiveInv, Trimming, vars, storeVars, lockVars
<1> QED BY <1>1, <1>2, <1>3 DEF Next

\* A snapshot that a sync has marked keeps its row until it is unmarked:
\* applyLocalRetention passes over it, and applyRetention and DeleteSnapshot
\* wait for syncMu.
THEOREM ActivePresentCorrect == Spec => []ActivePresent
<1>1. Init => LocksHeld /\ ActiveInv
  BY DEF Init, StoreInit, LocksHeld, Guarded, UsesR2, ActiveInv, Idle, Uploading, Trimming
<1>2. TypeOK /\ LocksHeld /\ ActiveInv /\ [Next]_vars => LocksHeld' /\ ActiveInv'
  BY LocksHeldInductive, ActiveInvInductive
<1>3. ActiveInv => ActivePresent
  BY DEF ActiveInv, ActivePresent
<1> QED BY <1>1, <1>2, <1>3, TypeCorrect, PTL DEF Spec

-----------------------------------------------------------------------------
(***************************************************************************)
(* The files of snapshots are kept: the proof of ReferencedFilesKept.      *)
(***************************************************************************)
\* What a step of a worker removes from the disk is one orphan at most, checked
\* again in the transaction that removes it.
LEMMA WorkerKeepsFiles ==
  ASSUME ~SwapStops, NEW w \in Workers, Begin(w) \/ Continue(w) \/ Acquire(w)
  PROVE  \A h \in disk \ disk' : h \notin Referenced
<1> USE DEF storeVars, tableVars, blobVars
<1> DEFINE Kept == \A h \in disk \ disk' : h \notin Referenced
<1>1. ASSUME Begin(w) PROVE Kept
  BY <1>1 DEF Begin, Backup, SyncGame, SyncPending, Restore, DeleteSnapshot, ReconcileRemote
<1>2. ASSUME Acquire(w) PROVE Kept
  BY <1>2 DEF Acquire, LocalRetention, MarkActive, Unmark, Unlist, DeleteSnapshotRow, DeleteRow,
              UnlistFails, RestoreBegin
<1>3. ASSUME NEW h \in Hashes,
             \/ StoreFile(w, h) \/ IndexFile(w, h)
             \/ SweepFails(w, h) \/ EnsureBlob(w, h)
             \/ VerifyBlob(w, h) \/ FetchBlob(w, h) \/ SwapBlob(w, h)
      PROVE  Kept
  BY <1>3 DEF StoreFile, IndexFile, SaveBlob, SweepFails, EnsureBlob, VerifyBlob, FetchBlob, SwapBlob
<1>4. ASSUME NEW h \in Hashes, Sweep(w, h) PROVE Kept
  BY <1>4 DEF Sweep, RemoveOrphanBlob
<1>5. ASSUME \/ CreateSkipped(w) \/ CreateSaved(w) \/ CreateFails(w)
             \/ Trim(w) \/ TrimDone(w) \/ SweepDone(w) \/ SyncRefused(w)
      PROVE  Kept
  BY <1>5 DEF CreateSkipped, CreateSaved, SaveSnapshot, CreateFails, Trim, DeleteSnapshotRow, DeleteRow,
              TrimDone, SweepDone, SyncRefused
<1>6. ASSUME \/ PickUpload(w) \/ PutManifest(w) \/ MarkSynced(w) \/ UploadFails(w)
             \/ \E g \in Games : ListExcess(w, g)
             \/ SyncDone(w) \/ Evict(w) \/ EvictFails(w) \/ EvictDone(w)
      PROVE  Kept
  BY <1>6 DEF PickUpload, PutManifest, MarkSynced, MarkSnapshotRemote, UploadFails,
              ListExcess, SyncDone, Evict, EvictFails, EvictDone
<1>7. ASSUME \/ RestoreFails(w) \/ RestoreEnds(w)
             \/ \E s \in Ids : Examine(w, s)
             \/ DownloadManifest(w) \/ Import(w) \/ ReconcileEnds(w)
      PROVE  Kept
  BY <1>7 DEF RestoreFails, RestoreEnds, Examine, DownloadManifest, Import, ImportSnapshot, ReconcileEnds
<1> QED BY <1>1, <1>2, <1>3, <1>4, <1>5, <1>6, <1>7 DEF Continue

\* No step removes the file of a blob that a snapshot refers to, although an
\* import may add the reference after the orphans were listed; a crash that
\* interrupts the removal included.  A download that stops between its two
\* renames is the exception.
THEOREM ReferencedFilesKeptCorrect ==
  ASSUME ~SwapStops PROVE Spec => ReferencedFilesKept
<1>1. ASSUME Environment PROVE \A h \in disk \ disk' : h \notin Referenced
  BY <1>1 DEF Environment, OtherDevicePublishes, OtherDeviceDeletes, Crash, Sweepable, storeVars, blobVars
<1>2. [Next]_vars => [\A h \in disk \ disk' : h \notin Referenced]_vars
  BY <1>1, WorkerKeepsFiles DEF Next
<1> QED BY <1>2, PTL DEF Spec, ReferencedFilesKept

-----------------------------------------------------------------------------
(***************************************************************************)
(* The history is what SnapshotArchive says: the proof of KeepsArchive.    *)
(***************************************************************************)
\* The snapshot that is uploaded, or is about to lose its row, is one of the
\* list: it is marked, in the first case, and was asked for, in the second.
CurrentListed ==
  \A w \in Workers :
    job[w].pc \in {"blobs", "publish", "unlist"} => job[w].cur \in job[w].todo

LEMMA CurrentListedSteps ==
  ASSUME TypeOK, CurrentListed, NEW w \in Workers,
         \/ PickUpload(w) \/ PutManifest(w) \/ Evict(w)
         \/ \E h \in Hashes : EnsureBlob(w, h)
  PROVE  job'[w].cur \in job'[w].todo
<1>0. job \in [Workers -> JobRecord]
  BY DEF TypeOK, Job
<1>1. CASE PickUpload(w)
  <2>1. PICK s \in Remaining(w) :
          Advance(w, [job[w] EXCEPT !.pc = "blobs", !.cur = s, !.need = files[s]])
    BY <1>1 DEF PickUpload, Oldest
  <2>2. job'[w].cur = s /\ job'[w].todo = job[w].todo
    BY <1>0, <2>1 DEF Advance, JobRecord
  <2> QED BY <2>1, <2>2 DEF Remaining
<1>2. CASE PutManifest(w)
  BY <1>0, <1>2 DEF PutManifest, Goto, Advance, At, CurrentListed, JobRecord
<1>3. CASE Evict(w)
  <2>1. PICK s \in job[w].todo : Advance(w, [job[w] EXCEPT !.pc = "unlist", !.cur = s])
    BY <1>3 DEF Evict, Newest
  <2>2. job'[w].cur = s /\ job'[w].todo = job[w].todo
    BY <1>0, <2>1 DEF Advance, JobRecord
  <2> QED BY <2>1, <2>2
<1>4. CASE \E h \in Hashes : EnsureBlob(w, h)
  BY <1>0, <1>4 DEF EnsureBlob, Advance, At, CurrentListed, JobRecord
<1> QED BY <1>1, <1>2, <1>3, <1>4

LEMMA CurrentListedInductive == TypeOK /\ CurrentListed /\ [Next]_vars => CurrentListed'
<1> SUFFICES ASSUME TypeOK, CurrentListed, [Next]_vars PROVE CurrentListed'
  OBVIOUS
<1>1. ASSUME NEW w \in Workers, Begin(w) \/ Continue(w) \/ Acquire(w) PROVE CurrentListed'
  <2>1. CASE \/ PickUpload(w) \/ PutManifest(w) \/ Evict(w)
             \/ \E h \in Hashes : EnsureBlob(w, h)
    <3>1. \A v \in Workers \ {w} : job'[v] = job[v]
      BY <2>1, Moves DEF Moved
    <3> QED BY <2>1, <3>1, CurrentListedSteps DEF CurrentListed
  <2>2. CASE \E h \in Hashes : StoreFile(w, h)
    BY <2>2 DEF StoreFile, CurrentListed
  <2>3. CASE Begin(w)
    <3>1. \E op, step : Started(w, op, step) /\ step \in {"store", "mark", "fetch", "examine", "evict"}
      BY <2>3, Moves DEF Begin
    <3> QED BY <3>1 DEF Started, CurrentListed
  <2>4. CASE /\ ~Begin(w) /\ ~PickUpload(w) /\ ~PutManifest(w) /\ ~Evict(w)
             /\ ~ \E h \in Hashes : EnsureBlob(w, h) \/ StoreFile(w, h)
    <3>1. Moved(w, Steps \ {"blobs", "publish", "unlist"})
      <4>1. \/ Moved(w, {"idle"}) \/ Moved(w, {"store"}) \/ Moved(w, {"idle", "stage"})
            \/ Moved(w, {"relock", "stage"}) \/ Moved(w, {"trim"}) \/ Moved(w, {"sweep"})
            \/ Moved(w, {"trim", "evict"}) \/ Moved(w, {"pick"}) \/ Moved(w, {"list"})
            \/ Moved(w, {"evict"}) \/ Moved(w, {"idle", "list"}) \/ Moved(w, {"fetch"})
            \/ Moved(w, {"swap"}) \/ Moved(w, {"store", "idle"}) \/ Moved(w, {"examine", "download"})
            \/ Moved(w, {"import"}) \/ Moved(w, {"examine"})
        <5>1. CASE Acquire(w)
          BY <5>1, Moves DEF Acquire
        <5>2. CASE Continue(w)
          BY <2>4, <5>2, Moves DEF Continue
        <5> QED BY <1>1, <2>4, <5>1, <5>2
      <4> QED BY <4>1 DEF Moved, Steps
    <3> QED BY <3>1 DEF Moved, CurrentListed
  <2> QED BY <2>1, <2>2, <2>3, <2>4
<1>2. ASSUME Environment PROVE CurrentListed'
  BY <1>2 DEF Environment, OtherDevicePublishes, OtherDeviceDeletes, Crash, CurrentListed, Idle
<1>3. ASSUME UNCHANGED vars PROVE CurrentListed'
  BY <1>3 DEF vars, CurrentListed
<1> QED BY <1>1, <1>2, <1>3 DEF Next

\* Only DeleteSnapshot adds a request.
LEMMA RequestedShrinks ==
  ASSUME TypeOK, NEW w \in Workers, Begin(w) \/ Continue(w) \/ Acquire(w),
         ~ \E s \in Ids, remoteToo \in BOOLEAN : DeleteSnapshot(w, s, remoteToo)
  PROVE  Requested' \subseteq Requested
<1>0. job \in [Workers -> JobRecord] /\ job[w] \in Job
  BY DEF TypeOK, Job
<1> DEFINE Shrinks ==
      /\ \A v \in Workers \ {w} : job'[v] = job[v]
      /\ job'[w].op = "delete" => job[w].op = "delete" /\ job'[w].todo \subseteq job[w].todo
<1>1. CASE Begin(w)
  <2>1. \E op, step : Started(w, op, step) /\ op # "delete"
    BY <1>1, Moves DEF Begin
  <2> QED BY <2>1 DEF Started, Requested
<1>2. CASE \E h \in Hashes : StoreFile(w, h)
  BY <1>2 DEF StoreFile, Requested
<1>3. CASE \/ Evict(w) \/ EvictFails(w) \/ EvictDone(w) \/ Unlist(w) \/ UnlistFails(w) \/ SweepDone(w)
           \/ \E h \in Hashes : Sweep(w, h) \/ SweepFails(w, h)
  <2>1. \E steps : Moved(w, steps)
    BY <1>3, Moves
  <2>2. job'[w].op = "delete" => job[w].op = "delete"
    BY <2>1 DEF Moved
  <2>3. job[w].op = "delete" => job'[w].todo \subseteq job[w].todo
    <3> SUFFICES ASSUME job[w].op = "delete" PROVE job'[w].todo \subseteq job[w].todo
      OBVIOUS
    <3>1. CASE EvictDone(w)
      BY <1>0, <3>1 DEF EvictDone, Return, Advance, Idle
    <3>2. CASE SweepDone(w)
      BY <1>0, <3>2 DEF SweepDone, Goto, Advance, JobRecord
    <3>3. CASE Evict(w) \/ EvictFails(w) \/ UnlistFails(w)
      <4>1. \/ \E s \in Ids : Advance(w, [job[w] EXCEPT !.pc = "unlist", !.cur = s])
            \/ Advance(w, [job[w] EXCEPT !.todo = {}])
            \/ Advance(w, [job[w] EXCEPT !.pc = "evict", !.todo = {}])
        <5>1. job[w].todo \subseteq Ids
          BY <1>0 DEF JobRecord
        <5> QED BY <3>3, <5>1 DEF Evict, EvictFails, UnlistFails, Newest
      <4> QED BY <1>0, <4>1 DEF Advance, JobRecord
    <3>4. CASE Unlist(w)
      BY <1>0, <3>4 DEF Unlist, DeleteSnapshotRow, Advance, JobRecord
    <3>5. CASE \E h \in Hashes : Sweep(w, h) \/ SweepFails(w, h)
      <4>1. \E h \in Hashes : \/ Advance(w, [job[w] EXCEPT !.orphans = @ \ {h}])
                              \/ Advance(w, [job[w] EXCEPT !.orphans = @ \ {h}, !.todo = {}])
        BY <3>5 DEF Sweep, SweepFails
      <4> QED BY <1>0, <4>1 DEF Advance, JobRecord
    <3> QED BY <1>3, <3>1, <3>2, <3>3, <3>4, <3>5
  <2> QED BY <2>1, <2>2, <2>3 DEF Moved, Requested
<1>4. CASE /\ ~Begin(w) /\ ~Evict(w) /\ ~EvictFails(w) /\ ~EvictDone(w)
           /\ ~Unlist(w) /\ ~UnlistFails(w) /\ ~SweepDone(w)
           /\ ~ \E h \in Hashes : StoreFile(w, h) \/ Sweep(w, h) \/ SweepFails(w, h)
  <2>1. job[w].op # "delete"
    <3>1. job[w].pc \notin {"idle", "evict", "unlist", "sweep"}
      BY <1>0, <1>4, OperationOfStep
      DEF Continue, Acquire, IndexFile, CreateSkipped, CreateSaved, CreateFails, LocalRetention, Trim,
          TrimDone, SyncRefused, MarkActive, PickUpload, EnsureBlob, PutManifest, MarkSynced, UploadFails,
          Unmark, ListExcess, SyncDone, VerifyBlob, FetchBlob, SwapBlob, RestoreFails, RestoreBegin,
          RestoreEnds, Examine, DownloadManifest, Import, ReconcileEnds, At
    <3> QED BY <1>0, <3>1 DEF Job, JobRecord, StepsOf, Operations
  <2>2. \E steps : Moved(w, steps)
    <3>1. CASE Acquire(w)
      BY <1>4, <3>1, Moves DEF Acquire
    <3>2. CASE Continue(w)
      BY <1>4, <3>2, Moves DEF Continue
    <3> QED BY <1>4, <3>1, <3>2
  <2> QED BY <2>1, <2>2 DEF Moved, Requested
<1> QED BY <1>1, <1>2, <1>3, <1>4

\* Four steps of a worker change the manifests in R2.
LEMMA ManifestsKept ==
  ASSUME NEW w \in Workers, Begin(w) \/ Continue(w) \/ Acquire(w),
         ~PutManifest(w), ~UploadFails(w), ~Evict(w), ~EvictFails(w)
  PROVE  manifests' = manifests
<1> USE DEF bucketVars
<1>1. CASE Begin(w)
  BY <1>1 DEF Begin, Backup, SyncGame, SyncPending, Restore, DeleteSnapshot, ReconcileRemote
<1>2. CASE Acquire(w)
  BY <1>2 DEF Acquire, LocalRetention, MarkActive, Unmark, Unlist, UnlistFails, RestoreBegin
<1>3. CASE Continue(w)
  BY <1>3 DEF Continue, StoreFile, IndexFile, Sweep, SweepFails, EnsureBlob, VerifyBlob, FetchBlob,
     SwapBlob, CreateSkipped, CreateSaved, CreateFails, Trim, TrimDone, SweepDone, SyncRefused, PickUpload,
     MarkSynced, ListExcess, SyncDone, EvictDone, RestoreFails, RestoreEnds, Examine, DownloadManifest,
     Import, ReconcileEnds
<1> QED BY <1>1, <1>2, <1>3

LEMMA RequestedKept ==
  ASSUME NEW w \in Workers, job[w].op # "delete", NEW steps, Moved(w, steps)
  PROVE  Requested' = Requested
<1>1. job'[w].op # "delete" /\ \A v \in Workers \ {w} : job'[v] = job[v]
  BY DEF Moved
<1>2. \A s : (\E v \in Workers : job'[v].op = "delete" /\ s \in job'[v].todo)
               <=> (\E v \in Workers : job[v].op = "delete" /\ s \in job[v].todo)
  BY <1>1
<1> QED BY <1>2 DEF Requested

\* What the archive sees of a snapshot is all of it.
Complete ==
  /\ History = [s \in rows |-> files[s]]
  /\ Shared = [s \in manifests |-> files[s]]

LEMMA InvComplete ==
  /\ RemoteInv /\ LocalInv => Complete
  /\ (RemoteInv /\ LocalInv => Complete)'
<1>1. RemoteInv /\ LocalInv => Complete
  <2> SUFFICES ASSUME RemoteInv, LocalInv PROVE Complete
    OBVIOUS
  <2>1. \A s \in rows : {h \in files[s] : IF s \in synced THEN h \in bucket ELSE Readable(h)} = files[s]
    BY DEF RemoteInv, LocalInv
  <2>2. \A s \in manifests : files[s] \cap bucket = files[s]
    BY DEF RemoteInv, RemoteComplete
  <2> QED BY <2>1, <2>2 DEF Complete, History, Shared
<1>2. (RemoteInv /\ LocalInv => Complete)'
  BY <1>1, PTL
<1> QED BY <1>1, <1>2

-----------------------------------------------------------------------------
\* The actions of the archive, in terms of the tables and of R2.
LEMMA ArchiveGivesUp ==
  ASSUME Complete, Complete', UNCHANGED <<rows, files, gameOf, manifests>>,
         Requested' \subseteq Requested
  PROVE  Archive!Next
<1>1. UNCHANGED <<History, Shared>>
  BY DEF Complete
<1> QED BY <1>1 DEF Archive!Next, Archive!GiveUp

LEMMA ArchiveRequests ==
  ASSUME Complete, Complete', UNCHANGED <<rows, files, gameOf, manifests>>,
         NEW s \in rows, s \in Ids, Requested' = Requested \cup {s}
  PROVE  Archive!Next
<1>1. UNCHANGED <<History, Shared>> /\ s \in DOMAIN History
  BY DEF Complete
<1>2. Archive!Request(s)
  BY <1>1 DEF Archive!Request
<1> QED BY <1>2 DEF Archive!Next

LEMMA ArchiveWithdraws ==
  ASSUME Complete, Complete', UNCHANGED <<rows, files, gameOf>>, Requested' \subseteq Requested,
         NEW s \in Ids, manifests' = manifests \ {s}
  PROVE  Archive!Next
<1>1. History' = History
  BY DEF Complete
<1>2. Shared' = Archive!Without(Shared, s)
  BY DEF Complete, Archive!Without
<1>3. Archive!Withdraw(s)
  BY <1>1, <1>2 DEF Archive!Withdraw
<1> QED BY <1>3 DEF Archive!Next

LEMMA ArchiveShares ==
  ASSUME Complete, Complete', UNCHANGED <<rows, files, gameOf>>, Requested' = Requested,
         NEW s \in Ids, s \in rows, manifests' = manifests \cup {s}
  PROVE  Archive!Next
<1>1. History' = History /\ s \in DOMAIN History
  BY DEF Complete
<1>2. Shared' = Archive!With(Shared, s, files[s])
  BY DEF Complete, Archive!With
<1>3. Archive!Share(s)
  BY <1>1, <1>2 DEF Archive!Share
<1> QED BY <1>3 DEF Archive!Next

LEMMA ArchiveAdopts ==
  ASSUME Complete, Complete', UNCHANGED <<manifests, files, gameOf>>, Requested' = Requested,
         NEW s \in Ids, files[s] # {}, rows' = rows \cup {s}
  PROVE  Archive!Next
<1>1. Shared' = Shared
  BY DEF Complete
<1>2. History' = Archive!With(History, s, files[s])
  BY DEF Complete, Archive!With
<1>3. Archive!Adopt(s)
  BY <1>1, <1>2 DEF Archive!Adopt
<1> QED BY <1>3 DEF Archive!Next

LEMMA ArchiveRemoves ==
  ASSUME Complete, Complete', UNCHANGED <<manifests, files, gameOf>>, Requested' \subseteq Requested,
         NEW s \in Ids, rows' = rows \ {s}, s \in Requested \/ Superseded(s)
  PROVE  Archive!Next
<1>1. Shared' = Shared
  BY DEF Complete
<1>2. History' = Archive!Without(History, s)
  BY DEF Complete, Archive!Without
<1>3. Superseded(s) => Archive!Superseded(s)
  <2>1. {t \in DOMAIN History : gameOf[t] = gameOf[s] /\ t > s} = Newer(s)
    BY DEF Complete, Newer, RowsOf
  <2>2. Archive!Cardinality(Newer(s)) = Cardinality(Newer(s))
    BY DEF Archive!Cardinality, Cardinality
  <2> QED BY <2>1, <2>2 DEF Superseded, Archive!Superseded
<1>4. Archive!Remove(s)
  BY <1>1, <1>2, <1>3 DEF Archive!Remove
<1> QED BY <1>4 DEF Archive!Next

\* A new identifier, for a snapshot of this device or of another.
LEMMA ArchiveTakes ==
  ASSUME TypeOK, RemoteInv, Complete, Complete', Requested' = Requested,
         NEW s \in Unused, NEW g \in Games, NEW content \in SUBSET Hashes, content # {},
         Allocate(s, g, content),
         \/ rows' = rows \cup {s} /\ manifests' = manifests
         \/ rows' = rows /\ manifests' = manifests \cup {s}
  PROVE  Archive!Next
<1>1. s \in Ids /\ files[s] = {} /\ s \notin rows \cup manifests
  BY DEF Unused, RemoteInv
<1>2. /\ files' = [files EXCEPT ![s] = content]
      /\ gameOf' = [gameOf EXCEPT ![s] = g]
  BY DEF Allocate
<1>3. \A t \in rows \cup manifests \cup {s} : files'[t] = IF t = s THEN content ELSE files[t]
  BY <1>1, <1>2 DEF TypeOK, StoreTypeOK
<1>4. CASE rows' = rows \cup {s} /\ manifests' = manifests
  <2>1. Shared' = Shared
    BY <1>1, <1>3, <1>4 DEF Complete
  <2>2. History' = Archive!With(History, s, content)
    BY <1>3, <1>4 DEF Complete, Archive!With
  <2>3. Archive!Take(s, g, content)
    BY <1>1, <1>2, <2>1, <2>2 DEF Archive!Take, Archive!Fix
  <2> QED BY <1>1, <2>3 DEF Archive!Next
<1>5. CASE rows' = rows /\ manifests' = manifests \cup {s}
  <2>1. History' = History
    BY <1>1, <1>3, <1>5 DEF Complete
  <2>2. Shared' = Archive!With(Shared, s, content)
    BY <1>3, <1>5 DEF Complete, Archive!With
  <2>3. Archive!OtherDeviceShares(s, g, content)
    BY <1>1, <1>2, <2>1, <2>2 DEF Archive!OtherDeviceShares, Archive!Fix
  <2> QED BY <1>1, <2>3 DEF Archive!Next
<1> QED BY <1>4, <1>5

\* Each step of a worker is one of these actions.
LEMMA UploadsArchive ==
  ASSUME TypeOK, ActiveInv, CurrentListed, Complete, Complete', NEW w \in Workers,
         PutManifest(w) \/ UploadFails(w)
  PROVE  Archive!Next
<1>0. job[w] \in Job
  BY DEF TypeOK
<1>1. UNCHANGED <<rows, files, gameOf>>
  BY DEF PutManifest, UploadFails, storeVars
<1>2. job[w].pc \in {"blobs", "publish"}
  BY DEF PutManifest, UploadFails, At
<1>3. job[w].cur \in Ids /\ job[w].cur \in rows
  BY <1>0, <1>2 DEF Job, CurrentListed, ActiveInv, Uploading
<1>4. Requested' = Requested
  <2>1. job[w].op # "delete"
    BY <1>0, <1>2, OperationOfStep
  <2>2. Moved(w, {"publish"}) \/ Moved(w, {"pick"})
    BY Moves
  <2> QED BY <2>1, <2>2, RequestedKept
<1>5. manifests' = manifests \/ manifests' = manifests \cup {job[w].cur}
  BY DEF PutManifest, UploadFails, bucketVars
<1> QED BY <1>1, <1>3, <1>4, <1>5, ArchiveShares, ArchiveGivesUp

LEMMA EvictionsArchive ==
  ASSUME TypeOK, Complete, Complete', NEW w \in Workers, Evict(w) \/ EvictFails(w)
  PROVE  Archive!Next
<1>1. UNCHANGED <<rows, files, gameOf>>
  BY DEF Evict, EvictFails, storeVars
<1>2. Requested' \subseteq Requested
  <2>1. ~ \E s \in Ids, remoteToo \in BOOLEAN : DeleteSnapshot(w, s, remoteToo)
    BY DEF Evict, EvictFails, DeleteSnapshot, TakeSyncMu, At
  <2> QED BY <2>1, RequestedShrinks DEF Continue
<1>3. \E s \in Ids : manifests' = manifests \/ manifests' = manifests \ {s}
  <2>1. job[w].todo \subseteq Ids
    BY DEF TypeOK, Job, JobRecord
  <2>2. \E s \in job[w].todo : manifests' = manifests \/ manifests' = manifests \ {s}
    BY DEF Evict, EvictFails, Newest
  <2> QED BY <2>1, <2>2
<1> QED BY <1>1, <1>2, <1>3, ArchiveWithdraws, ArchiveGivesUp

LEMMA DeletionsArchive ==
  ASSUME TypeOK, CurrentListed, RetentionInv, Complete, Complete', NEW w \in Workers,
         Trim(w) \/ Unlist(w)
  PROVE  Archive!Next
<1>0. job[w] \in Job
  BY DEF TypeOK
<1>1. UNCHANGED <<manifests, files, gameOf>>
  BY DEF Trim, Unlist, DeleteSnapshotRow, DeleteRow, bucketVars
<1>2. Requested' \subseteq Requested
  <2>1. ~ \E s \in Ids, remoteToo \in BOOLEAN : DeleteSnapshot(w, s, remoteToo)
    BY DEF Trim, Unlist, DeleteSnapshot, TakeSyncMu, At
  <2> QED BY <2>1, RequestedShrinks DEF Continue, Acquire
<1>3. PICK s \in job[w].todo : s \in rows /\ rows' = rows \ {s}
  <2>1. CASE Trim(w)
    BY <2>1 DEF Trim, Newest, DeleteSnapshotRow, DeleteRow
  <2>2. CASE Unlist(w)
    BY <2>2 DEF Unlist, At, CurrentListed, DeleteSnapshotRow, DeleteRow
  <2> QED BY <2>1, <2>2
<1>4. s \in Ids
  BY <1>3 DEF TypeOK, StoreTypeOK
<1>5. s \in Requested \/ Superseded(s)
  <2>1. CASE job[w].op = "delete"
    BY <1>4, <2>1 DEF Requested
  <2>2. CASE job[w].op # "delete"
    BY <2>2 DEF Trim, Unlist, At, RetentionInv, ListInv, Retaining
  <2> QED BY <2>1, <2>2
<1> QED BY <1>1, <1>2, <1>3, <1>4, <1>5, ArchiveRemoves

LEMMA AdditionsArchive ==
  ASSUME TypeOK, RemoteInv, Complete, Complete', NEW w \in Workers,
         CreateSaved(w) \/ Import(w)
  PROVE  Archive!Next
<1>0. job[w] \in Job
  BY DEF TypeOK
<1>1. Requested' = Requested
  <2>1. job[w].op # "delete"
    BY <1>0, OperationOfStep DEF CreateSaved, Import, At, Job, JobRecord, StepsOf, Operations
  <2>2. Moved(w, {"relock", "stage"}) \/ Moved(w, {"examine"})
    BY Moves
  <2> QED BY <2>1, <2>2, RequestedKept
<1>2. CASE CreateSaved(w)
  <2>1. PICK s \in Unused : Allocate(s, job[w].game, job[w].content) /\ rows' = rows \cup {s}
    BY <1>2 DEF CreateSaved, Oldest, SaveSnapshot
  <2>2. job[w].game \in Games /\ job[w].content \in SUBSET Hashes /\ job[w].content # {}
    <3>1. job[w].op \in {"backup", "restore"}
      BY <1>0, <1>2, OperationOfStep DEF CreateSaved, At
    <3> QED BY <1>0, <1>2, <3>1 DEF CreateSaved, SkipCreate, Job, JobRecord
  <2>3. manifests' = manifests
    BY <1>2 DEF CreateSaved, bucketVars
  <2> QED BY <1>1, <2>1, <2>2, <2>3, ArchiveTakes
<1>3. CASE Import(w)
  <2>1. UNCHANGED <<manifests, files, gameOf>> /\ rows' = rows \cup {job[w].cur}
    BY <1>3 DEF Import, ImportSnapshot, bucketVars
  <2>2. job[w].cur \in Ids /\ files[job[w].cur] # {}
    BY <1>0, <1>3 DEF Import, At, Job, RemoteInv, TransferInv, Unused
  <2> QED BY <1>1, <2>1, <2>2, ArchiveAdopts
<1> QED BY <1>2, <1>3

LEMMA RequestsArchive ==
  ASSUME TypeOK, Complete, Complete', NEW w \in Workers, NEW s \in Ids, NEW remoteToo \in BOOLEAN,
         DeleteSnapshot(w, s, remoteToo)
  PROVE  Archive!Next
<1>0. job \in [Workers -> JobRecord] /\ job[w] \in Job
  BY DEF TypeOK, Job
<1>1. UNCHANGED <<rows, files, gameOf, manifests>> /\ s \in rows
  BY DEF DeleteSnapshot, storeVars, bucketVars
<1>2. Requested' = Requested \cup {s}
  <2>1. job[w].op # "delete"
    BY <1>0, OperationOfStep DEF DeleteSnapshot, TakeSyncMu, At
  <2>2. job'[w].op = "delete" /\ \A v \in Workers \ {w} : job'[v] = job[v]
    BY Moves DEF Started
  <2>3. job'[w].todo = {s}
    BY <1>0 DEF DeleteSnapshot, Advance, Idle
  <2>4. \A t \in Ids : (\E v \in Workers : job'[v].op = "delete" /\ t \in job'[v].todo)
                  <=> t = s \/ (\E v \in Workers : job[v].op = "delete" /\ t \in job[v].todo)
    BY <2>1, <2>2, <2>3
  <2> QED BY <2>4 DEF Requested
<1> QED BY <1>1, <1>2, ArchiveRequests

\* Two steps of a worker add a row, with its files and its game; no other does.
LEMMA RowsAndFiles ==
  ASSUME NEW w \in Workers, Begin(w) \/ Continue(w) \/ Acquire(w), ~CreateSaved(w), ~Import(w)
  PROVE  files' = files /\ gameOf' = gameOf /\ rows' \subseteq rows
<1> USE DEF storeVars, tableVars
<1> DEFINE Kept == files' = files /\ gameOf' = gameOf /\ rows' \subseteq rows
<1>1. ASSUME Begin(w) PROVE Kept
  BY <1>1 DEF Begin, Backup, SyncGame, SyncPending, Restore, DeleteSnapshot, ReconcileRemote
<1>2. ASSUME Acquire(w) PROVE Kept
  BY <1>2 DEF Acquire, LocalRetention, MarkActive, Unmark, Unlist, DeleteSnapshotRow, DeleteRow,
              UnlistFails, RestoreBegin
<1>3. ASSUME NEW h \in Hashes,
             \/ StoreFile(w, h) \/ IndexFile(w, h) \/ Sweep(w, h)
             \/ SweepFails(w, h) \/ EnsureBlob(w, h)
             \/ VerifyBlob(w, h) \/ FetchBlob(w, h) \/ SwapBlob(w, h)
      PROVE  Kept
  BY <1>3 DEF StoreFile, IndexFile, SaveBlob, Sweep, RemoveOrphanBlob, SweepFails,
              EnsureBlob, VerifyBlob, FetchBlob, SwapBlob
<1>4. ASSUME \/ CreateSkipped(w) \/ CreateFails(w)
             \/ Trim(w) \/ TrimDone(w) \/ SweepDone(w) \/ SyncRefused(w)
      PROVE  Kept
  BY <1>4 DEF CreateSkipped, CreateFails, Trim, DeleteSnapshotRow, DeleteRow, TrimDone, SweepDone, SyncRefused
<1>5. ASSUME \/ PickUpload(w) \/ PutManifest(w) \/ MarkSynced(w) \/ UploadFails(w)
             \/ \E g \in Games : ListExcess(w, g)
             \/ SyncDone(w) \/ Evict(w) \/ EvictFails(w) \/ EvictDone(w)
      PROVE  Kept
  BY <1>5 DEF PickUpload, PutManifest, MarkSynced, MarkSnapshotRemote, UploadFails,
              ListExcess, SyncDone, Evict, EvictFails, EvictDone
<1>6. ASSUME \/ RestoreFails(w) \/ RestoreEnds(w)
             \/ \E s \in Ids : Examine(w, s)
             \/ DownloadManifest(w) \/ ReconcileEnds(w)
      PROVE  Kept
  BY <1>6 DEF RestoreFails, RestoreEnds, Examine, DownloadManifest, ReconcileEnds
<1> QED BY <1>1, <1>2, <1>3, <1>4, <1>5, <1>6 DEF Continue

LEMMA WorkerArchives ==
  ASSUME TypeOK, RemoteInv, ActiveInv, RetentionInv, CurrentListed, Complete, Complete',
         NEW w \in Workers, Begin(w) \/ Continue(w) \/ Acquire(w)
  PROVE  Archive!Next
<1>1. CASE PutManifest(w) \/ UploadFails(w)
  BY <1>1, UploadsArchive
<1>2. CASE Evict(w) \/ EvictFails(w)
  BY <1>2, EvictionsArchive
<1>3. CASE Trim(w) \/ Unlist(w)
  BY <1>3, DeletionsArchive
<1>4. CASE CreateSaved(w) \/ Import(w)
  BY <1>4, AdditionsArchive
<1>5. CASE \E s \in Ids, remoteToo \in BOOLEAN : DeleteSnapshot(w, s, remoteToo)
  BY <1>5, RequestsArchive
<1>6. CASE /\ ~PutManifest(w) /\ ~UploadFails(w) /\ ~Evict(w) /\ ~EvictFails(w)
           /\ ~Trim(w) /\ ~Unlist(w) /\ ~CreateSaved(w) /\ ~Import(w)
           /\ ~ \E s \in Ids, remoteToo \in BOOLEAN : DeleteSnapshot(w, s, remoteToo)
  <2>1. rows' = rows
    BY <1>6, WorkerKeepsRows, RowsAndFiles
  <2>2. UNCHANGED <<files, gameOf>>
    BY <1>6, RowsAndFiles
  <2>3. manifests' = manifests
    BY <1>6, ManifestsKept
  <2>4. Requested' \subseteq Requested
    BY <1>6, RequestedShrinks
  <2> QED BY <2>1, <2>2, <2>3, <2>4, ArchiveGivesUp
<1> QED BY <1>1, <1>2, <1>3, <1>4, <1>5, <1>6

LEMMA EnvironmentArchives ==
  ASSUME TypeOK, RemoteInv, Complete, Complete', Environment
  PROVE  Archive!Next
<1>1. ASSUME NEW s \in Ids, NEW g \in Games, NEW content \in Contents,
             OtherDevicePublishes(s, g, content)
      PROVE  Archive!Next
  <2>1. s \in Unused /\ Allocate(s, g, content) /\ rows' = rows /\ manifests' = manifests \cup {s}
    BY <1>1 DEF OtherDevicePublishes
  <2>2. Requested' = Requested
    BY <1>1 DEF OtherDevicePublishes, Requested
  <2>3. content \in SUBSET Hashes /\ content # {}
    BY ContentsAssumption
  <2> QED BY <2>1, <2>2, <2>3, ArchiveTakes
<1>2. ASSUME NEW s \in Ids, OtherDeviceDeletes(s) PROVE Archive!Next
  <2>1. UNCHANGED <<rows, files, gameOf>> /\ manifests' = manifests \ {s} /\ Requested' = Requested
    BY <1>2 DEF OtherDeviceDeletes, storeVars, Requested
  <2> QED BY <2>1, ArchiveWithdraws
<1>3. ASSUME Crash PROVE Archive!Next
  <2>1. UNCHANGED <<rows, files, gameOf, manifests>> /\ Requested' = {}
    BY <1>3 DEF Crash, tableVars, bucketVars, Requested, Idle
  <2> QED BY <2>1, ArchiveGivesUp
<1> QED BY <1>1, <1>2, <1>3 DEF Environment

\* The coordinator implements SnapshotArchive: each step of a worker, of another
\* device and of a crash takes, shares, withdraws, adopts, requests or removes
\* a whole snapshot, or shows nothing, if no download stops between its renames.
THEOREM KeepsArchiveCorrect ==
  ASSUME ~SwapStops PROVE Spec => KeepsArchive
<1> DEFINE Inv == RemoteInv /\ LocksHeld /\ LocalInv /\ ActiveInv /\ RetentionInv /\ CurrentListed
<1>1. Init => Inv
  BY InitRemoteInv
  DEF Init, StoreInit, LocksHeld, Guarded, UsesR2, LocalInv, StoredInv, At, ActiveInv, Uploading, Trimming,
      RetentionInv, ListInv, Retaining, CurrentListed, Idle
<1>2. TypeOK /\ TypeOK' /\ Inv /\ [Next]_vars => Inv'
  BY RemoteInvInductive, LocksHeldInductive, LocalInvInductive, ActiveInvInductive, RetentionInvInductive,
     CurrentListedInductive
<1>3. Init => Archive!Init
  <2> SUFFICES ASSUME Init PROVE Archive!Init
    OBVIOUS
  <2>1. History = [s \in {} |-> {}] /\ Shared = [s \in {} |-> {}]
    BY DEF Init, StoreInit, History, Shared
  <2>2. Requested = {}
    BY DEF Init, Idle, Requested
  <2>3. gameOf \in [Ids -> Games]
    BY GamesAssumption DEF Init, StoreInit
  <2> QED BY <2>1, <2>2, <2>3 DEF Init, StoreInit, Archive!Init
<1>4. TypeOK /\ Inv /\ Inv' /\ [Next]_vars => [Archive!Next]_(Archive!vars)
  <2> SUFFICES ASSUME TypeOK, Inv, Inv', [Next]_vars PROVE [Archive!Next]_(Archive!vars)
    OBVIOUS
  <2>1. Complete /\ Complete'
    BY InvComplete
  <2>2. CASE Next
    BY <2>1, <2>2, WorkerArchives, EnvironmentArchives DEF Next
  <2>3. CASE UNCHANGED vars
    BY <2>3 DEF vars, storeVars, bucketVars, History, Shared, Requested, Readable, Archive!vars
  <2> QED BY <2>2, <2>3
<1> QED BY <1>1, <1>2, <1>3, <1>4, TypeCorrect, PTL DEF Spec, KeepsArchive, Archive!Spec

-----------------------------------------------------------------------------
(***************************************************************************)
(* What SnapshotArchive promises, and so Coordinator.                      *)
(***************************************************************************)
\* The identifiers of what is listed, and what they were taken of.
Listed ==
  /\ files \in [Ids -> SUBSET Hashes] /\ gameOf \in [Ids -> Games]
  /\ DOMAIN History \subseteq Ids /\ DOMAIN Shared \subseteq Ids
  /\ Archive!Faithful

\* What was taken of an identifier stays, once it is something.
Fixed == \A s \in Ids : files[s] # {} => files'[s] = files[s]

LEMMA FixFixes ==
  ASSUME Listed, NEW s \in Ids, NEW g \in Games, NEW content \in SUBSET Hashes,
         Archive!Fix(s, g, content)
  PROVE  /\ Fixed /\ files'[s] = content /\ content # {}
         /\ files' \in [Ids -> SUBSET Hashes] /\ gameOf' \in [Ids -> Games]
  BY DEF Listed, Archive!Fix, Fixed

\* A list that tells of its snapshots what was taken of them.
Tells(list, was) == DOMAIN list \subseteq Ids /\ \A t \in DOMAIN list : list[t] = was[t] /\ was[t] # {}

\* It still does when one is added with what it was taken of, or removed.
LEMMA ToldWith ==
  ASSUME NEW list, NEW s \in Ids, Fixed, files'[s] # {}, Tells(list, files)
  PROVE  Tells(Archive!With(list, s, files'[s]), files')
  BY DEF Archive!With, Fixed, Tells

LEMMA ToldWithout ==
  ASSUME NEW list, NEW s \in Ids, Fixed, Tells(list, files)
  PROVE  Tells(Archive!Without(list, s), files')
  BY DEF Archive!Without, Fixed, Tells

LEMMA ToldSame ==
  ASSUME NEW list, Fixed, Tells(list, files)
  PROVE  Tells(list, files')
  BY DEF Fixed, Tells

LEMMA ListedInductive == Listed /\ [Archive!Next]_(Archive!vars) => Listed' /\ Fixed
<1> SUFFICES ASSUME Listed, [Archive!Next]_(Archive!vars) PROVE Listed' /\ Fixed
  OBVIOUS
<1>0. /\ Tells(History, files) /\ Tells(Shared, files)
      /\ files \in [Ids -> SUBSET Hashes] /\ gameOf \in [Ids -> Games]
  BY DEF Listed, Archive!Faithful, Tells
<1>s. ASSUME UNCHANGED <<files, gameOf>>
      PROVE  Fixed /\ files' \in [Ids -> SUBSET Hashes] /\ gameOf' \in [Ids -> Games]
  BY <1>0, <1>s DEF Fixed
<1>t. ASSUME Tells(History', files'), Tells(Shared', files'),
             files' \in [Ids -> SUBSET Hashes] /\ gameOf' \in [Ids -> Games]
      PROVE  Listed'
  BY <1>t DEF Tells, Listed, Archive!Faithful
<1>1. ASSUME NEW s \in Ids, NEW g \in Games, NEW content \in SUBSET Hashes,
             Archive!Take(s, g, content)
      PROVE  Listed' /\ Fixed
  <2>1. /\ Fixed /\ files'[s] = content /\ content # {}
        /\ files' \in [Ids -> SUBSET Hashes] /\ gameOf' \in [Ids -> Games]
    BY <1>1, FixFixes DEF Archive!Take
  <2>2. History' = Archive!With(History, s, files'[s]) /\ Shared' = Shared
    BY <1>1, <2>1 DEF Archive!Take
  <2>3. Tells(History', files')
    BY <1>0, <2>1, <2>2, ToldWith
  <2>4. Tells(Shared', files')
    BY <1>0, <2>1, <2>2, ToldSame
  <2> QED BY <1>t, <2>1, <2>3, <2>4
<1>2. ASSUME NEW s \in Ids, NEW g \in Games, NEW content \in SUBSET Hashes,
             Archive!OtherDeviceShares(s, g, content)
      PROVE  Listed' /\ Fixed
  <2>1. /\ Fixed /\ files'[s] = content /\ content # {}
        /\ files' \in [Ids -> SUBSET Hashes] /\ gameOf' \in [Ids -> Games]
    BY <1>2, FixFixes DEF Archive!OtherDeviceShares
  <2>2. Shared' = Archive!With(Shared, s, files'[s]) /\ History' = History
    BY <1>2, <2>1 DEF Archive!OtherDeviceShares
  <2>3. Tells(Shared', files')
    BY <1>0, <2>1, <2>2, ToldWith
  <2>4. Tells(History', files')
    BY <1>0, <2>1, <2>2, ToldSame
  <2> QED BY <1>t, <2>1, <2>3, <2>4
<1>3. ASSUME NEW s \in Ids, Archive!Share(s) PROVE Listed' /\ Fixed
  <2>1. /\ s \in DOMAIN History /\ UNCHANGED <<files, gameOf>>
        /\ Shared' = Archive!With(Shared, s, files[s]) /\ History' = History
    BY <1>3 DEF Archive!Share
  <2>2. Fixed /\ files'[s] # {} /\ Shared' = Archive!With(Shared, s, files'[s])
    BY <1>0, <1>s, <2>1 DEF Tells
  <2>3. Tells(Shared', files')
    BY <1>0, <2>2, ToldWith
  <2>4. Tells(History', files')
    BY <1>0, <2>1, <2>2, ToldSame
  <2> QED BY <1>s, <1>t, <2>1, <2>3, <2>4
<1>4. ASSUME NEW s \in Ids, Archive!Adopt(s) PROVE Listed' /\ Fixed
  <2>1. /\ files[s] # {} /\ UNCHANGED <<files, gameOf>>
        /\ History' = Archive!With(History, s, files[s]) /\ Shared' = Shared
    BY <1>4 DEF Archive!Adopt
  <2>2. Fixed /\ files'[s] # {} /\ History' = Archive!With(History, s, files'[s])
    BY <1>0, <1>s, <2>1 DEF Tells
  <2>3. Tells(History', files')
    BY <1>0, <2>2, ToldWith
  <2>4. Tells(Shared', files')
    BY <1>0, <2>1, <2>2, ToldSame
  <2> QED BY <1>s, <1>t, <2>1, <2>3, <2>4
<1>5. ASSUME NEW s \in Ids, Archive!Withdraw(s) PROVE Listed' /\ Fixed
  <2>1. UNCHANGED <<files, gameOf>> /\ Shared' = Archive!Without(Shared, s) /\ History' = History
    BY <1>5 DEF Archive!Withdraw
  <2>2. Tells(Shared', files')
    BY <1>0, <1>s, <2>1, ToldWithout
  <2>3. Tells(History', files')
    BY <1>0, <1>s, <2>1, ToldSame
  <2> QED BY <1>s, <1>t, <2>1, <2>2, <2>3
<1>6. ASSUME NEW s \in Ids, Archive!Remove(s) PROVE Listed' /\ Fixed
  <2>1. UNCHANGED <<files, gameOf>> /\ History' = Archive!Without(History, s) /\ Shared' = Shared
    BY <1>6 DEF Archive!Remove
  <2>2. Tells(History', files')
    BY <1>0, <1>s, <2>1, ToldWithout
  <2>3. Tells(Shared', files')
    BY <1>0, <1>s, <2>1, ToldSame
  <2> QED BY <1>s, <1>t, <2>1, <2>2, <2>3
<1>7. ASSUME UNCHANGED <<files, gameOf, History, Shared>> PROVE Listed' /\ Fixed
  <2>1. Tells(History', files') /\ Tells(Shared', files')
    BY <1>0, <1>7
  <2> QED BY <1>7, <1>s, <1>t, <2>1
<1> QED
  BY <1>1, <1>2, <1>3, <1>4, <1>5, <1>6, <1>7
  DEF Archive!Next, Archive!Request, Archive!GiveUp, Archive!vars

\* What leaves the history, and what happens to the rest of it.
LEMMA NextLasting ==
  ASSUME Listed, Listed', Fixed, [Archive!Next]_(Archive!vars), NEW s \in DOMAIN History
  PROVE  IF s \in DOMAIN History' THEN History'[s] = History[s]
                                  ELSE s \in Requested \/ Archive!Superseded(s)
<1>1. CASE s \in DOMAIN History'
  <2>1. History[s] = files[s] /\ files[s] # {} /\ History'[s] = files'[s] /\ s \in Ids
    BY <1>1 DEF Listed, Archive!Faithful
  <2> QED BY <1>1, <2>1 DEF Fixed
<1>2. CASE s \notin DOMAIN History'
  <2>1. PICK t \in Ids : Archive!Remove(t)
    BY <1>2 DEF Archive!Next, Archive!Take, Archive!OtherDeviceShares, Archive!Share, Archive!Withdraw,
                Archive!Adopt, Archive!Request, Archive!GiveUp, Archive!With, Archive!vars
  <2>2. t = s
    BY <1>2, <2>1 DEF Archive!Remove, Archive!Without
  <2> QED BY <1>2, <2>1, <2>2 DEF Archive!Remove
<1> QED BY <1>1, <1>2

LEMMA InitListed == Init => Listed
<1> SUFFICES ASSUME Init PROVE Listed
  OBVIOUS
<1>1. History = [s \in {} |-> {}] /\ Shared = [s \in {} |-> {}]
  BY DEF Init, StoreInit, History, Shared
<1>2. files \in [Ids -> SUBSET Hashes] /\ gameOf \in [Ids -> Games]
  BY GamesAssumption DEF Init, StoreInit
<1> QED BY <1>1, <1>2 DEF Listed, Archive!Faithful

\* What restoring a snapshot of the history would give, from the disk or from R2,
\* is what was saved, all of it; and so is what another device would get.  It is
\* a consequence of SnapshotArchive, which Coordinator implements.
THEOREM HistoryFaithfulCorrect ==
  ASSUME ~SwapStops PROVE Spec => []Archive!Faithful
<1>1. Listed /\ [Archive!Next]_(Archive!vars) => Listed'
  BY ListedInductive
<1>2. Listed => Archive!Faithful
  BY DEF Listed
<1> QED BY <1>1, <1>2, InitListed, KeepsArchiveCorrect, PTL DEF Spec, KeepsArchive, Archive!Spec

\* What restoring a snapshot would give never changes while it is listed, by
\* whatever backups, uploads, sweeps, imports, failures and crashes, and it is
\* listed until the user has it deleted or retention may take it.
THEOREM HistoryLastingCorrect ==
  ASSUME ~SwapStops PROVE Spec => Archive!Lasting
<1>1. Listed /\ [Archive!Next]_(Archive!vars) => Listed' /\ Fixed
  BY ListedInductive
<1>2. Listed /\ Listed' /\ [Archive!Next]_(Archive!vars)
        => [\A s \in DOMAIN History :
              IF s \in DOMAIN History' THEN History'[s] = History[s]
                                       ELSE s \in Requested \/ Archive!Superseded(s)]_(Archive!vars)
  BY ListedInductive, NextLasting
<1> QED BY <1>1, <1>2, InitListed, KeepsArchiveCorrect, PTL
        DEF Spec, KeepsArchive, Archive!Spec, Archive!Lasting

=============================================================================
