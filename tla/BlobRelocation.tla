--------------------------- MODULE BlobRelocation ---------------------------
(***************************************************************************)
(* The change of the local backup directory: Coordinator.ConfigureLocal,   *)
(* PrepareBlobRelocation, Switch, Rollback and CleanupPendingBlobSources   *)
(* (internal/database/store.go), with the two journals that make it        *)
(* survive a stop, and the cleanup that Build runs at every start.         *)
(*                                                                         *)
(* A root is a directory path.  Two roots may lead to the same place (a    *)
(* symbolic link, a junction), so a file is a place and a hash.  Blobs are *)
(* copied to the new root, the index is switched in one transaction, the   *)
(* settings are saved, and the old files are removed; each of these steps  *)
(* may fail or be the last one before a stop.                              *)
(*                                                                         *)
(* ConfigureLocal holds syncMu and backupMu throughout: the operations     *)
(* that store or remove blobs happen before or after it.                   *)
(***************************************************************************)
EXTENDS Naturals, FiniteSets

CONSTANTS
  Hashes,       \* blobs
  Roots,        \* backup directories the user may configure
  Place,        \* Place[r]: the directory that path r leads to
  Slots,        \* numbers for the rows of relocation_artifacts, a bound
  MaxJournal,   \* a relocation starts with at most so many rows journalled
  None          \* no root; no artifact

ASSUME PlaceAssumption == DOMAIN Place = Roots
ASSUME SlotsAssumption == Slots \subseteq Nat
ASSUME MaxJournalAssumption == MaxJournal \in Nat
ASSUME NoneAssumption == None \notin Roots \cup Slots

VARIABLES
  index,      \* blobs.local_path: the root of the path, None without a row
  disk,       \* the valid blob files: a place and a hash each
  needed,     \* blobs of snapshots that are not in R2
  sources,    \* pending_blob_sources: hash, root of the source, target root
  artifacts,  \* relocation_artifacts, with the staging file of each
  config,     \* the root in the settings file
  blobRoot,   \* the root where new blobs are stored
  op,         \* where ConfigureLocal, or the start of the daemon, is
  receipt,    \* the BlobRelocation it works with
  before      \* sources and disk when it began (for the properties only)

libraryVars == <<index, disk, needed>>
journalVars == <<sources, artifacts>>
rootVars == <<config, blobRoot>>
opVars == <<op, receipt, before>>
vars == <<libraryVars, journalVars, rootVars, opVars>>

Places == {Place[r] : r \in Roots}
Rows == Hashes \X Roots \X Roots

\* staged: the staging file is a copy of its own; linked: it is the same file
\* as the destination.
Artifact ==
  [hash : Hashes, source : Roots, dest : Roots,
   committed : BOOLEAN, owned : BOOLEAN, renamed : BOOLEAN,
   stage : {"missing", "staged", "linked"}]

ASSUME ArtifactAssumption == None \notin Artifact

Preparing == {"prepare", "copy", "stage", "link", "rename"}

Operation ==
  [pc : {"idle", "save", "unswitch", "undo", "clean"} \cup Preparing,
   todo : SUBSET Hashes,      \* items not prepared yet
   cur : Slots \cup {None},   \* the artifact of the item in preparation
   slots : SUBSET Slots,      \* artifacts still to clean up
   rows : SUBSET Rows,        \* sources still to clean up
   exact : BOOLEAN]           \* no clean-up failed (for the properties only)

Receipt ==
  [root : Roots,                           \* the new root
   old : [Hashes -> Roots \cup {None}],    \* the items: where each blob was
   keys : SUBSET Rows, undo : SUBSET Rows] \* pendingUndoKeys, pendingUndo

IdleOperation ==
  [pc |-> "idle", todo |-> {}, cur |-> None, slots |-> {}, rows |-> {}, exact |-> FALSE]

\* Files that are gone with the operation are not kept in the state.
NoReceipt(r) ==
  [root |-> r, old |-> [h \in Hashes |-> None], keys |-> {}, undo |-> {}]

Indexed == {h \in Hashes : index[h] # None}
Used == {i \in Slots : artifacts[i] # None}

TypeOK ==
  /\ index \in [Hashes -> Roots \cup {None}]
  /\ disk \subseteq Places \X Hashes
  /\ needed \subseteq Hashes
  /\ sources \subseteq Rows
  /\ artifacts \in [Slots -> Artifact \cup {None}]
  /\ config \in Roots /\ blobRoot \in Roots
  /\ op \in Operation /\ receipt \in Receipt
  /\ op.slots \subseteq Used
  /\ op.pc \in Preparing => op.todo \subseteq Indexed
  /\ op.pc \in Preparing \ {"prepare"} => op.cur \in op.slots
  /\ before \in [sources : SUBSET Rows, disk : SUBSET (Places \X Hashes)]

FileAt(r, h) == <<Place[r], h>> \in disk

Init ==
  /\ index = [h \in Hashes |-> None]
  /\ disk = {}
  /\ needed = {}
  /\ sources = {}
  /\ artifacts = [i \in Slots |-> None]
  /\ config \in Roots /\ blobRoot = config
  /\ op = IdleOperation
  /\ receipt = NoReceipt(config)
  /\ before = [sources |-> {}, disk |-> {}]

Goto(pc) == op' = [op EXCEPT !.pc = pc]

-----------------------------------------------------------------------------
(***************************************************************************)
(* Backups, restores and deletions, which never overlap ConfigureLocal.    *)
(***************************************************************************)
\* The artifacts once the file of h at a place is removed: a staging file
\* that was linked to it is a file of its own.
Unlinked(place, h) ==
  [i \in Slots |->
     IF i \in Used /\ artifacts[i].hash = h /\ Place[artifacts[i].dest] = place
                   /\ artifacts[i].stage = "linked"
       THEN [artifacts[i] EXCEPT !.stage = "staged"]
       ELSE artifacts[i]]

Remove(place, h) ==
  /\ disk' = disk \ {<<place, h>>}
  /\ artifacts' = Unlinked(place, h)

\* storeFile puts a file into place unless one is there.
StoreFile(h) ==
  /\ op.pc = "idle"
  /\ disk' = disk \cup {<<Place[blobRoot], h>>}
  /\ UNCHANGED <<index, needed, journalVars, rootVars, opVars>>

\* The download of a restore, for a blob without a valid file where the index
\* leads, replaces the file it finds.
Download(h) ==
  /\ op.pc = "idle"
  /\ index[h] # None => ~FileAt(index[h], h)
  /\ disk' = disk \cup {<<Place[blobRoot], h>>}
  /\ artifacts' = Unlinked(Place[blobRoot], h)
  /\ UNCHANGED <<index, needed, sources, rootVars, opVars>>

\* A file that is there is indexed, whoever left it; a snapshot that refers to
\* it may be saved.
IndexFile(h) ==
  /\ op.pc = "idle"
  /\ FileAt(blobRoot, h)
  /\ index' = [index EXCEPT ![h] = blobRoot]
  /\ needed' \in {needed, needed \cup {h}}
  /\ UNCHANGED <<disk, journalVars, rootVars, opVars>>

\* The snapshots that refer to h are uploaded, or deleted.
Release(h) ==
  /\ op.pc = "idle" /\ h \in needed
  /\ needed' = needed \ {h}
  /\ UNCHANGED <<index, disk, journalVars, rootVars, opVars>>

\* removeOrphanBlob; the transaction may fail once the file is gone.
RemoveOrphan(h) ==
  /\ op.pc = "idle" /\ h \in Indexed \ needed
  /\ Remove(Place[index[h]], h)
  /\ index' \in {index, [index EXCEPT ![h] = None]}
  /\ UNCHANGED <<needed, sources, rootVars, opVars>>

-----------------------------------------------------------------------------
(***************************************************************************)
(* ConfigureLocal, PrepareBlobRelocation: every indexed blob gets a        *)
(* verified file at the new root.                                          *)
(***************************************************************************)
ConfigureLocal(r) ==
  /\ op.pc = "idle"
  /\ Cardinality(sources) + Cardinality(Used) <= MaxJournal
  /\ op' = [IdleOperation EXCEPT !.pc = "prepare", !.todo = Indexed, !.exact = TRUE]
  /\ receipt' = [NoReceipt(r) EXCEPT !.old = index]
  /\ before' = [sources |-> sources, disk |-> disk]
  /\ UNCHANGED <<libraryVars, journalVars, rootVars>>

\* A blob that is at the new root already is only verified.
VerifyItem(h) ==
  /\ op.pc = "prepare" /\ h \in op.todo
  /\ index[h] = receipt.root
  /\ FileAt(receipt.root, h)
  /\ op' = [op EXCEPT !.todo = @ \ {h}]
  /\ UNCHANGED <<libraryVars, journalVars, rootVars, receipt, before>>

\* Faulty variant, a mutant: the receipt does not learn of the artifact.
JournalItemOnly(h, i) ==
  /\ op.pc = "prepare" /\ h \in op.todo
  /\ index[h] # receipt.root
  /\ i \in Slots \ Used /\ \A j \in Slots \ Used : i <= j
  /\ artifacts' = [artifacts EXCEPT ![i] =
       [hash |-> h, source |-> index[h], dest |-> receipt.root,
        committed |-> FALSE, owned |-> FALSE, renamed |-> FALSE, stage |-> "missing"]]
  /\ op' = [op EXCEPT !.pc = "copy", !.cur = i]
  /\ UNCHANGED <<libraryVars, sources, rootVars, receipt, before>>

\* For another, a unique staging name is journalled first.
JournalItem(h, i) ==
  /\ op.pc = "prepare" /\ h \in op.todo
  /\ index[h] # receipt.root
  /\ i \in Slots \ Used /\ \A j \in Slots \ Used : i <= j
  /\ artifacts' = [artifacts EXCEPT ![i] =
       [hash |-> h, source |-> index[h], dest |-> receipt.root,
        committed |-> FALSE, owned |-> FALSE, renamed |-> FALSE, stage |-> "missing"]]
  /\ op' = [op EXCEPT !.pc = "copy", !.cur = i, !.slots = @ \cup {i}]
  /\ UNCHANGED <<libraryVars, sources, rootVars, receipt, before>>

Current == artifacts[op.cur]

SetCurrent(artifact) == artifacts' = [artifacts EXCEPT ![op.cur] = artifact]

ItemDone ==
  op' = [op EXCEPT !.pc = "prepare", !.cur = None, !.todo = @ \ {Current.hash}]

\* A valid file at the destination is used as it is.
ReuseDestination ==
  /\ op.pc = "copy"
  /\ FileAt(Current.dest, Current.hash)
  /\ ItemDone
  /\ UNCHANGED <<libraryVars, journalVars, rootVars, receipt, before>>

OwnStage ==
  /\ op.pc = "copy"
  /\ ~FileAt(Current.dest, Current.hash)
  /\ SetCurrent([Current EXCEPT !.owned = TRUE])
  /\ Goto("stage")
  /\ UNCHANGED <<libraryVars, sources, rootVars, receipt, before>>

CopyStage ==
  /\ op.pc = "stage"
  /\ FileAt(Current.source, Current.hash)
  /\ SetCurrent([Current EXCEPT !.stage = "staged"])
  /\ Goto("link")
  /\ UNCHANGED <<libraryVars, sources, rootVars, receipt, before>>

\* finalizeStagedBlob: a hard link, or, where links do not work, a rename that
\* is journalled before.
LinkStage ==
  /\ op.pc = "link"
  /\ disk' = disk \cup {<<Place[Current.dest], Current.hash>>}
  /\ SetCurrent([Current EXCEPT !.stage = "linked"])
  /\ ItemDone
  /\ UNCHANGED <<index, needed, sources, rootVars, receipt, before>>

MarkRenamed ==
  /\ op.pc = "link"
  /\ SetCurrent([Current EXCEPT !.renamed = TRUE])
  /\ Goto("rename")
  /\ UNCHANGED <<libraryVars, sources, rootVars, receipt, before>>

RenameStage ==
  /\ op.pc = "rename"
  /\ disk' = disk \cup {<<Place[Current.dest], Current.hash>>}
  /\ SetCurrent([Current EXCEPT !.stage = "missing"])
  /\ ItemDone
  /\ UNCHANGED <<index, needed, sources, rootVars, receipt, before>>

\* A file is missing or invalid, a copy or a query fails, the request is
\* cancelled, or the switch fails: the artifacts of the attempt are cleaned up.
\* The staging file may not exist, or be left, or be removed at once.
PrepareFails ==
  /\ op.pc \in Preparing
  /\ \/ UNCHANGED artifacts
     \/ op.pc = "stage" /\ \/ SetCurrent([Current EXCEPT !.stage = "staged"])
                           \/ SetCurrent([Current EXCEPT !.owned = FALSE])
     \/ op.pc = "link" /\ SetCurrent([Current EXCEPT !.stage = "missing"])
  /\ op' = [op EXCEPT !.pc = "undo", !.cur = None, !.todo = {}]
  /\ UNCHANGED <<libraryVars, sources, rootVars, receipt, before>>

-----------------------------------------------------------------------------
(***************************************************************************)
(* Switch, the settings, and Rollback.                                     *)
(***************************************************************************)
\* The sources of h that an earlier relocation to its old root left behind.
Moved(h) == {s \in Roots \ {receipt.old[h]} : <<h, s, receipt.old[h]>> \in sources}

Items == {h \in Hashes : receipt.old[h] # None}

\* The rows the switch writes: each source of a blob is obsolete once the
\* blob is at the new root.
Retargeted(h) == {<<h, s, receipt.root>> : s \in Moved(h) \cup {receipt.old[h]}}

\* Those it replaces, kept so that Rollback can restore them.
Replaced(h) == {<<h, s, receipt.old[h]>> : s \in Moved(h)} \cup (sources \cap Retargeted(h))

\* Faulty variant, a mutant: rows of earlier relocations keep their target.
SwitchOwnRowsOnly ==
  /\ op.pc = "prepare" /\ op.todo = {}
  /\ index' = [h \in Hashes |-> IF h \in Items THEN receipt.root ELSE index[h]]
  /\ LET moving == {h \in Items : receipt.old[h] # receipt.root} IN
       sources' = sources \cup {<<h, receipt.old[h], receipt.root>> : h \in moving}
  /\ artifacts' = [i \in Slots |-> IF i \in op.slots
                                     THEN [artifacts[i] EXCEPT !.committed = TRUE]
                                     ELSE artifacts[i]]
  /\ receipt' = [receipt EXCEPT !.keys = UNION {Retargeted(h) : h \in Items},
                                !.undo = UNION {Replaced(h) : h \in Items}]
  /\ Goto("save")
  /\ UNCHANGED <<disk, needed, rootVars, before>>

\* One transaction: paths, source journal and artifacts.
Switch ==
  /\ op.pc = "prepare" /\ op.todo = {}
  /\ index' = [h \in Hashes |-> IF h \in Items THEN receipt.root ELSE index[h]]
  /\ LET moving == {h \in Items : receipt.old[h] # receipt.root} IN
       sources' = (sources \ UNION {Replaced(h) : h \in moving})
                    \cup UNION {Retargeted(h) : h \in moving}
  /\ artifacts' = [i \in Slots |-> IF i \in op.slots
                                     THEN [artifacts[i] EXCEPT !.committed = TRUE]
                                     ELSE artifacts[i]]
  /\ receipt' = [receipt EXCEPT !.keys = UNION {Retargeted(h) : h \in Items},
                                !.undo = UNION {Replaced(h) : h \in Items}]
  /\ Goto("save")
  /\ UNCHANGED <<disk, needed, rootVars, before>>

\* CleanupPendingBlobSources lists all artifacts, and the sources whose target
\* is the active root.
CleanupFor(active, exact) ==
  [IdleOperation EXCEPT !.pc = "clean", !.slots = Used, !.exact = exact,
                        !.rows = {row \in sources : row[3] = active}]

SaveSettings ==
  /\ op.pc = "save"
  /\ config' = receipt.root
  /\ blobRoot' = receipt.root
  /\ op' = CleanupFor(receipt.root, op.exact)
  /\ UNCHANGED <<libraryVars, journalVars, receipt, before>>

SaveFails ==
  /\ op.pc = "save"
  /\ Goto("unswitch")
  /\ UNCHANGED <<libraryVars, journalVars, rootVars, receipt, before>>

\* Faulty variant, a mutant: the rows the switch replaced are not restored.
RollbackForgetsRows ==
  /\ op.pc = "unswitch"
  /\ index' = [h \in Hashes |-> IF h \in Items THEN receipt.old[h] ELSE index[h]]
  /\ sources' = sources \ receipt.keys
  /\ artifacts' = [i \in Slots |-> IF i \in op.slots
                                     THEN [artifacts[i] EXCEPT !.committed = FALSE]
                                     ELSE artifacts[i]]
  /\ Goto("undo")
  /\ UNCHANGED <<disk, needed, rootVars, receipt, before>>

\* Rollback: the switch back, then the clean-up of its destinations.
Rollback ==
  /\ op.pc = "unswitch"
  /\ index' = [h \in Hashes |-> IF h \in Items THEN receipt.old[h] ELSE index[h]]
  /\ sources' = (sources \ receipt.keys) \cup receipt.undo
  /\ artifacts' = [i \in Slots |-> IF i \in op.slots
                                     THEN [artifacts[i] EXCEPT !.committed = FALSE]
                                     ELSE artifacts[i]]
  /\ Goto("undo")
  /\ UNCHANGED <<disk, needed, rootVars, receipt, before>>

\* The clean-up goes on although the switch back failed.
RollbackFails ==
  /\ op.pc = "unswitch"
  /\ op' = [op EXCEPT !.pc = "undo", !.exact = FALSE]
  /\ UNCHANGED <<libraryVars, journalVars, rootVars, receipt, before>>

-----------------------------------------------------------------------------
(***************************************************************************)
(* The clean-up of artifacts, by Rollback for those of the attempt and     *)
(* by CleanupPendingBlobSources for all.                                   *)
(***************************************************************************)
\* The destination is this artifact's, and nothing took it into use.
RemovesDestination(a) ==
  /\ a.owned /\ ~a.committed /\ index[a.hash] = a.source
  /\ FileAt(a.dest, a.hash)
  /\ a.stage = "linked" \/ (a.renamed /\ a.stage = "missing")
  /\ Place[a.source] # Place[a.dest]

\* The first so many of the files of artifact i are removed: its destination,
\* if it may be, then its staging file.
DropFiles(i, count) ==
  LET a == artifacts[i]
      drops == count > 0 /\ RemovesDestination(a)
      left == IF drops THEN Unlinked(Place[a.dest], a.hash) ELSE artifacts
  IN /\ disk' = IF drops THEN disk \ {<<Place[a.dest], a.hash>>} ELSE disk
     /\ artifacts' =
          [left EXCEPT ![i] =
             IF count = 3 THEN None
             ELSE IF count = 2 /\ a.owned THEN [left[i] EXCEPT !.stage = "missing"]
             ELSE left[i]]

\* cleanupRelocationArtifact commits when all its files are gone (count = 3);
\* otherwise it keeps the row, whatever it removed.  The others go on.
CleanupArtifact(i) ==
  /\ op.pc \in {"undo", "clean"} /\ i \in op.slots
  /\ \E count \in 0..3 :
       /\ DropFiles(i, count)
       /\ op' = [op EXCEPT !.slots = @ \ {i}, !.exact = @ /\ count = 3]
  /\ UNCHANGED <<index, needed, sources, rootVars, receipt, before>>

UndoDone ==
  /\ op.pc = "undo" /\ op.slots = {}
  /\ op' = IdleOperation
  /\ receipt' = NoReceipt(config)
  /\ before' = [sources |-> {}, disk |-> {}]
  /\ UNCHANGED <<libraryVars, journalVars, rootVars>>

-----------------------------------------------------------------------------
(***************************************************************************)
(* The clean-up of sources, at the end of ConfigureLocal and at the start. *)
(***************************************************************************)
\* Faulty variant, a mutant: the files are not compared.
RemoveSourceByName(row) ==
  /\ index[row[1]] = row[3] /\ FileAt(row[3], row[1])
  /\ sources' = sources \ {row}
  /\ Remove(Place[row[2]], row[1])

\* The replacement is indexed and valid.  A source that is the same file is
\* struck from the journal only.  hasIndexedBlobPathReference finds no other
\* reference to the source: a blob has one path, named after its hash.
RemoveSource(row) ==
  /\ index[row[1]] = row[3] /\ FileAt(row[3], row[1])
  /\ sources' = sources \ {row}
  /\ IF Place[row[2]] = Place[row[3]]
       THEN UNCHANGED <<disk, artifacts>>
       ELSE Remove(Place[row[2]], row[1])

CleanupSource(row) ==
  /\ op.pc = "clean" /\ op.slots = {} /\ row \in op.rows
  /\ RemoveSource(row)
  /\ op' = [op EXCEPT !.rows = @ \ {row}]
  /\ UNCHANGED <<index, needed, rootVars, receipt, before>>

\* The blob is indexed elsewhere, or not at all: the row is left as it is.
SkipSource(row) ==
  /\ op.pc = "clean" /\ op.slots = {} /\ row \in op.rows
  /\ index[row[1]] # row[3]
  /\ op' = [op EXCEPT !.rows = @ \ {row}]
  /\ UNCHANGED <<libraryVars, journalVars, rootVars, receipt, before>>

\* An error, perhaps after the file was removed: the row stays.
CleanupSourceFails(row) ==
  /\ op.pc = "clean" /\ op.slots = {} /\ row \in op.rows
  /\ \/ UNCHANGED <<disk, artifacts>>
     \/ /\ index[row[1]] = row[3] /\ FileAt(row[3], row[1])
        /\ Place[row[2]] # Place[row[3]]
        /\ Remove(Place[row[2]], row[1])
  /\ op' = [op EXCEPT !.rows = @ \ {row}, !.exact = FALSE]
  /\ UNCHANGED <<index, needed, sources, rootVars, receipt, before>>

CleanupDone ==
  /\ op.pc = "clean" /\ op.slots = {} /\ op.rows = {}
  /\ op' = IdleOperation
  /\ receipt' = NoReceipt(config)
  /\ before' = [sources |-> {}, disk |-> {}]
  /\ UNCHANGED <<libraryVars, journalVars, rootVars>>

\* The daemon stops anywhere and starts again: Build reads the settings and
\* cleans up before anything else runs.
Restart ==
  /\ blobRoot' = config
  /\ op' = CleanupFor(config, FALSE)
  /\ receipt' = NoReceipt(config)
  /\ before' = [sources |-> {}, disk |-> {}]
  /\ UNCHANGED <<libraryVars, journalVars, config>>

-----------------------------------------------------------------------------
Library ==
  \E h \in Hashes :
    StoreFile(h) \/ Download(h) \/ IndexFile(h) \/ Release(h) \/ RemoveOrphan(h)

Prepare ==
  \/ \E r \in Roots : ConfigureLocal(r)
  \/ \E h \in Hashes : VerifyItem(h) \/ \E i \in Slots : JournalItem(h, i)
  \/ ReuseDestination \/ OwnStage \/ CopyStage \/ LinkStage \/ MarkRenamed \/ RenameStage
  \/ PrepareFails

Complete ==
  \/ Switch \/ SaveSettings \/ SaveFails \/ Rollback \/ RollbackFails
  \/ \E i \in Slots : CleanupArtifact(i)
  \/ UndoDone
  \/ \E row \in Rows : CleanupSource(row) \/ SkipSource(row) \/ CleanupSourceFails(row)
  \/ CleanupDone

Next == Library \/ Prepare \/ Complete \/ Restart

Spec == Init /\ [][Next]_vars

-----------------------------------------------------------------------------
(***************************************************************************)
(* Properties.                                                             *)
(***************************************************************************)
\* A blob that is in no other place has its file where the index says, at
\* every moment of a relocation, its failure, and the clean-up at a start.
NeededOnDisk == \A h \in needed : index[h] # None /\ FileAt(index[h], h)

\* ConfigureLocal that returns an error, all clean-ups done, has changed
\* nothing: "restores source paths before removing only destinations created
\* by this attempt" (Rollback), with the journal of earlier relocations.
UndoneExactly ==
  [][UndoDone /\ op.exact =>
       index = receipt.old /\ sources = before.sources /\ disk = before.disk]_vars

\* ConfigureLocal that cleans up without an error leaves no copy of a blob it
\* moved at the old root, nor where an unfinished relocation to the old root
\* had left one.
MovedCompletely ==
  [][CleanupDone /\ op.exact =>
       \A h \in Items, s \in Roots :
         /\ s = receipt.old[h] \/ <<h, s, receipt.old[h]>> \in before.sources
         /\ Place[s] # Place[receipt.root]
         => ~FileAt(s, h)]_vars
=============================================================================
