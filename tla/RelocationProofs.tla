-------------------------- MODULE RelocationProofs --------------------------
(***************************************************************************)
(* Theorems about BlobRelocation: every variable keeps its type, and no    *)
(* step of a relocation, of its failure or of the clean-up at a start      *)
(* takes the only copy of a blob.                                          *)
(***************************************************************************)
EXTENDS BlobRelocation, TLAPS

-----------------------------------------------------------------------------
(***************************************************************************)
(* Types.                                                                  *)
(***************************************************************************)
LEMMA IdleIsOperation == IdleOperation \in Operation
  BY DEF IdleOperation, Operation, Preparing

LEMMA NoReceiptIsReceipt == \A r \in Roots : NoReceipt(r) \in Receipt
  BY DEF NoReceipt, Receipt

LEMMA InitTypeOK == Init => TypeOK
<1> SUFFICES ASSUME Init PROVE TypeOK
  OBVIOUS
<1>1. op \in Operation /\ receipt \in Receipt
  BY IdleIsOperation, NoReceiptIsReceipt DEF Init
<1>2. op.slots = {} /\ op.pc = "idle"
  BY DEF Init, IdleOperation
<1> QED BY <1>1, <1>2 DEF Init, TypeOK, Preparing

\* The artifact in preparation exists.
LEMMA CurrentTyped ==
  ASSUME TypeOK, op.pc \in Preparing \ {"prepare"}
  PROVE  /\ op.cur \in Slots /\ op.cur \in op.slots
         /\ Current \in Artifact
  BY DEF TypeOK, Used, Current, Operation

\* What replaces it is an artifact again.
LEMMA SetCurrentTyped ==
  ASSUME TypeOK, op.pc \in Preparing \ {"prepare"},
         NEW artifact \in Artifact, SetCurrent(artifact)
  PROVE  /\ artifacts' \in [Slots -> Artifact \cup {None}]
         /\ Used' = Used
         /\ artifacts'[op.cur] = artifact
  BY CurrentTyped, ArtifactAssumption DEF TypeOK, SetCurrent, Used, Current

\* A removed file leaves the rows of the artifacts where they are.
LEMMA UnlinkedTyped ==
  ASSUME TypeOK, NEW place, NEW h
  PROVE  /\ Unlinked(place, h) \in [Slots -> Artifact \cup {None}]
         /\ \A i \in Slots : Unlinked(place, h)[i] = None <=> artifacts[i] = None
<1>1. ASSUME NEW i \in Used
      PROVE  [artifacts[i] EXCEPT !.stage = "staged"] \in Artifact
  BY DEF TypeOK, Used, Artifact
<1> QED BY <1>1, ArtifactAssumption DEF Unlinked, TypeOK, Used

LEMMA RemoveTyped ==
  ASSUME TypeOK, NEW place, NEW h, Remove(place, h)
  PROVE  /\ disk' \subseteq Places \X Hashes
         /\ artifacts' \in [Slots -> Artifact \cup {None}]
         /\ Used' = Used
  BY UnlinkedTyped DEF Remove, TypeOK, Used

\* The clean-up of one artifact touches no other row.
LEMMA DropFilesTyped ==
  ASSUME TypeOK, NEW i \in Used, NEW count \in 0..3, DropFiles(i, count)
  PROVE  /\ disk' \subseteq Places \X Hashes
         /\ artifacts' \in [Slots -> Artifact \cup {None}]
         /\ Used \ {i} \subseteq Used'
<1> DEFINE drops == count > 0 /\ RemovesDestination(artifacts[i])
           left == IF drops THEN Unlinked(Place[artifacts[i].dest], artifacts[i].hash)
                            ELSE artifacts
<1>1. /\ left \in [Slots -> Artifact \cup {None}]
      /\ \A j \in Slots : left[j] = None <=> artifacts[j] = None
  BY UnlinkedTyped DEF TypeOK
<1>2. i \in Slots /\ left[i] \in Artifact
  BY <1>1 DEF Used
<1>3. [left[i] EXCEPT !.stage = "missing"] \in Artifact
  BY <1>2 DEF Artifact
<1>4. PICK row \in Artifact \cup {None} : artifacts' = [left EXCEPT ![i] = row]
  <2>1. CASE count = 3
    BY <2>1 DEF DropFiles
  <2>2. CASE count # 3 /\ count = 2 /\ artifacts[i].owned
    BY <2>2, <1>3 DEF DropFiles
  <2>3. CASE count # 3 /\ ~(count = 2 /\ artifacts[i].owned)
    BY <2>3, <1>2 DEF DropFiles
  <2> QED BY <2>1, <2>2, <2>3
<1>5. disk' \subseteq Places \X Hashes
  BY DEF DropFiles, TypeOK
<1> HIDE DEF left
<1> QED BY <1>1, <1>4, <1>5 DEF Used

-----------------------------------------------------------------------------
LEMMA LibraryTyped ==
  ASSUME TypeOK, Library
  PROVE  TypeOK'
<1> USE DEF libraryVars, journalVars, rootVars, opVars
<1>1. ASSUME NEW h \in Hashes, StoreFile(h) PROVE TypeOK'
  BY <1>1 DEF StoreFile, TypeOK, Places, Used, Indexed
<1>2. ASSUME NEW h \in Hashes, IndexFile(h) PROVE TypeOK'
  BY <1>2 DEF IndexFile, TypeOK, Used, Preparing
<1>3. ASSUME NEW h \in Hashes, Release(h) PROVE TypeOK'
  BY <1>3 DEF Release, TypeOK, Used, Indexed
<1>4. ASSUME NEW h \in Hashes, RemoveOrphan(h) PROVE TypeOK'
  <2>1. /\ disk' \subseteq Places \X Hashes
        /\ artifacts' \in [Slots -> Artifact \cup {None}]
        /\ Used' = Used
    BY <1>4, RemoveTyped DEF RemoveOrphan
  <2>2. index' \in [Hashes -> Roots \cup {None}]
    BY <1>4 DEF RemoveOrphan, TypeOK
  <2> QED BY <1>4, <2>1, <2>2 DEF RemoveOrphan, TypeOK, Preparing
<1>5. ASSUME NEW h \in Hashes, Download(h) PROVE TypeOK'
  <2>1. /\ artifacts' \in [Slots -> Artifact \cup {None}]
        /\ Used' = Used
    BY <1>5, UnlinkedTyped DEF Download, Used
  <2>2. disk' \subseteq Places \X Hashes
    BY <1>5 DEF Download, TypeOK, Places
  <2> QED BY <1>5, <2>1, <2>2 DEF Download, TypeOK, Indexed
<1> QED BY <1>1, <1>2, <1>3, <1>4, <1>5 DEF Library

\* The steps that prepare an item write the artifact in preparation, the file
\* it stands for, and the position of the operation.
LEMMA ItemTyped ==
  ASSUME TypeOK, op.pc \in Preparing \ {"prepare"},
         NEW artifact \in Artifact, SetCurrent(artifact) \/ artifacts' = artifacts,
         op' \in Operation, op'.slots = op.slots, op'.todo \subseteq op.todo,
         op'.pc \in Preparing \ {"prepare"} => op'.cur = op.cur,
         disk' = disk \/ disk' = disk \cup {<<Place[Current.dest], Current.hash>>},
         UNCHANGED <<index, needed, sources, rootVars, receipt, before>>
  PROVE  TypeOK'
<1>1. /\ artifacts' \in [Slots -> Artifact \cup {None}]
      /\ Used' = Used
  BY SetCurrentTyped DEF TypeOK, Used
<1>2. disk' \subseteq Places \X Hashes
  BY CurrentTyped DEF TypeOK, Places, Artifact
<1>3. op'.slots \subseteq Used' /\ op'.todo \subseteq Indexed'
  BY <1>1 DEF TypeOK, Indexed
<1>4. op'.pc \in Preparing \ {"prepare"} => op'.cur \in op'.slots
  BY CurrentTyped
<1> QED BY <1>1, <1>2, <1>3, <1>4 DEF TypeOK, rootVars

LEMMA GotoTyped ==
  ASSUME TypeOK,
         NEW pc \in {"copy", "stage", "link", "rename", "save", "unswitch", "undo"}, Goto(pc)
  PROVE  op' \in Operation /\ op'.pc = pc /\ op'.cur = op.cur /\ op'.slots = op.slots
                           /\ op'.todo = op.todo
  BY DEF TypeOK, Operation, Goto, Preparing

LEMMA ItemDoneTyped ==
  ASSUME TypeOK, ItemDone
  PROVE  op' \in Operation /\ op'.pc = "prepare" /\ op'.slots = op.slots
                           /\ op'.todo = op.todo \ {Current.hash}
  BY DEF TypeOK, Operation, ItemDone, Preparing

LEMMA PrepareTyped ==
  ASSUME TypeOK, Prepare
  PROVE  TypeOK'
<1> USE DEF libraryVars, journalVars, rootVars, opVars
<1>1. ASSUME NEW r \in Roots, ConfigureLocal(r) PROVE TypeOK'
  <2>1. op' \in Operation /\ op'.slots = {} /\ op'.pc = "prepare"
    BY <1>1 DEF ConfigureLocal, IdleOperation, Operation, Preparing, Indexed
  <2>2. receipt' \in Receipt
    BY <1>1 DEF ConfigureLocal, NoReceipt, Receipt, TypeOK
  <2> QED BY <1>1, <2>1, <2>2 DEF ConfigureLocal, IdleOperation, TypeOK, Used, Indexed
<1>2. ASSUME NEW h \in Hashes, VerifyItem(h) PROVE TypeOK'
  <2>1. op' \in Operation /\ op'.slots = op.slots /\ op'.pc = "prepare"
                         /\ op'.todo \subseteq op.todo
    BY <1>2 DEF VerifyItem, Operation, TypeOK, Preparing
  <2> QED BY <1>2, <2>1 DEF VerifyItem, TypeOK, Used, Preparing, Indexed
<1>3. ASSUME NEW h \in Hashes, NEW i \in Slots, JournalItem(h, i) PROVE TypeOK'
  <2> DEFINE row == [hash |-> h, source |-> index[h], dest |-> receipt.root,
                     committed |-> FALSE, owned |-> FALSE, renamed |-> FALSE,
                     stage |-> "missing"]
  <2>1. index[h] \in Roots
    BY <1>3 DEF JournalItem, TypeOK, Indexed, Preparing
  <2>2. row \in Artifact
    BY <2>1 DEF TypeOK, Receipt, Artifact
  <2>3. artifacts' = [artifacts EXCEPT ![i] = row]
    BY <1>3 DEF JournalItem
  <2> HIDE DEF row
  <2>4. /\ artifacts' \in [Slots -> Artifact \cup {None}]
        /\ Used \cup {i} \subseteq Used'
    BY <2>2, <2>3, ArtifactAssumption DEF TypeOK, Used
  <2>5. op' \in Operation /\ op'.slots = op.slots \cup {i} /\ op'.cur = i
                         /\ op'.todo = op.todo
    BY <1>3 DEF JournalItem, Operation, TypeOK, Preparing
  <2> QED BY <1>3, <2>4, <2>5 DEF JournalItem, TypeOK, Preparing, Indexed
<1>4. CASE ReuseDestination
  BY <1>4, ItemDoneTyped, CurrentTyped, ItemTyped DEF ReuseDestination, Preparing
<1>5. CASE OwnStage
  <2>1. [Current EXCEPT !.owned = TRUE] \in Artifact
    BY <1>5, CurrentTyped DEF OwnStage, Artifact, Preparing
  <2> QED BY <1>5, <2>1, GotoTyped, ItemTyped DEF OwnStage, Preparing
<1>6. CASE CopyStage
  <2>1. [Current EXCEPT !.stage = "staged"] \in Artifact
    BY <1>6, CurrentTyped DEF CopyStage, Artifact, Preparing
  <2> QED BY <1>6, <2>1, GotoTyped, ItemTyped DEF CopyStage, Preparing
<1>7. CASE LinkStage
  <2>1. [Current EXCEPT !.stage = "linked"] \in Artifact
    BY <1>7, CurrentTyped DEF LinkStage, Artifact, Preparing
  <2> QED BY <1>7, <2>1, ItemDoneTyped, ItemTyped DEF LinkStage, Preparing
<1>8. CASE MarkRenamed
  <2>1. [Current EXCEPT !.renamed = TRUE] \in Artifact
    BY <1>8, CurrentTyped DEF MarkRenamed, Artifact, Preparing
  <2> QED BY <1>8, <2>1, GotoTyped, ItemTyped DEF MarkRenamed, Preparing
<1>9. CASE RenameStage
  <2>1. [Current EXCEPT !.stage = "missing"] \in Artifact
    BY <1>9, CurrentTyped DEF RenameStage, Artifact, Preparing
  <2> QED BY <1>9, <2>1, ItemDoneTyped, ItemTyped DEF RenameStage, Preparing
<1>10. CASE PrepareFails
  <2>1. op' \in Operation /\ op'.slots = op.slots /\ op'.pc = "undo"
    BY <1>10 DEF PrepareFails, TypeOK, Operation
  <2>2. /\ artifacts' \in [Slots -> Artifact \cup {None}]
        /\ Used' = Used
    <3>1. CASE UNCHANGED artifacts
      BY <3>1 DEF TypeOK, Used
    <3>2. CASE op.pc \in {"stage", "link"}
      <4>1. /\ [Current EXCEPT !.stage = "staged"] \in Artifact
            /\ [Current EXCEPT !.stage = "missing"] \in Artifact
            /\ [Current EXCEPT !.owned = FALSE] \in Artifact
        BY <3>2, CurrentTyped DEF Artifact, Preparing
      <4>2. PICK artifact \in Artifact : UNCHANGED artifacts \/ SetCurrent(artifact)
        BY <1>10, <4>1 DEF PrepareFails
      <4> QED BY <3>1, <3>2, <4>2, SetCurrentTyped DEF Preparing
    <3> QED BY <1>10, <3>1, <3>2 DEF PrepareFails
  <2> QED BY <1>10, <2>1, <2>2 DEF PrepareFails, TypeOK, Preparing
<1> QED BY <1>1, <1>2, <1>3, <1>4, <1>5, <1>6, <1>7, <1>8, <1>9, <1>10 DEF Prepare

-----------------------------------------------------------------------------
\* The artifacts of the receipt, marked or unmarked as committed.
LEMMA MarkedTyped ==
  ASSUME TypeOK, NEW flag \in BOOLEAN,
         artifacts' = [i \in Slots |-> IF i \in op.slots
                                         THEN [artifacts[i] EXCEPT !.committed = flag]
                                         ELSE artifacts[i]]
  PROVE  artifacts' \in [Slots -> Artifact \cup {None}] /\ Used' = Used
<1>1. ASSUME NEW i \in Used
      PROVE  [artifacts[i] EXCEPT !.committed = flag] \in Artifact
  BY DEF TypeOK, Used, Artifact
<1> QED BY <1>1, ArtifactAssumption DEF TypeOK, Used

\* The rows of the journal name roots.
LEMMA RowsTyped ==
  ASSUME TypeOK, NEW h \in Items
  PROVE  Retargeted(h) \subseteq Rows /\ Replaced(h) \subseteq Rows
<1>1. h \in Hashes /\ receipt.old[h] \in Roots /\ receipt.root \in Roots
  BY DEF TypeOK, Items, Receipt
<1>2. Moved(h) \subseteq Roots
  BY DEF Moved
<1>3. Retargeted(h) \subseteq Rows
  BY <1>1, <1>2 DEF Retargeted, Rows
<1>4. {<<h, s, receipt.old[h]>> : s \in Moved(h)} \subseteq Rows
  BY <1>1, <1>2 DEF Rows
<1> QED BY <1>3, <1>4 DEF Replaced, TypeOK

LEMMA CleanupForTyped ==
  ASSUME TypeOK, NEW active, NEW exact \in BOOLEAN
  PROVE  /\ CleanupFor(active, exact) \in Operation
         /\ CleanupFor(active, exact).slots = Used
         /\ CleanupFor(active, exact).pc = "clean"
  BY DEF TypeOK, CleanupFor, IdleOperation, Operation, Used

LEMMA IdleTyped ==
  ASSUME TypeOK, op' = IdleOperation, receipt' = NoReceipt(config),
         before' = [sources |-> {}, disk |-> {}],
         UNCHANGED <<libraryVars, journalVars, rootVars>>
  PROVE  TypeOK'
<1>1. op' \in Operation /\ op'.pc = "idle" /\ op'.slots = {}
  BY IdleIsOperation DEF IdleOperation
<1>2. receipt' \in Receipt
  BY NoReceiptIsReceipt DEF TypeOK
<1> QED BY <1>1, <1>2 DEF TypeOK, libraryVars, journalVars, rootVars, Used, Preparing

\* A source that is cleaned up, or that could not be, is struck from the list.
LEMMA SourceTyped ==
  ASSUME TypeOK, op.pc = "clean", NEW row, NEW exact \in BOOLEAN,
         op' = [op EXCEPT !.rows = @ \ {row}, !.exact = exact],
         UNCHANGED <<disk, artifacts>> \/ Remove(Place[row[2]], row[1]),
         sources' \subseteq sources,
         UNCHANGED <<index, needed, rootVars, receipt, before>>
  PROVE  TypeOK'
<1>1. op' \in Operation /\ op'.pc = "clean" /\ op'.slots = op.slots
  BY DEF TypeOK, Operation
<1>2. /\ disk' \subseteq Places \X Hashes
      /\ artifacts' \in [Slots -> Artifact \cup {None}]
      /\ Used' = Used
  BY RemoveTyped DEF TypeOK, Used
<1> QED BY <1>1, <1>2 DEF TypeOK, rootVars, Preparing

LEMMA CompleteTyped ==
  ASSUME TypeOK, Complete
  PROVE  TypeOK'
<1> USE DEF libraryVars, journalVars, rootVars, opVars
<1>1. CASE Switch
  <2>1. op' \in Operation /\ op'.pc = "save" /\ op'.slots = op.slots
    BY <1>1, GotoTyped DEF Switch
  <2>2. index' \in [Hashes -> Roots \cup {None}]
    BY <1>1 DEF Switch, TypeOK, Receipt
  <2>3. sources' \subseteq Rows
    BY <1>1, RowsTyped DEF Switch, TypeOK
  <2>4. artifacts' \in [Slots -> Artifact \cup {None}] /\ Used' = Used
    BY <1>1, MarkedTyped DEF Switch
  <2>5. receipt' \in Receipt
    <3>1. UNION {Retargeted(h) : h \in Items} \in SUBSET Rows
      BY RowsTyped
    <3>2. UNION {Replaced(h) : h \in Items} \in SUBSET Rows
      BY RowsTyped
    <3> QED BY <1>1, <3>1, <3>2 DEF Switch, TypeOK, Receipt
  <2> QED BY <1>1, <2>1, <2>2, <2>3, <2>4, <2>5 DEF Switch, TypeOK, Preparing
<1>2. CASE SaveSettings
  <2>1. op.exact \in BOOLEAN /\ receipt.root \in Roots
    BY DEF TypeOK, Operation, Receipt
  <2>2. op' \in Operation /\ op'.pc = "clean" /\ op'.slots = Used
    BY <1>2, <2>1, CleanupForTyped DEF SaveSettings
  <2> QED BY <1>2, <2>1, <2>2 DEF SaveSettings, TypeOK, Used, Preparing
<1>3. CASE SaveFails
  <2>1. op' \in Operation /\ op'.pc = "unswitch" /\ op'.slots = op.slots
    BY <1>3, GotoTyped DEF SaveFails
  <2> QED BY <1>3, <2>1 DEF SaveFails, TypeOK, Used, Preparing
<1>4. CASE Rollback
  <2>1. op' \in Operation /\ op'.pc = "undo" /\ op'.slots = op.slots
    BY <1>4, GotoTyped DEF Rollback
  <2>2. index' \in [Hashes -> Roots \cup {None}]
    BY <1>4 DEF Rollback, TypeOK, Receipt
  <2>3. sources' \subseteq Rows
    BY <1>4 DEF Rollback, TypeOK, Receipt
  <2>4. artifacts' \in [Slots -> Artifact \cup {None}] /\ Used' = Used
    BY <1>4, MarkedTyped DEF Rollback
  <2> QED BY <1>4, <2>1, <2>2, <2>3, <2>4 DEF Rollback, TypeOK, Preparing
<1>5. CASE RollbackFails
  <2>1. op' \in Operation /\ op'.pc = "undo" /\ op'.slots = op.slots
    BY <1>5 DEF RollbackFails, TypeOK, Operation
  <2> QED BY <1>5, <2>1 DEF RollbackFails, TypeOK, Used, Preparing
<1>6. ASSUME NEW i \in Slots, CleanupArtifact(i) PROVE TypeOK'
  <2>1. PICK count \in 0..3 :
          DropFiles(i, count) /\ op' = [op EXCEPT !.slots = @ \ {i}, !.exact = @ /\ count = 3]
    BY <1>6 DEF CleanupArtifact
  <2>2. op' \in Operation /\ op'.pc \in {"undo", "clean"} /\ op'.slots = op.slots \ {i}
    <3>1. (op.exact /\ count = 3) \in BOOLEAN
      OBVIOUS
    <3> QED BY <1>6, <2>1, <3>1 DEF CleanupArtifact, TypeOK, Operation
  <2>3. i \in Used
    BY <1>6 DEF CleanupArtifact, TypeOK
  <2>4. /\ disk' \subseteq Places \X Hashes
        /\ artifacts' \in [Slots -> Artifact \cup {None}]
        /\ Used \ {i} \subseteq Used'
    BY <2>1, <2>3, DropFilesTyped
  <2> QED BY <1>6, <2>2, <2>4 DEF CleanupArtifact, TypeOK, Preparing
<1>7. CASE UndoDone
  BY <1>7, IdleTyped DEF UndoDone
<1>8. ASSUME NEW row \in Rows, CleanupSource(row) PROVE TypeOK'
  <2>1. op' = [op EXCEPT !.rows = @ \ {row}, !.exact = op.exact] /\ op.exact \in BOOLEAN
    BY <1>8 DEF CleanupSource, TypeOK, Operation
  <2> QED BY <1>8, <2>1, SourceTyped DEF CleanupSource, RemoveSource
<1>9. ASSUME NEW row \in Rows, SkipSource(row) PROVE TypeOK'
  <2>1. op' = [op EXCEPT !.rows = @ \ {row}, !.exact = op.exact] /\ op.exact \in BOOLEAN
    BY <1>9 DEF SkipSource, TypeOK, Operation
  <2> QED BY <1>9, <2>1, SourceTyped DEF SkipSource
<1>10. ASSUME NEW row \in Rows, CleanupSourceFails(row) PROVE TypeOK'
  BY <1>10, SourceTyped DEF CleanupSourceFails
<1>11. CASE CleanupDone
  BY <1>11, IdleTyped DEF CleanupDone
<1> QED BY <1>1, <1>2, <1>3, <1>4, <1>5, <1>6, <1>7, <1>8, <1>9, <1>10, <1>11 DEF Complete

LEMMA RestartTyped ==
  ASSUME TypeOK, Restart
  PROVE  TypeOK'
<1>1. op' \in Operation /\ op'.pc = "clean" /\ op'.slots = Used
  BY CleanupForTyped DEF Restart
<1>2. receipt' \in Receipt
  BY NoReceiptIsReceipt DEF Restart, TypeOK
<1> QED BY <1>1, <1>2 DEF Restart, TypeOK, libraryVars, journalVars, Used, Preparing

LEMMA NextTyped == TypeOK /\ [Next]_vars => TypeOK'
<1>1. ASSUME TypeOK, UNCHANGED vars PROVE TypeOK'
  BY <1>1 DEF vars, libraryVars, journalVars, rootVars, opVars, TypeOK, Used, Indexed
<1> QED BY <1>1, LibraryTyped, PrepareTyped, CompleteTyped, RestartTyped DEF Next

\* Every variable keeps its type; the artifacts that ConfigureLocal still has
\* to clean up are journalled, and the items it still has to prepare have a
\* path in the index.
THEOREM TypeCorrect == Spec => []TypeOK
  BY InitTypeOK, NextTyped, PTL DEF Spec

-----------------------------------------------------------------------------
(***************************************************************************)
(* The files of the needed blobs.  Until the switch the old files are      *)
(* indexed and the new ones are verified one by one; after it both exist,  *)
(* so that either settles the operation; the clean-ups remove a file only  *)
(* where the index does not lead.                                          *)
(***************************************************************************)
\* What is prepared is at the new root.
Prepared ==
  op.pc \in Preparing =>
    /\ index = receipt.old
    /\ \A h \in needed \ op.todo : FileAt(receipt.root, h)

InPreparation == op.pc \in Preparing \ {"prepare"} => Current.dest = receipt.root

\* What a rollback returns to is still there.
Switched ==
  op.pc \in {"save", "unswitch"} =>
    \A h \in needed : receipt.old[h] # None /\ FileAt(receipt.old[h], h)

IInv == TypeOK /\ NeededOnDisk /\ Prepared /\ InPreparation /\ Switched

LEMMA InitIInv == Init => IInv
  BY InitTypeOK
  DEF Init, IInv, NeededOnDisk, Prepared, InPreparation, Switched, Preparing, IdleOperation

\* Outside the preparation and the switch only NeededOnDisk says anything.
LEMMA Settled ==
  ASSUME TypeOK', NeededOnDisk', op'.pc \notin Preparing \cup {"save", "unswitch"}
  PROVE  IInv'
  BY DEF IInv, Prepared, InPreparation, Switched, Preparing

\* Files other than the one the index leads to may go.
LEMMA OthersRemoved ==
  ASSUME IInv, UNCHANGED <<index, needed>>,
         NEW h, NEW place, disk' = disk \ {<<place, h>>},
         h \in needed => Place[index[h]] # place
  PROVE  NeededOnDisk'
  BY DEF IInv, NeededOnDisk, FileAt

LEMMA LibraryKeeps ==
  ASSUME IInv, Library
  PROVE  IInv'
<1> USE DEF libraryVars, journalVars, rootVars, opVars
<1>1. TypeOK'
  BY LibraryTyped DEF IInv
<1>2. op.pc = "idle" /\ op' = op
  BY DEF Library, StoreFile, Download, IndexFile, Release, RemoveOrphan
<1>3. NeededOnDisk'
  <2>1. ASSUME NEW h \in Hashes, StoreFile(h) \/ Download(h) PROVE NeededOnDisk'
    BY <2>1 DEF StoreFile, Download, IInv, NeededOnDisk, FileAt
  <2>2. ASSUME NEW h \in Hashes, IndexFile(h) PROVE NeededOnDisk'
    <3>1. blobRoot # None /\ index' = [index EXCEPT ![h] = blobRoot] /\ FileAt(blobRoot, h)
      BY <2>2, NoneAssumption DEF IndexFile, IInv, TypeOK
    <3> QED BY <2>2, <3>1 DEF IndexFile, IInv, TypeOK, NeededOnDisk, FileAt
  <2>3. ASSUME NEW h \in Hashes, Release(h) PROVE NeededOnDisk'
    BY <2>3 DEF Release, IInv, NeededOnDisk, FileAt
  <2>4. ASSUME NEW h \in Hashes, RemoveOrphan(h) PROVE NeededOnDisk'
    BY <2>4 DEF RemoveOrphan, Remove, IInv, TypeOK, NeededOnDisk, FileAt
  <2> QED BY <2>1, <2>2, <2>3, <2>4 DEF Library
<1> QED BY <1>1, <1>2, <1>3, Settled DEF Preparing

\* An item is done when its file is at the new root; nothing is lost meanwhile.
LEMMA ItemKeeps ==
  ASSUME IInv, op.pc \in Preparing, TypeOK', op'.pc \in Preparing,
         disk \subseteq disk', UNCHANGED <<index, needed, receipt>>,
         \A h \in op.todo \ op'.todo : <<Place[receipt.root], h>> \in disk',
         op'.pc # "prepare" => Current'.dest = receipt.root
  PROVE  IInv'
<1>1. NeededOnDisk'
  BY DEF IInv, NeededOnDisk, FileAt
<1>2. Prepared'
  BY DEF IInv, Prepared, FileAt
<1> QED BY <1>1, <1>2 DEF IInv, InPreparation, Switched, Preparing

LEMMA ReplacementKeepsDestination ==
  ASSUME IInv, op.pc \in Preparing \ {"prepare"}, NEW artifact \in Artifact,
         artifact.dest = Current.dest, SetCurrent(artifact), op'.cur = op.cur
  PROVE  Current'.dest = receipt.root
<1>1. artifacts'[op.cur] = artifact
  BY SetCurrentTyped DEF IInv
<1> QED BY <1>1 DEF Current, IInv, InPreparation

LEMMA PrepareKeeps ==
  ASSUME IInv, Prepare
  PROVE  IInv'
<1> USE DEF libraryVars, journalVars, rootVars, opVars
<1>0. TypeOK' /\ TypeOK
  BY PrepareTyped DEF IInv
<1>1. ASSUME NEW r \in Roots, ConfigureLocal(r) PROVE IInv'
  <2>1. op'.pc = "prepare" /\ op'.todo = Indexed /\ receipt'.old = index
    BY <1>1 DEF ConfigureLocal, IdleOperation, NoReceipt
  <2>2. NeededOnDisk'
    BY <1>1 DEF ConfigureLocal, IInv, NeededOnDisk, FileAt
  <2>3. needed' \ op'.todo = {}
    BY <1>1, <2>1, <1>0 DEF ConfigureLocal, IInv, NeededOnDisk, Indexed, TypeOK
  <2>4. Prepared'
    BY <1>1, <2>1, <2>3 DEF ConfigureLocal, Prepared
  <2> QED BY <1>0, <2>1, <2>2, <2>4 DEF IInv, InPreparation, Switched
<1>2. ASSUME NEW h \in Hashes, VerifyItem(h) PROVE IInv'
  <2>1. op'.pc = "prepare" /\ op'.todo = op.todo \ {h}
    BY <1>0, <1>2 DEF VerifyItem, TypeOK, Operation
  <2> QED BY <1>0, <1>2, <2>1, ItemKeeps DEF VerifyItem, FileAt, Preparing
<1>3. ASSUME NEW h \in Hashes, NEW i \in Slots, JournalItem(h, i) PROVE IInv'
  <2>1. op'.pc = "copy" /\ op'.todo = op.todo /\ op'.cur = i
    BY <1>0, <1>3 DEF JournalItem, TypeOK, Operation
  <2>2. artifacts'[i].dest = receipt.root
    BY <1>0, <1>3 DEF JournalItem, TypeOK
  <2>3. Current'.dest = receipt.root
    BY <2>1, <2>2 DEF Current
  <2> QED BY <1>0, <1>3, <2>1, <2>3, ItemKeeps DEF JournalItem, Preparing
<1>4. CASE ReuseDestination
  <2>1. Current.dest = receipt.root
    BY <1>4 DEF ReuseDestination, IInv, InPreparation, Preparing
  <2>2. op'.pc = "prepare" /\ op'.todo = op.todo \ {Current.hash}
    BY <1>0, <1>4, ItemDoneTyped DEF ReuseDestination
  <2> QED BY <1>0, <1>4, <2>1, <2>2, ItemKeeps DEF ReuseDestination, FileAt, Preparing
<1>5. CASE OwnStage
  <2>1. op.pc \in Preparing \ {"prepare"} /\ Current \in Artifact
    BY <1>0, <1>5, CurrentTyped DEF OwnStage, Preparing
  <2>2. [Current EXCEPT !.owned = TRUE] \in Artifact
        /\ [Current EXCEPT !.owned = TRUE].dest = Current.dest
    BY <2>1 DEF Artifact
  <2>3. op'.pc = "stage" /\ op'.cur = op.cur /\ op'.todo = op.todo
    BY <1>0, <1>5, GotoTyped DEF OwnStage
  <2>4. Current'.dest = receipt.root
    BY <1>5, <2>1, <2>2, <2>3, ReplacementKeepsDestination DEF OwnStage
  <2> QED BY <1>0, <1>5, <2>1, <2>3, <2>4, ItemKeeps DEF OwnStage, Preparing
<1>6. CASE CopyStage
  <2>1. op.pc \in Preparing \ {"prepare"} /\ Current \in Artifact
    BY <1>0, <1>6, CurrentTyped DEF CopyStage, Preparing
  <2>2. [Current EXCEPT !.stage = "staged"] \in Artifact
        /\ [Current EXCEPT !.stage = "staged"].dest = Current.dest
    BY <2>1 DEF Artifact
  <2>3. op'.pc = "link" /\ op'.cur = op.cur /\ op'.todo = op.todo
    BY <1>0, <1>6, GotoTyped DEF CopyStage
  <2>4. Current'.dest = receipt.root
    BY <1>6, <2>1, <2>2, <2>3, ReplacementKeepsDestination DEF CopyStage
  <2> QED BY <1>0, <1>6, <2>1, <2>3, <2>4, ItemKeeps DEF CopyStage, Preparing
<1>7. CASE LinkStage
  <2>1. Current.dest = receipt.root
    BY <1>7 DEF LinkStage, IInv, InPreparation, Preparing
  <2>2. op'.pc = "prepare" /\ op'.todo = op.todo \ {Current.hash}
    BY <1>0, <1>7, ItemDoneTyped DEF LinkStage
  <2> QED BY <1>0, <1>7, <2>1, <2>2, ItemKeeps DEF LinkStage, Preparing
<1>8. CASE MarkRenamed
  <2>1. op.pc \in Preparing \ {"prepare"} /\ Current \in Artifact
    BY <1>0, <1>8, CurrentTyped DEF MarkRenamed, Preparing
  <2>2. [Current EXCEPT !.renamed = TRUE] \in Artifact
        /\ [Current EXCEPT !.renamed = TRUE].dest = Current.dest
    BY <2>1 DEF Artifact
  <2>3. op'.pc = "rename" /\ op'.cur = op.cur /\ op'.todo = op.todo
    BY <1>0, <1>8, GotoTyped DEF MarkRenamed
  <2>4. Current'.dest = receipt.root
    BY <1>8, <2>1, <2>2, <2>3, ReplacementKeepsDestination DEF MarkRenamed
  <2> QED BY <1>0, <1>8, <2>1, <2>3, <2>4, ItemKeeps DEF MarkRenamed, Preparing
<1>9. CASE RenameStage
  <2>1. Current.dest = receipt.root
    BY <1>9 DEF RenameStage, IInv, InPreparation, Preparing
  <2>2. op'.pc = "prepare" /\ op'.todo = op.todo \ {Current.hash}
    BY <1>0, <1>9, ItemDoneTyped DEF RenameStage
  <2> QED BY <1>0, <1>9, <2>1, <2>2, ItemKeeps DEF RenameStage, Preparing
<1>10. CASE PrepareFails
  <2>1. op'.pc = "undo"
    BY <1>0, <1>10 DEF PrepareFails, TypeOK, Operation
  <2>2. NeededOnDisk'
    BY <1>10 DEF PrepareFails, IInv, NeededOnDisk, FileAt
  <2> QED BY <1>0, <2>1, <2>2, Settled DEF Preparing
<1> QED BY <1>1, <1>2, <1>3, <1>4, <1>5, <1>6, <1>7, <1>8, <1>9, <1>10 DEF Prepare

\* The files that cleanupRelocationArtifact removes: the destination of an
\* artifact only while the index leads to its source, in another place.
LEMMA DropFilesKeeps ==
  ASSUME IInv, UNCHANGED <<index, needed>>, NEW i \in Used, NEW count \in 0..3,
         DropFiles(i, count)
  PROVE  NeededOnDisk'
<1>1. CASE count > 0 /\ RemovesDestination(artifacts[i])
  <2>1. disk' = disk \ {<<Place[artifacts[i].dest], artifacts[i].hash>>}
    BY <1>1 DEF DropFiles
  <2>2. Place[index[artifacts[i].hash]] # Place[artifacts[i].dest]
    BY <1>1 DEF RemovesDestination
  <2> QED BY <2>1, <2>2, OthersRemoved
<1>2. CASE ~(count > 0 /\ RemovesDestination(artifacts[i]))
  BY <1>2 DEF DropFiles, IInv, NeededOnDisk, FileAt
<1> QED BY <1>1, <1>2

LEMMA CompleteKeeps ==
  ASSUME IInv, Complete
  PROVE  IInv'
<1> USE DEF libraryVars, journalVars, rootVars, opVars
<1>0. TypeOK' /\ TypeOK
  BY CompleteTyped DEF IInv
<1>1. CASE Switch
  <2>1. op'.pc = "save"
    BY <1>0, <1>1, GotoTyped DEF Switch
  <2>2. /\ op.pc \in Preparing /\ op.todo = {}
        /\ receipt'.old = receipt.old /\ receipt'.root = receipt.root
    BY <1>0, <1>1 DEF Switch, Preparing, TypeOK, Receipt
  <2>3. \A h \in needed : /\ h \in Items
                          /\ receipt.old[h] # None
                          /\ FileAt(receipt.old[h], h)
                          /\ FileAt(receipt.root, h)
    BY <1>0, <2>2 DEF IInv, Prepared, NeededOnDisk, Items, TypeOK
  <2>4. \A h \in needed : index'[h] = receipt.root /\ receipt.root # None
    BY <1>0, <1>1, <2>3, NoneAssumption DEF Switch, TypeOK, Receipt
  <2>5. UNCHANGED <<needed, disk>>
    BY <1>1 DEF Switch
  <2>6. NeededOnDisk'
    BY <2>3, <2>4, <2>5 DEF NeededOnDisk, FileAt
  <2>7. Switched'
    BY <2>2, <2>3, <2>5 DEF Switched, FileAt
  <2> QED BY <1>0, <2>1, <2>6, <2>7 DEF IInv, Prepared, InPreparation, Preparing
<1>2. CASE SaveSettings
  <2>1. op'.pc = "clean"
    BY <1>0, <1>2 DEF SaveSettings, CleanupFor, IdleOperation
  <2>2. NeededOnDisk'
    BY <1>2 DEF SaveSettings, IInv, NeededOnDisk, FileAt
  <2> QED BY <1>0, <2>1, <2>2, Settled DEF Preparing
<1>3. CASE SaveFails
  <2>1. op'.pc = "unswitch"
    BY <1>0, <1>3, GotoTyped DEF SaveFails
  <2>2. NeededOnDisk' /\ Switched'
    BY <1>3 DEF SaveFails, IInv, NeededOnDisk, Switched, FileAt
  <2> QED BY <1>0, <2>1, <2>2 DEF IInv, Prepared, InPreparation, Preparing
<1>4. CASE Rollback
  <2>1. op'.pc = "undo"
    BY <1>0, <1>4, GotoTyped DEF Rollback
  <2>2. \A h \in needed : h \in Hashes /\ receipt.old[h] # None /\ FileAt(receipt.old[h], h)
    BY <1>0, <1>4 DEF Rollback, IInv, Switched, TypeOK
  <2>3. \A h \in needed : index'[h] = receipt.old[h]
    BY <1>4, <2>2 DEF Rollback, Items
  <2>4. NeededOnDisk'
    BY <1>4, <2>2, <2>3 DEF Rollback, NeededOnDisk, FileAt
  <2> QED BY <1>0, <2>1, <2>4, Settled DEF Preparing
<1>5. CASE RollbackFails
  <2>1. op'.pc = "undo"
    BY <1>0, <1>5 DEF RollbackFails, TypeOK, Operation
  <2>2. NeededOnDisk'
    BY <1>5 DEF RollbackFails, IInv, NeededOnDisk, FileAt
  <2> QED BY <1>0, <2>1, <2>2, Settled DEF Preparing
<1>6. ASSUME NEW i \in Slots, CleanupArtifact(i) PROVE IInv'
  <2>1. op'.pc \in {"undo", "clean"}
    BY <1>0, <1>6 DEF CleanupArtifact, TypeOK, Operation
  <2>2. i \in Used
    BY <1>0, <1>6 DEF CleanupArtifact, TypeOK
  <2>3. NeededOnDisk'
    BY <1>6, <2>2, DropFilesKeeps DEF CleanupArtifact
  <2> QED BY <1>0, <2>1, <2>3, Settled DEF Preparing
<1>7. CASE UndoDone \/ CleanupDone
  <2>1. op'.pc = "idle"
    BY <1>7 DEF UndoDone, CleanupDone, IdleOperation
  <2>2. NeededOnDisk'
    BY <1>7 DEF UndoDone, CleanupDone, IInv, NeededOnDisk, FileAt
  <2> QED BY <1>0, <2>1, <2>2, Settled DEF Preparing
<1>8. ASSUME NEW row \in Rows, CleanupSource(row) \/ SkipSource(row) \/ CleanupSourceFails(row)
      PROVE  IInv'
  <2>1. op'.pc = "clean"
    <3>1. /\ op.pc = "clean"
          /\ \/ op' = [op EXCEPT !.rows = @ \ {row}]
             \/ op' = [op EXCEPT !.rows = @ \ {row}, !.exact = FALSE]
      BY <1>8 DEF CleanupSource, SkipSource, CleanupSourceFails
    <3>2. op \in Operation
      BY <1>0 DEF TypeOK
    <3> QED BY <3>1, <3>2 DEF Operation
  <2>2. UNCHANGED <<index, needed>>
    BY <1>8 DEF CleanupSource, SkipSource, CleanupSourceFails
  <2>3. NeededOnDisk'
    <3>1. CASE UNCHANGED disk
      BY <2>2, <3>1 DEF IInv, NeededOnDisk, FileAt
    <3>2. CASE /\ index[row[1]] = row[3] /\ Place[row[2]] # Place[row[3]]
               /\ Remove(Place[row[2]], row[1])
      BY <2>2, <3>2, OthersRemoved DEF Remove
    <3> QED BY <1>8, <3>1, <3>2
              DEF CleanupSource, RemoveSource, SkipSource, CleanupSourceFails
  <2> QED BY <1>0, <2>1, <2>3, Settled DEF Preparing
<1> QED BY <1>1, <1>2, <1>3, <1>4, <1>5, <1>6, <1>7, <1>8 DEF Complete

LEMMA NextKeeps == IInv /\ [Next]_vars => IInv'
<1>1. ASSUME IInv, Restart PROVE IInv'
  <2>1. TypeOK' /\ op'.pc = "clean"
    BY <1>1, RestartTyped DEF IInv, Restart, CleanupFor, IdleOperation
  <2>2. NeededOnDisk'
    BY <1>1 DEF Restart, IInv, NeededOnDisk, FileAt, libraryVars
  <2> QED BY <2>1, <2>2, Settled DEF Preparing
<1>2. ASSUME IInv, UNCHANGED vars PROVE IInv'
  <2>1. TypeOK'
    BY <1>2, NextTyped DEF IInv
  <2>2. UNCHANGED <<index, disk, needed, artifacts, op, receipt>>
    BY <1>2 DEF vars, libraryVars, journalVars, opVars
  <2>3. NeededOnDisk' /\ Prepared' /\ InPreparation' /\ Switched'
    BY <1>2, <2>2 DEF IInv, NeededOnDisk, Prepared, InPreparation, Switched, FileAt, Current
  <2> QED BY <2>1, <2>3 DEF IInv
<1> QED BY <1>1, <1>2, LibraryKeeps, PrepareKeeps, CompleteKeeps DEF Next

\* A blob that is in no other place has its file where the index leads, at
\* every step of ConfigureLocal, of its failures, and of the clean-up after a
\* stop at any of them: Switch comes after every copy is verified, and no
\* clean-up removes a file at the place the index names.
THEOREM NeededOnDiskCorrect == Spec => []NeededOnDisk
<1>1. IInv => NeededOnDisk
  BY DEF IInv
<1> QED BY <1>1, InitIInv, NextKeeps, PTL DEF Spec

-----------------------------------------------------------------------------
(***************************************************************************)
(* What ConfigureLocal leaves.  When it fails, its receipt and the         *)
(* artifacts of its attempt account for every difference from what it      *)
(* found, as long as no part of undoing it failed.                         *)
(***************************************************************************)
Undoable ==
  op.pc \in Preparing \cup {"save", "unswitch"} \/ (op.pc = "undo" /\ op.exact)

InSwitch == op.pc \in {"save", "unswitch"}

\* The destination of an artifact is this artifact's doing.
HasDestination(a) == a.owned /\ (a.stage = "linked" \/ (a.renamed /\ a.stage = "missing"))

Placed(i) == HasDestination(artifacts[i])

Destination(i) == <<Place[artifacts[i].dest], artifacts[i].hash>>

\* The receipt knows the index and the source journal.
ReceiptKeeps ==
  /\ InSwitch => /\ \A h \in Hashes \ Items : index[h] = receipt.old[h]
                 /\ (sources \ receipt.keys) \cup receipt.undo = before.sources
  /\ ~InSwitch => index = receipt.old /\ sources = before.sources

\* What cleanupRelocationArtifact goes by: a destination of the attempt is new,
\* in another place than the source, and of a blob no other artifact is for.
AttemptOK ==
  \A i \in op.slots :
    /\ artifacts[i].source = receipt.old[artifacts[i].hash]
    /\ artifacts[i].committed => InSwitch
    /\ Placed(i) => /\ Destination(i) \in disk \ before.disk
                    /\ Place[artifacts[i].source] # Place[artifacts[i].dest]
    /\ \A j \in op.slots : i # j => artifacts[i].hash # artifacts[j].hash
    /\ op.pc \in Preparing /\ artifacts[i].hash \in op.todo => op.pc # "prepare" /\ i = op.cur

\* Nothing else is new, and nothing is gone.
DiskOK ==
  /\ before.disk \subseteq disk
  /\ \A file \in disk \ before.disk : \E i \in op.slots : Placed(i) /\ file = Destination(i)

\* The artifact in preparation has no destination yet.
CurrentOK ==
  op.pc \in Preparing \ {"prepare"} =>
    /\ Current.stage = IF op.pc \in {"link", "rename"} THEN "staged" ELSE "missing"
    /\ Current.renamed = (op.pc = "rename")
    /\ Current.owned = (op.pc # "copy")
    /\ Current.committed = FALSE
    /\ op.pc # "copy" => ~FileAt(Current.dest, Current.hash)
    /\ op.pc \in {"link", "rename"} => Place[Current.source] # Place[Current.dest]

AttemptInv == Undoable => ReceiptKeeps /\ AttemptOK /\ DiskOK /\ CurrentOK

\* ConfigureLocal begins with no artifact of its own.
LEMMA BeginAttempt ==
  ASSUME TypeOK, NEW r \in Roots, ConfigureLocal(r)
  PROVE  AttemptInv'
<1>1. op'.pc = "prepare" /\ op'.slots = {} /\ receipt'.old = index
  BY DEF ConfigureLocal, IdleOperation, NoReceipt
<1>2. before' = [sources |-> sources, disk |-> disk] /\ UNCHANGED <<index, disk, sources>>
  BY DEF ConfigureLocal, libraryVars, journalVars
<1>3. ReceiptKeeps' /\ DiskOK'
  BY <1>1, <1>2 DEF ReceiptKeeps, DiskOK, InSwitch
<1>4. AttemptOK' /\ CurrentOK'
  BY <1>1 DEF AttemptOK, CurrentOK
<1> QED BY <1>3, <1>4 DEF AttemptInv

\* The step to another item.
LEMMA NextItem ==
  ASSUME TypeOK, AttemptInv, NEW h \in Hashes, VerifyItem(h)
  PROVE  AttemptInv'
<1>1. op.pc = "prepare" /\ op'.pc = "prepare" /\ op'.slots = op.slots /\ op'.todo \subseteq op.todo
  BY DEF VerifyItem, TypeOK, Operation
<1>2. UNCHANGED <<index, disk, sources, artifacts, receipt, before>>
  BY DEF VerifyItem, libraryVars, journalVars
<1>3. ReceiptKeeps /\ AttemptOK /\ DiskOK
  BY <1>1 DEF AttemptInv, Undoable, Preparing
<1>4. ReceiptKeeps'
  BY <1>1, <1>2, <1>3 DEF ReceiptKeeps, InSwitch
<1>5. AttemptOK'
  BY <1>1, <1>2, <1>3 DEF AttemptOK, InSwitch, Placed, Destination
<1>6. DiskOK'
  BY <1>1, <1>2, <1>3 DEF DiskOK, Placed, Destination
<1>7. CurrentOK'
  BY <1>1 DEF CurrentOK
<1> QED BY <1>4, <1>5, <1>6, <1>7 DEF AttemptInv

\* The new artifact is the only one for its blob.
LEMMA NewArtifact ==
  ASSUME TypeOK, AttemptInv, NEW h \in Hashes, NEW i \in Slots, JournalItem(h, i)
  PROVE  AttemptInv'
<1>1. /\ op.pc = "prepare" /\ op'.pc = "copy" /\ op'.cur = i
      /\ op'.slots = op.slots \cup {i} /\ op'.todo = op.todo /\ h \in op.todo
  BY DEF JournalItem, TypeOK, Operation
<1>2. i \notin op.slots
  BY DEF JournalItem, TypeOK
<1>3. /\ artifacts'[i] = [hash |-> h, source |-> index[h], dest |-> receipt.root,
        committed |-> FALSE, owned |-> FALSE, renamed |-> FALSE, stage |-> "missing"]
      /\ \A j \in op.slots : artifacts'[j] = artifacts[j]
  BY <1>2 DEF JournalItem, TypeOK, Used
<1>4. /\ artifacts'[i].hash = h /\ artifacts'[i].source = index[h]
      /\ artifacts'[i].committed = FALSE /\ artifacts'[i].owned = FALSE
      /\ artifacts'[i].renamed = FALSE /\ artifacts'[i].stage = "missing"
  BY <1>3
<1>5. UNCHANGED <<index, disk, sources, receipt, before>>
  BY DEF JournalItem, libraryVars
<1>6. ReceiptKeeps /\ AttemptOK /\ DiskOK
  BY <1>1 DEF AttemptInv, Undoable, Preparing
<1>7. ReceiptKeeps'
  BY <1>1, <1>5, <1>6 DEF ReceiptKeeps, InSwitch
<1>8. index = receipt.old
  BY <1>1, <1>6 DEF ReceiptKeeps, InSwitch
<1>9. \A j \in op.slots : Placed(j)' = Placed(j) /\ Destination(j)' = Destination(j)
  BY <1>3 DEF Placed, Destination
<1>10. AttemptOK'
  <2>1. ASSUME NEW j \in op.slots
        PROVE  /\ artifacts'[j].source = receipt'.old[artifacts'[j].hash]
               /\ ~artifacts'[j].committed
               /\ Placed(j)' => /\ Destination(j)' \in disk' \ before'.disk
                                /\ Place[artifacts'[j].source] # Place[artifacts'[j].dest]
               /\ \A k \in op.slots : j # k => artifacts'[j].hash # artifacts'[k].hash
               /\ artifacts'[j].hash \notin op.todo
    BY <1>1, <1>3, <1>5, <1>6, <1>9 DEF AttemptOK, InSwitch, Preparing
  <2>2. ~Placed(i)'
    BY <1>4 DEF Placed, HasDestination
  <2>3. artifacts'[i].source = receipt'.old[artifacts'[i].hash]
    BY <1>4, <1>5, <1>8
  <2> QED BY <1>1, <1>4, <2>1, <2>2, <2>3 DEF AttemptOK
<1>11. DiskOK'
  BY <1>1, <1>5, <1>6, <1>9 DEF DiskOK
<1>12. CurrentOK'
  BY <1>1, <1>4 DEF CurrentOK, Current
<1> QED BY <1>7, <1>10, <1>11, <1>12 DEF AttemptInv

\* A step of the item in preparation, or the failure of one: its artifact gets
\* its destination, or still has none.
LEMMA ItemStep ==
  ASSUME TypeOK, AttemptInv, op.pc \in Preparing \ {"prepare"},
         NEW artifact \in Artifact, SetCurrent(artifact),
         artifact.hash = Current.hash, artifact.source = Current.source,
         artifact.dest = Current.dest, artifact.committed = FALSE,
         op'.slots = op.slots, op'.todo \subseteq op.todo,
         op'.pc \in Preparing \cup {"undo"},
         op'.pc \in Preparing \ {"prepare"} => op'.cur = op.cur,
         op'.pc = "prepare" => Current.hash \notin op'.todo,
         op'.pc = "undo" => op'.todo = {},
         UNCHANGED <<index, sources, receipt, before>>,
         \/ ~HasDestination(artifact) /\ disk' = disk
         \/ /\ HasDestination(artifact) /\ op.pc \in {"link", "rename"}
            /\ disk' = disk \cup {<<Place[Current.dest], Current.hash>>}
  PROVE  (ReceiptKeeps /\ AttemptOK /\ DiskOK)'
<1>c. PICK c : c = op.cur
  OBVIOUS
<1>0. /\ c \in Slots /\ c \in op.slots /\ Current \in Artifact
      /\ op.slots \subseteq Slots /\ artifacts'[c] = artifact
  BY <1>c, CurrentTyped, SetCurrentTyped DEF TypeOK, Operation
<1>1. \A i \in op.slots \ {c} : artifacts'[i] = artifacts[i]
  BY <1>0, <1>c DEF SetCurrent, TypeOK
<1>2. ReceiptKeeps /\ AttemptOK /\ DiskOK /\ CurrentOK /\ ~InSwitch
  BY DEF AttemptInv, Undoable, InSwitch, Preparing
<1>3. ~InSwitch'
  BY DEF InSwitch, Preparing
<1>4. ReceiptKeeps'
  BY <1>2, <1>3 DEF ReceiptKeeps
<1>5. Current = artifacts[c] /\ ~Placed(c)
  BY <1>2, <1>c DEF CurrentOK, Current, Placed, HasDestination, Preparing
<1>6. disk \subseteq disk' /\ Destination(c)' = Destination(c)
  BY <1>0, <1>5 DEF Destination
<1>7. \A i \in op.slots \ {c} : Placed(i)' = Placed(i) /\ Destination(i)' = Destination(i)
  BY <1>1 DEF Placed, Destination
<1>8. /\ DiskOK'
      /\ \A i \in op.slots : Placed(i)' =>
           /\ Destination(i)' \in disk' \ before'.disk
           /\ Place[artifacts'[i].source] # Place[artifacts'[i].dest]
  <2>1. CASE ~HasDestination(artifact) /\ disk' = disk
    <3>1. ~Placed(c)'
      BY <1>0, <2>1 DEF Placed
    <3>2. DiskOK'
      BY <1>2, <1>5, <1>7, <2>1, <3>1 DEF DiskOK
    <3>3. ASSUME NEW i \in op.slots, Placed(i)'
          PROVE  /\ Destination(i)' \in disk' \ before'.disk
                 /\ Place[artifacts'[i].source] # Place[artifacts'[i].dest]
      BY <1>1, <1>2, <1>7, <2>1, <3>1, <3>3 DEF AttemptOK
    <3> QED BY <3>2, <3>3
  <2>2. CASE /\ HasDestination(artifact) /\ op.pc \in {"link", "rename"}
             /\ disk' = disk \cup {<<Place[Current.dest], Current.hash>>}
    <3>1. Placed(c)' /\ Destination(c) = <<Place[Current.dest], Current.hash>>
      BY <1>0, <1>5, <2>2 DEF Placed, Destination
    <3>2. Destination(c) \notin disk /\ Place[Current.source] # Place[Current.dest]
      BY <1>2, <2>2, <3>1 DEF CurrentOK, FileAt, Preparing
    <3>3. before.disk \subseteq disk
      BY <1>2 DEF DiskOK
    <3>4. ASSUME NEW file \in disk' \ before'.disk
          PROVE  \E i \in op'.slots : Placed(i)' /\ file = Destination(i)'
      <4>1. CASE file = Destination(c)
        BY <1>0, <1>6, <3>1, <4>1
      <4>2. CASE file # Destination(c)
        <5>1. PICK i \in op.slots : Placed(i) /\ file = Destination(i)
          BY <1>2, <2>2, <3>1, <3>4, <4>2 DEF DiskOK
        <5> QED BY <1>5, <1>7, <5>1
      <4> QED BY <4>1, <4>2
    <3>5. DiskOK'
      BY <1>6, <3>3, <3>4 DEF DiskOK
    <3>6. ASSUME NEW i \in op.slots, Placed(i)'
          PROVE  /\ Destination(i)' \in disk' \ before'.disk
                 /\ Place[artifacts'[i].source] # Place[artifacts'[i].dest]
      <4>1. CASE i = c
        BY <1>0, <1>5, <1>6, <2>2, <3>1, <3>2, <3>3, <4>1
      <4>2. CASE i # c
        BY <1>1, <1>2, <1>6, <1>7, <3>6, <4>2 DEF AttemptOK
      <4> QED BY <4>1, <4>2
    <3> QED BY <3>5, <3>6
  <2> QED BY <2>1, <2>2
<1>9. ASSUME NEW i \in op.slots
      PROVE  artifacts'[i].hash = artifacts[i].hash /\ artifacts'[i].source = artifacts[i].source
  BY <1>0, <1>1, <1>5
<1>10. ASSUME NEW i \in op.slots, op'.pc \in Preparing, artifacts'[i].hash \in op'.todo
       PROVE  op'.pc # "prepare" /\ i = op'.cur
  <2>1. artifacts[i].hash \in op.todo
    BY <1>9, <1>10
  <2>2. i = c
    BY <1>2, <1>c, <2>1 DEF AttemptOK
  <2> QED BY <1>0, <1>5, <1>10, <1>c, <2>2
<1>11. \A i \in op.slots : ~artifacts'[i].committed
  BY <1>0, <1>1, <1>2 DEF AttemptOK
<1>12. AttemptOK'
  BY <1>2, <1>8, <1>9, <1>10, <1>11 DEF AttemptOK
<1> QED BY <1>4, <1>8, <1>12

LEMMA SameArtifact ==
  ASSUME TypeOK, op.pc \in Preparing \ {"prepare"}, UNCHANGED artifacts
  PROVE  SetCurrent(Current)
  BY CurrentTyped DEF SetCurrent, Current, TypeOK

LEMMA PrepareUndoable ==
  ASSUME TypeOK, AttemptInv, Prepare
  PROVE  AttemptInv'
<1> USE DEF libraryVars, journalVars
<1>1. ASSUME op.pc \in Preparing \ {"prepare"}
      PROVE  CurrentOK /\ Current \in Artifact /\ op.cur \in op.slots
  BY <1>1, CurrentTyped DEF AttemptInv, Undoable
<1>2. CASE ReuseDestination
  <2>1. op.pc = "copy" /\ op.pc \in Preparing \ {"prepare"} /\ SetCurrent(Current)
    BY <1>2, SameArtifact DEF ReuseDestination, Preparing
  <2>2. /\ op'.pc = "prepare" /\ op'.slots = op.slots
        /\ op'.todo = op.todo \ {Current.hash}
    BY <1>2, ItemDoneTyped DEF ReuseDestination
  <2>3. Current.committed = FALSE /\ ~HasDestination(Current)
    BY <1>1, <2>1 DEF CurrentOK, HasDestination
  <2>4. UNCHANGED <<index, disk, sources, receipt, before>>
    BY <1>2 DEF ReuseDestination
  <2>5. (ReceiptKeeps /\ AttemptOK /\ DiskOK)'
    BY <1>1, <2>1, <2>2, <2>3, <2>4, ItemStep DEF Preparing
  <2> QED BY <2>2, <2>5 DEF AttemptInv, CurrentOK
<1>3. CASE OwnStage
  <2>1. op.pc = "copy" /\ op.pc \in Preparing \ {"prepare"}
    BY <1>3 DEF OwnStage, Preparing
  <2>2. PICK artifact : artifact = [Current EXCEPT !.owned = TRUE]
    OBVIOUS
  <2>3. /\ artifact \in Artifact /\ artifact.hash = Current.hash /\ artifact.source = Current.source
        /\ artifact.dest = Current.dest /\ artifact.committed = Current.committed
        /\ artifact.owned = TRUE /\ artifact.renamed = Current.renamed
        /\ artifact.stage = Current.stage
    BY <1>1, <2>1, <2>2 DEF Artifact
  <2>4. op'.pc = "stage" /\ op'.slots = op.slots /\ op'.cur = op.cur /\ op'.todo = op.todo
    BY <1>3, GotoTyped DEF OwnStage
  <2>5. /\ Current.stage = "missing" /\ Current.renamed = FALSE /\ Current.committed = FALSE
        /\ ~FileAt(Current.dest, Current.hash)
    BY <1>1, <1>3, <2>1 DEF CurrentOK, OwnStage
  <2>6. SetCurrent(artifact) /\ UNCHANGED <<index, disk, sources, receipt, before>>
    BY <1>3, <2>2 DEF OwnStage
  <2>7. Current' = artifact
    BY <1>1, <2>1, <2>3, <2>4, <2>6, SetCurrentTyped DEF Current
  <2>8. (ReceiptKeeps /\ AttemptOK /\ DiskOK)'
    BY <2>1, <2>3, <2>4, <2>5, <2>6, ItemStep DEF Preparing, HasDestination
  <2>9. CurrentOK'
    BY <2>3, <2>4, <2>5, <2>6, <2>7 DEF CurrentOK, FileAt
  <2> QED BY <2>8, <2>9 DEF AttemptInv
<1>4. CASE CopyStage
  <2>1. op.pc = "stage" /\ op.pc \in Preparing \ {"prepare"}
    BY <1>4 DEF CopyStage, Preparing
  <2>2. PICK artifact : artifact = [Current EXCEPT !.stage = "staged"]
    OBVIOUS
  <2>3. /\ artifact \in Artifact /\ artifact.hash = Current.hash /\ artifact.source = Current.source
        /\ artifact.dest = Current.dest /\ artifact.committed = Current.committed
        /\ artifact.owned = Current.owned /\ artifact.renamed = Current.renamed
        /\ artifact.stage = "staged"
    BY <1>1, <2>1, <2>2 DEF Artifact
  <2>4. op'.pc = "link" /\ op'.slots = op.slots /\ op'.cur = op.cur /\ op'.todo = op.todo
    BY <1>4, GotoTyped DEF CopyStage
  <2>5. /\ Current.owned = TRUE /\ Current.renamed = FALSE /\ Current.committed = FALSE
        /\ ~FileAt(Current.dest, Current.hash) /\ FileAt(Current.source, Current.hash)
    BY <1>1, <1>4, <2>1 DEF CurrentOK, CopyStage
  <2>6. Place[Current.source] # Place[Current.dest]
    BY <2>5 DEF FileAt
  <2>7. SetCurrent(artifact) /\ UNCHANGED <<index, disk, sources, receipt, before>>
    BY <1>4, <2>2 DEF CopyStage
  <2>8. Current' = artifact
    BY <1>1, <2>1, <2>3, <2>4, <2>7, SetCurrentTyped DEF Current
  <2>9. (ReceiptKeeps /\ AttemptOK /\ DiskOK)'
    BY <2>1, <2>3, <2>4, <2>5, <2>7, ItemStep DEF Preparing, HasDestination
  <2>10. CurrentOK'
    BY <2>3, <2>4, <2>5, <2>6, <2>7, <2>8 DEF CurrentOK, FileAt
  <2> QED BY <2>9, <2>10 DEF AttemptInv
<1>5. CASE LinkStage
  <2>1. op.pc = "link" /\ op.pc \in Preparing \ {"prepare"}
    BY <1>5 DEF LinkStage, Preparing
  <2>2. PICK artifact : artifact = [Current EXCEPT !.stage = "linked"]
    OBVIOUS
  <2>3. /\ artifact \in Artifact /\ artifact.hash = Current.hash /\ artifact.source = Current.source
        /\ artifact.dest = Current.dest /\ artifact.committed = Current.committed
        /\ artifact.owned = Current.owned /\ artifact.stage = "linked"
    BY <1>1, <2>1, <2>2 DEF Artifact
  <2>4. /\ op'.pc = "prepare" /\ op'.slots = op.slots
        /\ op'.todo = op.todo \ {Current.hash}
    BY <1>5, ItemDoneTyped DEF LinkStage
  <2>5. Current.owned = TRUE /\ Current.committed = FALSE
    BY <1>1, <2>1 DEF CurrentOK
  <2>6. /\ SetCurrent(artifact) /\ UNCHANGED <<index, sources, receipt, before>>
        /\ disk' = disk \cup {<<Place[Current.dest], Current.hash>>}
    BY <1>5, <2>2 DEF LinkStage
  <2>7. (ReceiptKeeps /\ AttemptOK /\ DiskOK)'
    BY <2>1, <2>3, <2>4, <2>5, <2>6, ItemStep DEF Preparing, HasDestination
  <2> QED BY <2>4, <2>7 DEF AttemptInv, CurrentOK
<1>6. CASE MarkRenamed
  <2>1. op.pc = "link" /\ op.pc \in Preparing \ {"prepare"}
    BY <1>6 DEF MarkRenamed, Preparing
  <2>2. PICK artifact : artifact = [Current EXCEPT !.renamed = TRUE]
    OBVIOUS
  <2>3. /\ artifact \in Artifact /\ artifact.hash = Current.hash /\ artifact.source = Current.source
        /\ artifact.dest = Current.dest /\ artifact.committed = Current.committed
        /\ artifact.owned = Current.owned /\ artifact.renamed = TRUE
        /\ artifact.stage = Current.stage
    BY <1>1, <2>1, <2>2 DEF Artifact
  <2>4. op'.pc = "rename" /\ op'.slots = op.slots /\ op'.cur = op.cur /\ op'.todo = op.todo
    BY <1>6, GotoTyped DEF MarkRenamed
  <2>5. /\ Current.owned = TRUE /\ Current.stage = "staged" /\ Current.committed = FALSE
        /\ ~FileAt(Current.dest, Current.hash) /\ Place[Current.source] # Place[Current.dest]
    BY <1>1, <2>1 DEF CurrentOK
  <2>6. SetCurrent(artifact) /\ UNCHANGED <<index, disk, sources, receipt, before>>
    BY <1>6, <2>2 DEF MarkRenamed
  <2>7. Current' = artifact
    BY <1>1, <2>1, <2>3, <2>4, <2>6, SetCurrentTyped DEF Current
  <2>8. (ReceiptKeeps /\ AttemptOK /\ DiskOK)'
    BY <2>1, <2>3, <2>4, <2>5, <2>6, ItemStep DEF Preparing, HasDestination
  <2>9. CurrentOK'
    BY <2>3, <2>4, <2>5, <2>6, <2>7 DEF CurrentOK, FileAt
  <2> QED BY <2>8, <2>9 DEF AttemptInv
<1>7. CASE RenameStage
  <2>1. op.pc = "rename" /\ op.pc \in Preparing \ {"prepare"}
    BY <1>7 DEF RenameStage, Preparing
  <2>2. PICK artifact : artifact = [Current EXCEPT !.stage = "missing"]
    OBVIOUS
  <2>3. /\ artifact \in Artifact /\ artifact.hash = Current.hash /\ artifact.source = Current.source
        /\ artifact.dest = Current.dest /\ artifact.committed = Current.committed
        /\ artifact.owned = Current.owned /\ artifact.renamed = Current.renamed
        /\ artifact.stage = "missing"
    BY <1>1, <2>1, <2>2 DEF Artifact
  <2>4. /\ op'.pc = "prepare" /\ op'.slots = op.slots
        /\ op'.todo = op.todo \ {Current.hash}
    BY <1>7, ItemDoneTyped DEF RenameStage
  <2>5. Current.owned = TRUE /\ Current.renamed = TRUE /\ Current.committed = FALSE
    BY <1>1, <2>1 DEF CurrentOK
  <2>6. /\ SetCurrent(artifact) /\ UNCHANGED <<index, sources, receipt, before>>
        /\ disk' = disk \cup {<<Place[Current.dest], Current.hash>>}
    BY <1>7, <2>2 DEF RenameStage
  <2>7. (ReceiptKeeps /\ AttemptOK /\ DiskOK)'
    BY <2>1, <2>3, <2>4, <2>5, <2>6, ItemStep DEF Preparing, HasDestination
  <2> QED BY <2>4, <2>7 DEF AttemptInv, CurrentOK
<1>8. CASE PrepareFails
  <2>1. /\ op.pc \in Preparing /\ op'.pc = "undo" /\ op'.slots = op.slots /\ op'.todo = {}
        /\ UNCHANGED <<index, disk, sources, receipt, before>>
    BY <1>8 DEF PrepareFails, TypeOK, Operation
  <2>2. CurrentOK'
    BY <2>1 DEF CurrentOK, Preparing
  <2>3. CASE op.pc = "prepare"
    <3>1. UNCHANGED artifacts
      BY <1>8, <2>3 DEF PrepareFails
    <3>2. ReceiptKeeps /\ AttemptOK /\ DiskOK
      BY <2>1 DEF AttemptInv, Undoable
    <3>3. \A i \in op.slots : Placed(i)' = Placed(i) /\ Destination(i)' = Destination(i)
      BY <3>1 DEF Placed, Destination
    <3>4. ReceiptKeeps'
      BY <2>1, <2>3, <3>2 DEF ReceiptKeeps, InSwitch
    <3>5. AttemptOK'
      BY <2>1, <2>3, <3>1, <3>2, <3>3 DEF AttemptOK, InSwitch, Preparing
    <3>6. DiskOK'
      BY <2>1, <3>2, <3>3 DEF DiskOK
    <3> QED BY <2>2, <3>4, <3>5, <3>6 DEF AttemptInv
  <2>4. CASE op.pc # "prepare"
    <3>1. /\ op.pc \in Preparing \ {"prepare"} /\ Current \in Artifact
          /\ CurrentOK /\ Current.committed = FALSE
      BY <1>1, <2>1, <2>4 DEF CurrentOK
    <3>2. ASSUME NEW artifact \in Artifact, SetCurrent(artifact), ~HasDestination(artifact),
                 artifact.hash = Current.hash, artifact.source = Current.source,
                 artifact.dest = Current.dest, artifact.committed = FALSE
          PROVE  AttemptInv'
      <4>1. (ReceiptKeeps /\ AttemptOK /\ DiskOK)'
        BY <2>1, <3>1, <3>2, ItemStep DEF Preparing
      <4> QED BY <2>2, <4>1 DEF AttemptInv
    <3>3. CASE UNCHANGED artifacts
      <4>1. ~HasDestination(Current)
        BY <3>1 DEF CurrentOK, HasDestination
      <4> QED BY <3>1, <3>2, <3>3, <4>1, SameArtifact
    <3>4. CASE op.pc = "stage" /\ SetCurrent([Current EXCEPT !.stage = "staged"])
      <4>1. PICK artifact : artifact = [Current EXCEPT !.stage = "staged"]
        OBVIOUS
      <4>2. /\ artifact \in Artifact /\ artifact.hash = Current.hash
            /\ artifact.source = Current.source /\ artifact.dest = Current.dest
            /\ artifact.committed = FALSE /\ artifact.renamed = FALSE /\ artifact.stage = "staged"
        BY <3>1, <3>4, <4>1 DEF Artifact, CurrentOK
      <4> QED BY <3>2, <3>4, <4>1, <4>2 DEF HasDestination
    <3>5. CASE op.pc = "stage" /\ SetCurrent([Current EXCEPT !.owned = FALSE])
      <4>1. PICK artifact : artifact = [Current EXCEPT !.owned = FALSE]
        OBVIOUS
      <4>2. /\ artifact \in Artifact /\ artifact.hash = Current.hash
            /\ artifact.source = Current.source /\ artifact.dest = Current.dest
            /\ artifact.committed = FALSE /\ artifact.owned = FALSE
        BY <3>1, <4>1 DEF Artifact
      <4> QED BY <3>2, <3>5, <4>1, <4>2 DEF HasDestination
    <3>6. CASE op.pc = "link" /\ SetCurrent([Current EXCEPT !.stage = "missing"])
      <4>1. PICK artifact : artifact = [Current EXCEPT !.stage = "missing"]
        OBVIOUS
      <4>2. /\ artifact \in Artifact /\ artifact.hash = Current.hash
            /\ artifact.source = Current.source /\ artifact.dest = Current.dest
            /\ artifact.committed = FALSE /\ artifact.renamed = FALSE /\ artifact.stage = "missing"
        BY <3>1, <3>6, <4>1 DEF Artifact, CurrentOK
      <4> QED BY <3>2, <3>6, <4>1, <4>2 DEF HasDestination
    <3> QED BY <1>8, <3>3, <3>4, <3>5, <3>6 DEF PrepareFails
  <2> QED BY <2>3, <2>4
<1> QED BY <1>2, <1>3, <1>4, <1>5, <1>6, <1>7, <1>8, BeginAttempt, NextItem, NewArtifact DEF Prepare

\* The mark of the artifacts of an attempt changes nothing else of them.
LEMMA MarkedKeeps ==
  ASSUME TypeOK, NEW flag \in BOOLEAN,
         artifacts' = [i \in Slots |-> IF i \in op.slots
                                         THEN [artifacts[i] EXCEPT !.committed = flag]
                                         ELSE artifacts[i]],
         NEW i \in op.slots
  PROVE  /\ artifacts'[i].hash = artifacts[i].hash /\ artifacts'[i].source = artifacts[i].source
         /\ artifacts'[i].dest = artifacts[i].dest /\ artifacts'[i].committed = flag
         /\ Placed(i)' = Placed(i) /\ Destination(i)' = Destination(i)
<1>1. i \in Slots /\ artifacts[i] \in Artifact
  BY DEF TypeOK, Used
<1>2. artifacts'[i] = [artifacts[i] EXCEPT !.committed = flag]
  BY <1>1
<1>3. /\ artifacts'[i].hash = artifacts[i].hash /\ artifacts'[i].source = artifacts[i].source
      /\ artifacts'[i].dest = artifacts[i].dest /\ artifacts'[i].committed = flag
      /\ artifacts'[i].owned = artifacts[i].owned /\ artifacts'[i].stage = artifacts[i].stage
      /\ artifacts'[i].renamed = artifacts[i].renamed
  BY <1>1, <1>2 DEF Artifact
<1> QED BY <1>3 DEF Placed, HasDestination, Destination

\* Rows that are struck and put back as the switch and its inverse do.
LEMMA StruckAndRestored ==
  ASSUME NEW rows, NEW added, NEW keys, NEW removed, NEW undo,
         added \subseteq keys, removed \subseteq undo, undo \subseteq rows, rows \cap keys \subseteq undo
  PROVE  (((rows \ removed) \cup added) \ keys) \cup undo = rows
  OBVIOUS

LEMMA SwitchUndoable ==
  ASSUME TypeOK, AttemptInv, Switch
  PROVE  AttemptInv'
<1>1. op.pc = "prepare" /\ op.pc \in Preparing /\ op.todo = {}
  BY DEF Switch, Preparing
<1>2. op'.pc = "save" /\ op'.slots = op.slots
  BY GotoTyped DEF Switch
<1>3. ReceiptKeeps /\ AttemptOK /\ DiskOK
  BY <1>1 DEF AttemptInv, Undoable
<1>4. index = receipt.old /\ sources = before.sources
  BY <1>1, <1>3 DEF ReceiptKeeps, InSwitch
<1>5. UNCHANGED <<disk, before>>
  BY DEF Switch
<1>6. PICK keys, undo : keys = UNION {Retargeted(h) : h \in Items} /\ undo = UNION {Replaced(h) : h \in Items}
  OBVIOUS
<1>7. receipt' = [receipt EXCEPT !.keys = keys, !.undo = undo]
  BY <1>6 DEF Switch
<1>8. receipt'.old = receipt.old /\ receipt'.keys = keys /\ receipt'.undo = undo
  BY <1>7 DEF TypeOK, Receipt
<1>9. PICK moving \in SUBSET Items :
        sources' = (sources \ UNION {Replaced(h) : h \in moving})
                     \cup UNION {Retargeted(h) : h \in moving}
  BY DEF Switch
<1>10. (sources' \ keys) \cup undo = sources
  <2>1. UNION {Retargeted(h) : h \in moving} \subseteq keys
    BY <1>6
  <2>2. UNION {Replaced(h) : h \in moving} \subseteq undo
    BY <1>6
  <2>3. \A h \in Items : Replaced(h) \subseteq sources /\ sources \cap Retargeted(h) \subseteq Replaced(h)
    BY DEF Replaced, Moved
  <2>4. undo \subseteq sources
    BY <1>6, <2>3
  <2>5. sources \cap keys \subseteq undo
    BY <1>6, <2>3
  <2> QED BY <1>9, <2>1, <2>2, <2>4, <2>5, StruckAndRestored
<1>11. \A h \in Hashes \ Items : index'[h] = receipt.old[h]
  BY <1>4 DEF Switch
<1>12. ReceiptKeeps'
  BY <1>2, <1>4, <1>5, <1>8, <1>10, <1>11 DEF ReceiptKeeps, InSwitch, Items
<1>13. ASSUME NEW i \in op.slots
       PROVE  /\ artifacts'[i].hash = artifacts[i].hash /\ artifacts'[i].source = artifacts[i].source
              /\ artifacts'[i].dest = artifacts[i].dest
              /\ Placed(i)' = Placed(i) /\ Destination(i)' = Destination(i)
  BY MarkedKeeps DEF Switch
<1>14. AttemptOK'
  BY <1>2, <1>3, <1>5, <1>8, <1>13 DEF AttemptOK, InSwitch, Preparing
<1>15. DiskOK'
  BY <1>2, <1>3, <1>5, <1>13 DEF DiskOK
<1>16. CurrentOK'
  BY <1>2 DEF CurrentOK, Preparing
<1> QED BY <1>12, <1>14, <1>15, <1>16 DEF AttemptInv

\* The switch back, and what stays as it is when the settings cannot be saved.
LEMMA RollbackUndoable ==
  ASSUME TypeOK, AttemptInv, SaveFails \/ Rollback
  PROVE  AttemptInv'
<1> USE DEF libraryVars, journalVars
<1>1. ReceiptKeeps /\ AttemptOK /\ DiskOK /\ InSwitch
  BY DEF SaveFails, Rollback, AttemptInv, Undoable, InSwitch
<1>2. UNCHANGED <<disk, receipt, before>>
  BY DEF SaveFails, Rollback
<1>3. CASE SaveFails
  <2>1. op'.pc = "unswitch" /\ op'.slots = op.slots
    BY <1>3, GotoTyped DEF SaveFails
  <2>2. UNCHANGED <<index, sources, artifacts>>
    BY <1>3 DEF SaveFails
  <2>3. \A i \in op.slots : Placed(i)' = Placed(i) /\ Destination(i)' = Destination(i)
    BY <2>2 DEF Placed, Destination
  <2>4. ReceiptKeeps'
    BY <1>1, <1>2, <2>1, <2>2 DEF ReceiptKeeps, InSwitch, Items
  <2>5. AttemptOK'
    BY <1>1, <1>2, <2>1, <2>2, <2>3 DEF AttemptOK, InSwitch, Preparing
  <2>6. DiskOK' /\ CurrentOK'
    BY <1>1, <1>2, <2>1, <2>3 DEF DiskOK, CurrentOK, Preparing
  <2> QED BY <2>4, <2>5, <2>6 DEF AttemptInv
<1>4. CASE Rollback
  <2>1. op'.pc = "undo" /\ op'.slots = op.slots
    BY <1>4, GotoTyped DEF Rollback
  <2>2. index' = receipt.old
    <3>1. index' = [h \in Hashes |-> IF h \in Items THEN receipt.old[h] ELSE index[h]]
      BY <1>4 DEF Rollback
    <3>2. receipt.old \in [Hashes -> Roots \cup {None}]
      BY DEF TypeOK, Receipt
    <3>3. \A h \in Hashes : index'[h] = receipt.old[h]
      BY <1>1, <3>1 DEF ReceiptKeeps
    <3> QED BY <3>1, <3>2, <3>3
  <2>3. sources' = before.sources
    BY <1>1, <1>4 DEF Rollback, ReceiptKeeps
  <2>4. ReceiptKeeps'
    BY <1>2, <2>1, <2>2, <2>3 DEF ReceiptKeeps, InSwitch
  <2>5. ASSUME NEW i \in op.slots
        PROVE  /\ artifacts'[i].hash = artifacts[i].hash /\ artifacts'[i].source = artifacts[i].source
               /\ artifacts'[i].dest = artifacts[i].dest /\ artifacts'[i].committed = FALSE
               /\ Placed(i)' = Placed(i) /\ Destination(i)' = Destination(i)
    BY <1>4, MarkedKeeps DEF Rollback
  <2>6. AttemptOK'
    <3>1. ASSUME NEW i \in op.slots
          PROVE  /\ artifacts'[i].source = receipt'.old[artifacts'[i].hash]
                 /\ ~artifacts'[i].committed
                 /\ Placed(i)' => /\ Destination(i)' \in disk' \ before'.disk
                                  /\ Place[artifacts'[i].source] # Place[artifacts'[i].dest]
      BY <1>1, <1>2, <2>5 DEF AttemptOK
    <3>2. ASSUME NEW i \in op.slots, NEW j \in op.slots, i # j
          PROVE  artifacts'[i].hash # artifacts'[j].hash
      <4>1. artifacts[i].hash # artifacts[j].hash
        BY <1>1, <3>2 DEF AttemptOK
      <4>2. artifacts'[i].hash = artifacts[i].hash /\ artifacts'[j].hash = artifacts[j].hash
        BY <2>5
      <4> QED BY <4>1, <4>2
    <3>3. op'.pc \notin Preparing
      BY <2>1 DEF Preparing
    <3> QED BY <2>1, <3>1, <3>2, <3>3 DEF AttemptOK
  <2>7. DiskOK' /\ CurrentOK'
    BY <1>1, <1>2, <2>1, <2>5 DEF DiskOK, CurrentOK, Preparing
  <2> QED BY <2>4, <2>6, <2>7 DEF AttemptInv
<1> QED BY <1>3, <1>4

\* The clean-up of an artifact of the attempt takes away its destination and
\* nothing else, or is not counted.
LEMMA CleanupUndoable ==
  ASSUME TypeOK, AttemptInv, NEW i \in Slots, CleanupArtifact(i), op.pc = "undo"
  PROVE  AttemptInv'
<1>1. CASE ~(op.exact /\ op'.exact)
  <2>1. op'.pc = "undo" /\ (op'.exact => op.exact)
    BY DEF CleanupArtifact, TypeOK, Operation
  <2> QED BY <1>1, <2>1 DEF AttemptInv, Undoable, Preparing
<1>2. CASE op.exact /\ op'.exact
  <2>1. /\ i \in op.slots /\ op'.pc = "undo" /\ op'.slots = op.slots \ {i}
        /\ DropFiles(i, 3) /\ UNCHANGED <<index, sources, receipt, before>>
    BY <1>2 DEF CleanupArtifact, TypeOK, Operation
  <2>2. ReceiptKeeps /\ AttemptOK /\ DiskOK /\ ~InSwitch
    BY <1>2 DEF AttemptInv, Undoable, InSwitch
  <2>3. index = receipt.old /\ ReceiptKeeps'
    BY <2>1, <2>2 DEF ReceiptKeeps, InSwitch
  <2>4. PICK a : a = artifacts[i]
    OBVIOUS
  <2>5. Placed(i) <=> RemovesDestination(a)
    <3>1. ~a.committed /\ index[a.hash] = a.source
      BY <2>1, <2>2, <2>3, <2>4 DEF AttemptOK
    <3>2. Placed(i) => FileAt(a.dest, a.hash) /\ Place[a.source] # Place[a.dest]
      BY <2>1, <2>2, <2>4 DEF AttemptOK, FileAt, Destination
    <3> QED BY <2>4, <3>1, <3>2 DEF Placed, HasDestination, RemovesDestination
  <2>6. Destination(i) = <<Place[a.dest], a.hash>>
    BY <2>4 DEF Destination
  <2>7. disk' = IF Placed(i) THEN disk \ {Destination(i)} ELSE disk
    BY <2>1, <2>4, <2>5, <2>6 DEF DropFiles
  <2>8. ASSUME NEW j \in op.slots \ {i}
        PROVE  artifacts'[j] = artifacts[j]
    <3>1. artifacts[j].hash # a.hash /\ j \in Slots
      BY <2>1, <2>2, <2>4 DEF AttemptOK, TypeOK, Used
    <3>2. Unlinked(Place[a.dest], a.hash)[j] = artifacts[j]
      BY <3>1 DEF Unlinked
    <3>3. PICK left : /\ left = Unlinked(Place[a.dest], a.hash) \/ left = artifacts
                      /\ artifacts' = [left EXCEPT ![i] = None]
      BY <2>1, <2>4 DEF DropFiles
    <3>4. DOMAIN left = Slots
      BY <3>3 DEF Unlinked, TypeOK
    <3> QED BY <3>1, <3>2, <3>3, <3>4
  <2>9. \A j \in op.slots \ {i} : Placed(j)' = Placed(j) /\ Destination(j)' = Destination(j)
    BY <2>8 DEF Placed, Destination
  <2>10. \A j \in op.slots \ {i} : Destination(j) # Destination(i)
    BY <2>1, <2>2, <2>4 DEF AttemptOK, Destination
  <2>11. AttemptOK'
    <3>1. ASSUME NEW j \in op.slots \ {i}
          PROVE  /\ artifacts'[j].source = receipt'.old[artifacts'[j].hash]
                 /\ ~artifacts'[j].committed
                 /\ Placed(j)' => /\ Destination(j)' \in disk' \ before'.disk
                                  /\ Place[artifacts'[j].source] # Place[artifacts'[j].dest]
      BY <2>1, <2>2, <2>7, <2>8, <2>9, <2>10 DEF AttemptOK
    <3>2. ASSUME NEW j \in op.slots \ {i}, NEW k \in op.slots \ {i}, j # k
          PROVE  artifacts'[j].hash # artifacts'[k].hash
      BY <2>2, <2>8, <3>2 DEF AttemptOK
    <3>3. op'.pc \notin Preparing
      BY <2>1 DEF Preparing
    <3> QED BY <2>1, <3>1, <3>2, <3>3 DEF AttemptOK
  <2>12. DiskOK'
    <3>1. Placed(i) => Destination(i) \notin before.disk
      BY <2>1, <2>2 DEF AttemptOK
    <3>2. before'.disk \subseteq disk'
      BY <2>1, <2>2, <2>7, <3>1 DEF DiskOK
    <3>3. ASSUME NEW file \in disk' \ before'.disk
          PROVE  \E j \in op'.slots : Placed(j)' /\ file = Destination(j)'
      <4>1. PICK j \in op.slots : Placed(j) /\ file = Destination(j)
        BY <2>1, <2>2, <2>7, <3>3 DEF DiskOK
      <4>2. j # i
        BY <2>7, <3>3, <4>1
      <4> QED BY <2>1, <2>9, <4>1, <4>2
    <3> QED BY <3>2, <3>3 DEF DiskOK
  <2>13. CurrentOK'
    BY <2>1 DEF CurrentOK, Preparing
  <2> QED BY <2>3, <2>11, <2>12, <2>13 DEF AttemptInv
<1> QED BY <1>1, <1>2

LEMMA NextUndoable ==
  ASSUME TypeOK, AttemptInv, [Next]_vars
  PROVE  AttemptInv'
<1> USE DEF libraryVars, journalVars, opVars
<1>1. ASSUME op'.pc \in {"idle", "clean"} \/ (op'.pc = "undo" /\ ~op'.exact)
      PROVE  AttemptInv'
  BY <1>1 DEF AttemptInv, Undoable, Preparing
<1>2. CASE Library
  <2>1. op'.pc = "idle"
    BY <1>2 DEF Library, StoreFile, Download, IndexFile, Release, RemoveOrphan
  <2> QED BY <1>1, <2>1
<1>3. CASE RollbackFails
  <2>1. op'.pc = "undo" /\ op'.exact = FALSE
    BY <1>3 DEF RollbackFails, TypeOK, Operation
  <2> QED BY <1>1, <2>1
<1>4. CASE UndoDone \/ CleanupDone \/ SaveSettings \/ Restart
  <2>1. CASE UndoDone \/ CleanupDone
    BY <1>1, <2>1 DEF UndoDone, CleanupDone, IdleOperation
  <2>2. CASE SaveSettings \/ Restart
    <3>1. op.exact \in BOOLEAN
      BY DEF TypeOK, Operation
    <3>2. op'.pc = "clean"
      BY <2>2, <3>1, CleanupForTyped DEF SaveSettings, Restart
    <3> QED BY <1>1, <3>2
  <2> QED BY <1>4, <2>1, <2>2
<1>5. ASSUME NEW row \in Rows, CleanupSource(row) \/ SkipSource(row) \/ CleanupSourceFails(row)
      PROVE  AttemptInv'
  <2>1. op'.pc = "clean"
    BY <1>5 DEF CleanupSource, SkipSource, CleanupSourceFails, TypeOK, Operation
  <2> QED BY <1>1, <2>1
<1>6. ASSUME NEW i \in Slots, CleanupArtifact(i)
      PROVE  AttemptInv'
  <2>1. op'.pc = op.pc /\ op.pc \in {"undo", "clean"}
    BY <1>6 DEF CleanupArtifact, TypeOK, Operation
  <2> QED BY <1>1, <1>6, <2>1, CleanupUndoable
<1>7. CASE UNCHANGED vars
  <2>1. UNCHANGED <<index, disk, sources, artifacts, op, receipt, before>>
    BY <1>7 DEF vars
  <2>2. Undoable' = Undoable /\ InSwitch' = InSwitch /\ Items' = Items
    BY <2>1 DEF Undoable, InSwitch, Items
  <2>3. ReceiptKeeps => ReceiptKeeps'
    BY <2>1, <2>2 DEF ReceiptKeeps
  <2>4. AttemptOK /\ DiskOK => (AttemptOK /\ DiskOK)'
    BY <2>1, <2>2 DEF AttemptOK, DiskOK, Placed, Destination
  <2>5. CurrentOK => CurrentOK'
    BY <2>1 DEF CurrentOK, Current, FileAt
  <2> QED BY <2>2, <2>3, <2>4, <2>5 DEF AttemptInv
<1> QED BY <1>2, <1>3, <1>4, <1>5, <1>6, <1>7, PrepareUndoable, SwitchUndoable, RollbackUndoable
        DEF Next, Complete

\* UndoneExactly: when ConfigureLocal returns an error and every part of
\* undoing it worked, the index, the source journal and the files are what
\* they were: Rollback removes the destinations its attempt created, and only
\* those, whatever step failed, also on a root that leads to the same place.
THEOREM UndoneExactlyCorrect == Spec => UndoneExactly
<1>1. Init => TypeOK /\ AttemptInv
  BY InitTypeOK DEF Init, AttemptInv, Undoable, IdleOperation, Preparing
<1>2. TypeOK /\ AttemptInv /\ [Next]_vars => (TypeOK /\ AttemptInv)'
  BY NextTyped, NextUndoable
<1>3. ASSUME TypeOK, AttemptInv, UndoDone, op.exact
      PROVE  index = receipt.old /\ sources = before.sources /\ disk = before.disk
  <2>1. op.pc = "undo" /\ op.slots = {}
    BY <1>3 DEF UndoDone
  <2>2. ReceiptKeeps /\ DiskOK
    BY <1>3, <2>1 DEF AttemptInv, Undoable
  <2>3. disk = before.disk
    BY <2>1, <2>2 DEF DiskOK
  <2> QED BY <2>1, <2>2, <2>3 DEF ReceiptKeeps, InSwitch
<1>4. TypeOK /\ AttemptInv /\ [Next]_vars =>
        [UndoDone /\ op.exact =>
           index = receipt.old /\ sources = before.sources /\ disk = before.disk]_vars
  BY <1>3
<1> QED BY <1>1, <1>2, <1>4, PTL DEF Spec, UndoneExactly

-----------------------------------------------------------------------------
(***************************************************************************)
(* When ConfigureLocal succeeds, the journal has every place that may hold *)
(* a copy of what it moved, and the clean-up strikes a row only when the   *)
(* file is gone.                                                           *)
(***************************************************************************)
\* The places the property is about.
Obsolete(h, s) ==
  /\ s = receipt.old[h] \/ <<h, s, receipt.old[h]>> \in before.sources
  /\ Place[s] # Place[receipt.root]

JournalledOK ==
  op.pc \in {"save", "clean"} /\ op.exact =>
    \A h \in Items :
      /\ index[h] = receipt.root
      /\ \A s \in Roots : Obsolete(h, s) =>
           \/ <<h, s, receipt.root>> \in IF op.pc = "save" THEN sources ELSE op.rows
           \/ op.pc = "clean" /\ ~FileAt(s, h)

\* The switch journals them: the rows of an earlier relocation to the old root
\* are retargeted, and those of a blob that stays are not touched.
LEMMA SwitchJournals ==
  ASSUME TypeOK, AttemptInv, Switch
  PROVE  JournalledOK'
<1>1. op.pc = "prepare" /\ op.pc \in Preparing
  BY DEF Switch, Preparing
<1>2. index = receipt.old /\ sources = before.sources
  BY <1>1 DEF AttemptInv, Undoable, ReceiptKeeps, InSwitch
<1>3. op'.pc = "save"
  BY GotoTyped DEF Switch
<1>4. receipt'.old = receipt.old /\ receipt'.root = receipt.root /\ UNCHANGED before
  BY DEF Switch, TypeOK, Receipt
<1>5. Items' = Items
  BY <1>4 DEF Items
<1>6. PICK moving : /\ moving = {h \in Items : receipt.old[h] # receipt.root}
                    /\ sources' = (sources \ UNION {Replaced(h) : h \in moving})
                                    \cup UNION {Retargeted(h) : h \in moving}
  BY DEF Switch
<1>7. ASSUME NEW h \in Items, NEW s \in Roots, Obsolete(h, s)'
      PROVE  <<h, s, receipt.root>> \in sources'
  <2>1. s = receipt.old[h] \/ <<h, s, receipt.old[h]>> \in sources
    BY <1>2, <1>4, <1>7 DEF Obsolete
  <2>2. CASE h \in moving
    <3>1. s \in Moved(h) \cup {receipt.old[h]}
      BY <2>1 DEF Moved
    <3>2. <<h, s, receipt.root>> \in Retargeted(h)
      BY <3>1 DEF Retargeted
    <3> QED BY <1>6, <2>2, <3>2
  <2>3. CASE h \notin moving
    <3>1. receipt.old[h] = receipt.root
      BY <1>6, <2>3
    <3>2. s # receipt.old[h]
      BY <1>4, <1>7, <3>1 DEF Obsolete
    <3>3. <<h, s, receipt.root>> \in sources
      BY <2>1, <3>1, <3>2
    <3>4. ASSUME NEW g \in moving
          PROVE  <<h, s, receipt.root>> \notin Replaced(g)
      BY <2>3, <3>4 DEF Replaced, Retargeted
    <3> QED BY <1>6, <3>3, <3>4
  <2> QED BY <2>2, <2>3
<1>8. \A h \in Items : index'[h] = receipt.root
  BY DEF Switch, Items
<1> QED BY <1>3, <1>4, <1>5, <1>7, <1>8 DEF JournalledOK

LEMMA SaveJournalled ==
  ASSUME TypeOK, JournalledOK, SaveSettings
  PROVE  JournalledOK'
<1> USE DEF libraryVars, journalVars
<1>1. op.pc = "save" /\ UNCHANGED <<index, disk, sources, receipt, before>>
  BY DEF SaveSettings
<1>2. /\ op'.pc = "clean" /\ op'.exact = op.exact
      /\ op'.rows = {row \in sources : row[3] = receipt.root}
  BY DEF SaveSettings, CleanupFor, IdleOperation
<1>3. ASSUME NEW h \in Items, NEW s \in Roots, <<h, s, receipt.root>> \in sources
      PROVE  <<h, s, receipt.root>> \in op'.rows
  BY <1>2, <1>3
<1>4. \A h \in Hashes, s \in Roots : Obsolete(h, s)' = Obsolete(h, s)
  BY <1>1 DEF Obsolete
<1>5. Items' = Items
  BY <1>1 DEF Items
<1> QED BY <1>1, <1>2, <1>3, <1>4, <1>5 DEF JournalledOK, Items

\* A step of the clean-up puts no file back, and takes from the list a row
\* whose file is gone.
LEMMA CleanStep ==
  ASSUME JournalledOK, op.pc = "clean", op'.pc = "clean", op'.exact => op.exact,
         disk' \subseteq disk, UNCHANGED <<index, receipt, before>>,
         \A h \in Items, s \in Roots :
           /\ Place[s] # Place[receipt.root]
           /\ op'.exact
           /\ <<h, s, receipt.root>> \in op.rows \ op'.rows
           => ~FileAt(s, h)'
  PROVE  JournalledOK'
<1> SUFFICES ASSUME op'.exact, NEW h \in Items
             PROVE  /\ index[h] = receipt.root
                    /\ \A s \in Roots : Obsolete(h, s) =>
                         <<h, s, receipt.root>> \in op'.rows \/ ~FileAt(s, h)'
  <2>1. Items' = Items /\ \A h \in Hashes, s \in Roots : Obsolete(h, s)' = Obsolete(h, s)
    BY DEF Items, Obsolete
  <2> QED BY <2>1 DEF JournalledOK, Items
<1>1. index[h] = receipt.root
  BY DEF JournalledOK
<1>2. ASSUME NEW s \in Roots, Obsolete(h, s)
      PROVE  <<h, s, receipt.root>> \in op'.rows \/ ~FileAt(s, h)'
  <2>1. <<h, s, receipt.root>> \in op.rows \/ ~FileAt(s, h)
    BY <1>2 DEF JournalledOK
  <2>2. ~FileAt(s, h) => ~FileAt(s, h)'
    BY DEF FileAt
  <2>3. Place[s] # Place[receipt.root]
    BY <1>2 DEF Obsolete
  <2> QED BY <2>1, <2>2, <2>3
<1> QED BY <1>1, <1>2

LEMMA CleanupJournalled ==
  ASSUME TypeOK, JournalledOK, op.pc = "clean",
         \/ \E i \in Slots : CleanupArtifact(i)
         \/ \E row \in Rows : CleanupSource(row) \/ SkipSource(row) \/ CleanupSourceFails(row)
  PROVE  JournalledOK'
<1> USE DEF libraryVars
<1>1. ASSUME NEW i \in Slots, CleanupArtifact(i)
      PROVE  JournalledOK'
  <2>1. /\ op'.pc = "clean" /\ op'.rows = op.rows /\ (op'.exact => op.exact)
        /\ UNCHANGED <<index, receipt, before>>
    BY <1>1 DEF CleanupArtifact, TypeOK, Operation
  <2>2. disk' \subseteq disk
    BY <1>1 DEF CleanupArtifact, DropFiles
  <2> QED BY <2>1, <2>2, CleanStep
<1>2. ASSUME NEW row \in Rows, CleanupSource(row)
      PROVE  JournalledOK'
  <2>1. /\ op'.pc = "clean" /\ op'.rows = op.rows \ {row} /\ op'.exact = op.exact
        /\ UNCHANGED <<index, receipt, before>> /\ RemoveSource(row)
    BY <1>2 DEF CleanupSource, TypeOK, Operation
  <2>2. disk' \subseteq disk
    BY <2>1 DEF RemoveSource, Remove
  <2>3. ASSUME NEW h \in Items, NEW s \in Roots, Place[s] # Place[receipt.root],
               <<h, s, receipt.root>> = row
        PROVE  ~FileAt(s, h)'
    <3>1. row[1] = h /\ row[2] = s /\ row[3] = receipt.root
      BY <2>3
    <3>2. disk' = disk \ {<<Place[s], h>>}
      BY <2>1, <2>3, <3>1 DEF RemoveSource, Remove
    <3> QED BY <3>2 DEF FileAt
  <2> QED BY <2>1, <2>2, <2>3, CleanStep
<1>3. ASSUME NEW row \in Rows, SkipSource(row)
      PROVE  JournalledOK'
  <2>1. /\ op'.pc = "clean" /\ op'.rows = op.rows \ {row} /\ op'.exact = op.exact
        /\ UNCHANGED <<index, disk, receipt, before>> /\ index[row[1]] # row[3]
    BY <1>3 DEF SkipSource, TypeOK, Operation
  <2>2. ASSUME NEW h \in Items, NEW s \in Roots, op'.exact
        PROVE  <<h, s, receipt.root>> # row
    <3>1. index[h] = receipt.root
      BY <2>1, <2>2 DEF JournalledOK
    <3> QED BY <2>1, <3>1
  <2> QED BY <2>1, <2>2, CleanStep
<1>4. ASSUME NEW row \in Rows, CleanupSourceFails(row)
      PROVE  JournalledOK'
  <2>1. op'.exact = FALSE
    BY <1>4 DEF CleanupSourceFails, TypeOK, Operation
  <2> QED BY <2>1 DEF JournalledOK
<1> QED BY <1>1, <1>2, <1>3, <1>4

LEMMA NextJournalled ==
  ASSUME TypeOK, AttemptInv, JournalledOK, [Next]_vars
  PROVE  JournalledOK'
<1> USE DEF libraryVars, journalVars, opVars
<1>1. ASSUME op'.pc \notin {"save", "clean"} \/ ~op'.exact
      PROVE  JournalledOK'
  BY <1>1 DEF JournalledOK
<1>2. CASE Library
  <2>1. op'.pc = "idle"
    BY <1>2 DEF Library, StoreFile, Download, IndexFile, Release, RemoveOrphan
  <2> QED BY <1>1, <2>1
<1>3. CASE Prepare
  <2>1. ASSUME NEW r \in Roots, ConfigureLocal(r)
        PROVE  op'.pc = "prepare"
    BY <2>1 DEF ConfigureLocal, IdleOperation
  <2>2. ASSUME NEW h \in Hashes, VerifyItem(h)
        PROVE  op'.pc = "prepare"
    BY <2>2 DEF VerifyItem, TypeOK, Operation
  <2>3. ASSUME NEW h \in Hashes, NEW i \in Slots, JournalItem(h, i)
        PROVE  op'.pc = "copy"
    BY <2>3 DEF JournalItem, TypeOK, Operation
  <2>4. CASE ReuseDestination \/ LinkStage \/ RenameStage
    <3>1. op'.pc = "prepare"
      BY <2>4, ItemDoneTyped DEF ReuseDestination, LinkStage, RenameStage
    <3> QED BY <1>1, <3>1
  <2>5. CASE OwnStage \/ CopyStage \/ MarkRenamed
    <3>1. op'.pc \in {"stage", "link", "rename"}
      BY <2>5, GotoTyped DEF OwnStage, CopyStage, MarkRenamed
    <3> QED BY <1>1, <3>1
  <2>6. CASE PrepareFails
    <3>1. op'.pc = "undo"
      BY <2>6 DEF PrepareFails, TypeOK, Operation
    <3> QED BY <1>1, <3>1
  <2> QED BY <1>1, <1>3, <2>1, <2>2, <2>3, <2>4, <2>5, <2>6 DEF Prepare
<1>4. CASE SaveFails \/ Rollback
  <2>1. op'.pc \in {"unswitch", "undo"}
    BY <1>4, GotoTyped DEF SaveFails, Rollback
  <2> QED BY <1>1, <2>1
<1>5. CASE RollbackFails
  <2>1. op'.exact = FALSE
    BY <1>5 DEF RollbackFails, TypeOK, Operation
  <2> QED BY <1>1, <2>1
<1>6. CASE UndoDone \/ CleanupDone
  BY <1>1, <1>6 DEF UndoDone, CleanupDone, IdleOperation
<1>7. CASE Restart
  BY <1>1, <1>7 DEF Restart, CleanupFor, IdleOperation
<1>8. CASE UNCHANGED vars
  <2>1. UNCHANGED <<index, disk, sources, op, receipt, before>>
    BY <1>8 DEF vars
  <2> QED BY <2>1 DEF JournalledOK, Obsolete, Items, FileAt
<1>9. ASSUME NEW i \in Slots, CleanupArtifact(i), op.pc = "undo"
      PROVE  op'.pc = "undo"
  BY <1>9 DEF CleanupArtifact, TypeOK, Operation
<1>10. \A i \in Slots : CleanupArtifact(i) => op.pc \in {"undo", "clean"}
  BY DEF CleanupArtifact
<1>11. \A row \in Rows : CleanupSource(row) \/ SkipSource(row) \/ CleanupSourceFails(row)
                           => op.pc = "clean"
  BY DEF CleanupSource, SkipSource, CleanupSourceFails
<1>12. CASE \/ \E i \in Slots : CleanupArtifact(i)
            \/ \E row \in Rows : CleanupSource(row) \/ SkipSource(row) \/ CleanupSourceFails(row)
  BY <1>1, <1>9, <1>10, <1>11, <1>12, CleanupJournalled
<1> QED BY <1>2, <1>3, <1>4, <1>5, <1>6, <1>7, <1>8, <1>12, SwitchJournals, SaveJournalled
        DEF Next, Complete

\* MovedCompletely: when ConfigureLocal returns without an error, no copy of a
\* blob it moved is left at the old root, nor at the roots an unfinished
\* relocation to the old root came from: Switch retargets their rows, and
\* CleanupPendingBlobSources strikes a row only with its file.
THEOREM MovedCompletelyCorrect == Spec => MovedCompletely
<1>1. Init => TypeOK /\ AttemptInv /\ JournalledOK
  BY InitTypeOK DEF Init, AttemptInv, Undoable, JournalledOK, IdleOperation, Preparing
<1>2. TypeOK /\ AttemptInv /\ JournalledOK /\ [Next]_vars
        => (TypeOK /\ AttemptInv /\ JournalledOK)'
  BY NextTyped, NextUndoable, NextJournalled
<1>3. ASSUME JournalledOK, CleanupDone, op.exact, NEW h \in Items, NEW s \in Roots,
             s = receipt.old[h] \/ <<h, s, receipt.old[h]>> \in before.sources,
             Place[s] # Place[receipt.root]
      PROVE  ~FileAt(s, h)
  BY <1>3 DEF JournalledOK, Obsolete, CleanupDone
<1>4. JournalledOK /\ [Next]_vars =>
        [CleanupDone /\ op.exact =>
           \A h \in Items, s \in Roots :
             /\ s = receipt.old[h] \/ <<h, s, receipt.old[h]>> \in before.sources
             /\ Place[s] # Place[receipt.root]
             => ~FileAt(s, h)]_vars
  BY <1>3
<1> QED BY <1>1, <1>2, <1>4, PTL DEF Spec, MovedCompletely
=============================================================================
