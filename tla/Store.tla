------------------------------- MODULE Store -------------------------------
(***************************************************************************)
(* The local state of SaveKnot: the SQLite tables "snapshots",             *)
(* "snapshot_blobs" and "blobs" (internal/database/store.go) and the       *)
(* directory of compressed blob files they index.                          *)
(*                                                                         *)
(* The connection pool has one connection (MaxOpenConns(1)), so each       *)
(* transaction of store.go is one step: the operators below are those      *)
(* transactions, for the modules that interleave them.                     *)
(*                                                                         *)
(* A snapshot identifier is a number and its order is the order of         *)
(* created_at.  A manifest is abstracted to the set of blobs it names: it  *)
(* is immutable, so "files" and "gameOf" are fixed once an identifier is   *)
(* used, wherever the manifest is stored.                                  *)
(***************************************************************************)
EXTENDS Naturals, FiniteSets

CONSTANTS
  Hashes,     \* SHA-256 names of blobs
  Games,      \* games of the library
  MaxSnap     \* bound: snapshot identifiers are 1..MaxSnap

ASSUME MaxSnapAssumption == MaxSnap \in Nat \ {0}
ASSUME GamesAssumption == Games # {}

VARIABLES
  rows,       \* identifiers with a row in "snapshots"
  synced,     \* identifiers whose row has remote_state = 'synced'
  files,      \* files[s]: the blobs the manifest of s names, {} if s is unused
  gameOf,     \* gameOf[s]: the game of s
  blobs,      \* hashes with a row in "blobs"
  uploaded,   \* hashes whose row has uploaded_to = the connected bucket
  disk        \* hashes with a valid blob file at their indexed path

tableVars == <<rows, synced, files, gameOf>>
blobVars == <<blobs, uploaded, disk>>
storeVars == <<rows, synced, files, gameOf, blobs, uploaded, disk>>

Ids == 1..MaxSnap

StoreTypeOK ==
  /\ rows \subseteq Ids
  /\ synced \subseteq rows
  /\ files \in [Ids -> SUBSET Hashes]
  /\ gameOf \in [Ids -> Games]
  /\ blobs \subseteq Hashes
  /\ uploaded \subseteq blobs
  /\ disk \subseteq Hashes

StoreInit ==
  /\ rows = {}
  /\ synced = {}
  /\ files = [s \in Ids |-> {}]
  /\ gameOf = [s \in Ids |-> CHOOSE g \in Games : TRUE]
  /\ blobs = {}
  /\ uploaded = {}
  /\ disk = {}

-----------------------------------------------------------------------------
(***************************************************************************)
(* Queries.                                                                *)
(***************************************************************************)
\* The first and the last of a set of snapshots in the order of created_at,
\* as a set: empty when there is none.
Oldest(S) == {s \in S : \A t \in S : s <= t}
Newest(S) == {s \in S : \A t \in S : t <= s}

RowsOf(g) == {s \in rows : gameOf[s] = g}

\* Faulty variant, a mutant: one row too many.
SnapshotsBeyondOffByOne(g, keep) ==
  {s \in RowsOf(g) : Cardinality({t \in RowsOf(g) : t > s}) >= keep - 1}

\* ORDER BY created_at DESC LIMIT -1 OFFSET keep
SnapshotsBeyond(g, keep) ==
  {s \in RowsOf(g) : Cardinality({t \in RowsOf(g) : t > s}) >= keep}

PendingSnapshots(games) == {s \in rows \ synced : gameOf[s] \in games}

LatestSnapshot(g) == Newest(RowsOf(g))

\* The hashes the table snapshot_blobs refers to.
Referenced == UNION {files[s] : s \in rows}

\* BlobPath finds a row, and the file it names verifies.
Readable(h) == h \in blobs /\ h \in disk

\* Identifiers no device has used; a manifest names at least one blob.
Unused == {s \in Ids : files[s] = {}}

-----------------------------------------------------------------------------
(***************************************************************************)
(* Transactions.                                                           *)
(***************************************************************************)
\* The identity of a new manifest: an identifier never changes its contents.
Allocate(s, g, content) ==
  /\ files' = [files EXCEPT ![s] = content]
  /\ gameOf' = [gameOf EXCEPT ![s] = g]

SaveSnapshot(s, g, content) ==
  /\ Allocate(s, g, content)
  /\ rows' = rows \cup {s}
  /\ synced' = synced
  /\ UNCHANGED blobVars

\* INSERT ... ON CONFLICT(id) DO UPDATE SET remote_state = 'synced'
ImportSnapshot(s) ==
  /\ rows' = rows \cup {s}
  /\ synced' = synced \cup {s}
  /\ UNCHANGED <<files, gameOf, blobVars>>

MarkSnapshotRemote(s) ==
  /\ s \in rows
  /\ synced' = synced \cup {s}
  /\ UNCHANGED <<rows, files, gameOf, blobVars>>

\* INSERT INTO blobs ... ON CONFLICT(hash) DO UPDATE keeps uploaded_to.  The
\* caller says what happened to the file it indexes.
SaveBlob(h) ==
  /\ blobs' = blobs \cup {h}
  /\ UNCHANGED <<tableVars, uploaded>>

\* Faulty variant, a mutant: the remote state outlives the row.
DeleteRowKeepsState(s) ==
  /\ s \in rows
  /\ rows' = rows \ {s}
  /\ UNCHANGED <<synced, files, gameOf, blobVars>>

\* The first transaction of DeleteSnapshot; "snapshot_blobs" rows cascade.
DeleteRow(s) ==
  /\ s \in rows
  /\ rows' = rows \ {s}
  /\ synced' = synced \ {s}
  /\ UNCHANGED <<files, gameOf, blobVars>>

\* The list of candidates that transaction returns when it deletes s: every
\* blob row without a reference, left there by whatever operation.
OrphansWithout(s) == blobs \ UNION {files[t] : t \in rows \ {s}}

\* Faulty variant, a mutant: the orphan list is trusted.
RemoveOrphanBlobUnchecked(h) ==
  /\ disk' = disk \ {h}
  /\ blobs' = blobs \ {h}
  /\ uploaded' = uploaded \ {h}
  /\ UNCHANGED tableVars

\* removeOrphanBlob: one write transaction that checks the references again,
\* removes the file and deletes the row.
RemoveOrphanBlob(h) ==
  /\ IF h \in Referenced
       THEN UNCHANGED blobVars
       ELSE /\ disk' = disk \ {h}
            /\ blobs' = blobs \ {h}
            /\ uploaded' = uploaded \ {h}
  /\ UNCHANGED tableVars
=============================================================================
