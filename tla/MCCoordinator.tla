--------------------------- MODULE MCCoordinator ---------------------------
(***************************************************************************)
(* Instances of Coordinator for TLC: who runs which operations, and what   *)
(* the save files of a game may hash to.                                   *)
(***************************************************************************)
EXTENDS Coordinator, TLC

CONSTANTS watcher, syncer, handler, h1, h2

\* Backups against uploads, retention and deletions.
BackupAndSync ==
  watcher :> {"backup"} @@ syncer :> {"syncGame", "syncPending", "delete"}

\* Imports, two of which may overlap, against deletions, restores and backups.
ImportAndRestore ==
  watcher :> {"backup"} @@ syncer :> {"delete", "restore", "reconcile"} @@ handler :> {"reconcile"}

\* Restores with downloads against backups; imports bring the snapshots.
BackupAndRestore ==
  watcher :> {"backup"} @@ syncer :> {"restore", "reconcile"}

\* Every pair of operations that contend for a lock.
LockUsers ==
  watcher :> {"backup"} @@ syncer :> {"syncGame", "delete", "restore"}

OneOrTwo == {{h1}, {h1, h2}}
Either == {{h1}, {h2}}
=============================================================================
