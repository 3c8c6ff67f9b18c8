SPECIFICATION Spec
CONSTANTS
  watcher = watcher
  syncer = syncer
  handler = handler
  h1 = h1
  h2 = h2
  None = None
  Workers = {watcher, syncer}
  Role <- BackupAndRestore
  Hashes = {h1, h2}
  Contents <- OneOrTwo
  Games = {1}
  MaxSnap = 2
  Keep = 1
  SwapStops = TRUE
INVARIANTS
  SnapshotsRestorable
