SPECIFICATION Spec
CONSTANTS
  watcher = watcher
  syncer = syncer
  handler = handler
  h1 = h1
  h2 = h2
  None = None
  Workers = {watcher, syncer}
  Role <- BackupAndSync
  Hashes = {h1, h2}
  Contents <- OneOrTwo
  Games = {1}
  MaxSnap = 3
  Keep = 1
  SwapStops = FALSE
INVARIANTS
  TypeOK
  RemoteComplete
  SnapshotsRestorable
  ActivePresent
PROPERTIES
  RetentionKeepsRecent
  KeepsArchive
