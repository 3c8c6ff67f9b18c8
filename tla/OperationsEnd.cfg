SPECIFICATION FairSpec
CONSTANTS
  watcher = watcher
  syncer = syncer
  handler = handler
  h1 = h1
  h2 = h2
  None = None
  Workers = {watcher, syncer}
  Role <- LockUsers
  Hashes = {h1, h2}
  Contents <- Either
  Games = {1}
  MaxSnap = 2
  Keep = 1
  SwapStops = FALSE
PROPERTIES
  OperationsEnd
