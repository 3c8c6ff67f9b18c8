SPECIFICATION Spec
CONSTANTS
  save1 = save1
  save2 = save2
  root1 = root1
  root2 = root2
  None = None
  Paths = {1, 2, 3}
  Resolved <- Overlapping
  Template <- OneEach
  Roots = {root1, root2}
  MaxFaults = 3
  MaxChanges = 1
INVARIANTS
  TypeOK
  OldOnDisk
  ReplacedWasCaptured
  NothingLeftBehind
PROPERTIES
  KeepsPromise
CHECK_DEADLOCK FALSE
