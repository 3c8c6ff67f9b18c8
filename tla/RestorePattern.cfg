SPECIFICATION Spec
CONSTANTS
  save1 = save1
  save2 = save2
  root1 = root1
  root2 = root2
  None = None
  Paths = {1, 2}
  Resolved <- Apart
  Template <- Pattern
  Roots = {}
  MaxFaults = 0
  MaxChanges = 0
INVARIANTS
  RestoredWhereCaptured
CHECK_DEADLOCK FALSE
