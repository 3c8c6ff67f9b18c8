SPECIFICATION FairSpec
CONSTANTS
  g1 = g1
  c1 = c1
  c2 = c2
  Games = {g1}
  Callers = {c1, c2}
  Policy <- Debounced
  QueueCap = 1
INVARIANTS
  TypeOK
  TargetsRecent
PROPERTIES
  QuietRespected
  ChangeIsBackedUp
