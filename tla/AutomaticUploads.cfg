SPECIFICATION FairSpec
CONSTANTS
  g1 = g1
  g2 = g2
  g3 = g3
  Games = {g1, g2, g3}
  Watched = {g1, g2}
  MaxCrashes = 1
INVARIANTS
  TypeOK
  NoLostWakeup
PROPERTIES
  SnapshotIsTried
