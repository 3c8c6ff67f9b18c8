SPECIFICATION Spec
CONSTANTS
  t1 = t1
  t2 = t2
  b1 = b1
  c1 = c1
  c2 = c2
  b2 = b2
  None = None
  Targets = {t1, t2}
  Callers = {c1, c2}
  Blobs = {b1, b2}
  Snapshots = {1, 2}
  Files <- Shared
  MaxRequests = 3
  MaxEmptied = 1
SYMMETRY Symmetry
INVARIANTS
  TypeOK
  PairVerified
PROPERTIES
  PublishedComplete
