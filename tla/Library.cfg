SPECIFICATION Spec
CONSTANTS
  e1 = e1
  e2 = e2
  p1 = p1
  p2 = p2
  app = app
  own = own
  c1 = c1
  c2 = c2
  None = None
  Launched = {app}
  Entries = {e1, e2}
  Manual = {own}
  Places = {p1, p2}
  PlacesOf <- OnePlaceEach
  Globs = {p1}
  Typed = {p2}
  Pictured = {app}
  Formats <- JpgOrPng
  Callers = {c1, c2}
  MaxRequests = 2
  MaxChanges = 1
  MaxFaults = 1
INVARIANTS
  TypeOK
  RelationsAgree
  ArtworkExists
PROPERTIES
  ChoicesKept
  StaleCleared
