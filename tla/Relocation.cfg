SPECIFICATION Spec
CONSTANTS
  None = None
  first = first
  second = second
  link = link
  Hashes = {1}
  Roots = {first, second, link}
  Place <- TwoPlaces
  Slots = {1, 2}
  MaxJournal = 1
INVARIANTS
  TypeOK
  NeededOnDisk
PROPERTIES
  UndoneExactly
  MovedCompletely
