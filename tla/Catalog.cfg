SPECIFICATION Spec
CONSTANTS
  Refreshers <- LoopAndRequest
  Customs <- NoneOrMine
  MaxVersion = 2
  MaxFaults = 2
INVARIANTS
  TypeOK
  TagNotAhead
PROPERTIES
  CatalogKept
  CatalogCurrent
