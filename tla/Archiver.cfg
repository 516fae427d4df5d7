SPECIFICATION Spec
CONSTANTS
  NoLimit = 7
  LineLen <- MCLineLen
  MaxLogSize = 3
  SolidifiersCount = 1
  MaxBuffered = 3
  DiskFails = TRUE
  Torn = Torn
INVARIANTS TypeOK NoOverlap SealedExact ArchiverInv
PROPERTIES JumpsNothing DrainEnds
CHECK_DEADLOCK FALSE
