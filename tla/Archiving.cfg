SPECIFICATION Spec
CONSTANTS
  MaxIndex = 6
  OpenEnd = 8
  SolidifierCount = 1
  Parallelism = 2
  NoGap = NoGap
  NoLimit = 9
  LineLen <- MCLineLen
  MaxLogSize = 3
  MaxBuffered = 5
  Torn = Torn
  NoUpper = NoUpper
  Firsts <- MCFirsts
  MaxUnreachable = 1
  InTime = TRUE
INVARIANTS ArchivingInv
PROPERTIES PromiseKept HolesFilled
CHECK_DEADLOCK FALSE
