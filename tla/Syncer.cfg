SPECIFICATION Spec
CONSTANTS
  MaxIndex = 5
  OpenEnd = 7
  SolidifierCount = 2
  Parallelism = 2
  NoGap = NoGap
  NoLimit = NoLimit
INVARIANTS SyncerInv
PROPERTIES InOrder SkipEndsWithGap ReachesEnd
CHECK_DEADLOCK FALSE
