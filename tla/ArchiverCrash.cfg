SPECIFICATION CrashSpec
CONSTANTS
  NoLimit = 7
  LineLen <- MCLineLen
  MaxLogSize = 3
  SolidifiersCount = 1
  MaxBuffered = 3
  DiskFails = TRUE
  Torn = Torn
INVARIANT LogOrdered
CHECK_DEADLOCK FALSE
