SPECIFICATION Spec
CONSTANTS
  MilestoneChunkSize = 2
  PartitionCount = 2
  NoAddress = NoAddress
  Log <- MCLog
  Messages <- MCMessages
  Ranges <- MCRanges
  Stored <- MCStored
  Parallelism = 2
  Retries = 1
  MaxFaults = 2
INVARIANTS ImporterInv ReportsExact
PROPERTIES Promised Terminates
CHECK_DEADLOCK FALSE
