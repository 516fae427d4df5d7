SPECIFICATION Spec
CONSTANTS
  MilestoneChunkSize = 2
  PartitionCount = 3
  NoAddress = NoAddress
  Listings <- MCListings
  Late <- MCLate
  Hidden <- MCHidden
  PageSizes = {1, 2, 3, 4}
  MaxFails = 1
  None = None
INVARIANTS PagerInv Complete
PROPERTIES Ends
CHECK_DEADLOCK FALSE
