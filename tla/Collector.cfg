SPECIFICATION Spec
CONSTANTS
  MilestoneChunkSize = 2
  PartitionCount = 2
  NoAddress = NoAddress
  Messages <- MCMessages
  Ref <- MCRef
  MilestoneOf <- MCMilestoneOf
  Asks <- MCAsks
  Capacities <- MCCapacities
  Requesters = {0, 1}
  ApiEndpoints <- MCEndpoints
  Topologies <- MCTopologies
  RetriesPerEndpoint = 1
  None = None
  Deliveries <- MCDeliveries
INVARIANTS CollectorInv RowsExact
PROPERTIES Answered InsertedForSyncer
CHECK_DEADLOCK FALSE
