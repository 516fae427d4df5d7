SPECIFICATION Spec
CONSTANTS
  Mine = {4}
  Count = 2
  GapStart = 2
  Msgs <- MCMsgs
  Ref <- MCRef
  Parents <- MCParents
  MilestoneOf <- MCMilestoneOf
  Capacity = 1
  None = None
  Held = {}
  CachesLag = FALSE
  DbAnswers = {4}
  MaxAnalyses = 2
  m2 = m2
  a4 = a4
  m4 = m4
  m6 = m6
INVARIANTS SyncedIsStored RowsAwaited
PROPERTIES SyncRowWritten Answered
CHECK_DEADLOCK FALSE
