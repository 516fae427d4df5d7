SPECIFICATION Spec
CONSTANTS
  Mine = {2, 4, 6}
  Count = 2
  GapStart = 2
  Msgs <- MCMsgs
  Ref <- MCRef
  Parents <- MCParents
  MilestoneOf <- MCMilestoneOf
  Capacity = 1
  None = None
  Held = {6}
  CachesLag = TRUE
  DbAnswers = {}
  MaxAnalyses = 2
  m2 = m2
  a4 = a4
  m4 = m4
  m6 = m6
INVARIANTS SolidifierInv SentExact
PROPERTIES NotReopened
CHECK_DEADLOCK FALSE
