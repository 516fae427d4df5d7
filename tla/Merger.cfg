SPECIFICATION Spec
CONSTANTS
  Scenarios <- MCScenarios
  MaxFull = 3
  Unbounded = 99
  MaxRuns = 2
INVARIANTS NamesExact
PROPERTIES NothingLost TidyIsMerged
CHECK_DEADLOCK FALSE
