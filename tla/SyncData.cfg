SPECIFICATION Spec
CONSTANTS
  From = 1
  To = 7
INVARIANTS SyncDataInv TakenAscending
PROPERTIES AllTaken
CHECK_DEADLOCK FALSE
