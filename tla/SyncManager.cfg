SPECIFICATION Spec
CONSTANTS
  NEntries = 3
  Uploads = {1}
  MaxSyncs = 2
  Patience = 2
  Selections <- MCSelections
  OnStartup = {TRUE, FALSE}
  Answers = {"ok", "error"}
  UserActs = {"cancel", "delete"}
CHECK_DEADLOCK FALSE
INVARIANTS DoneIsAnswered RecordsOutliveRequests NothingStray MarksInOrder
PROPERTIES CancelStops ShowReturns StartupSyncs
