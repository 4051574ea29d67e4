SPECIFICATION Spec
CONSTANTS
  NEntries = 3
  Uploads = {1}
  MaxSyncs = 1
  Patience = 2
  Selections <- MCSelections
  OnStartup = {FALSE}
  Answers = {"ok", "error"}
  UserActs = {"cancel"}
CHECK_DEADLOCK FALSE
PROPERTIES WaitsForClose
