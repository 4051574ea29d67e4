SPECIFICATION Spec
CONSTANTS
  fib = fib
  zlib = zlib
  Entries = {fib, zlib}
  None = None
  MaxRuns = 3
  Outcomes = {"result", "nothing"}
  UserActs = {"cancel", "escape"}
  SpawnMayFail = TRUE
INVARIANTS WatchHasItsDialog ResultOfOwnRun NoChildRunsOn RetriedForUpload
PROPERTY ResultEndsDialog
CHECK_DEADLOCK FALSE
