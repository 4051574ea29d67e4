SPECIFICATION Spec
CONSTANTS
  fib = fib
  zlib = zlib
  Entries = {fib, zlib}
  None = None
  MaxRuns = 2
  Outcomes = {"result", "nothing"}
  UserActs = {}
  SpawnMayFail = FALSE
PROPERTY SilentEndNoticed
CHECK_DEADLOCK FALSE
