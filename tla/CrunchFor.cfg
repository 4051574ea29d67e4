SPECIFICATION Spec
CONSTANTS
  Used <- UsedThreads
  MaxThreads = 2
  MaxRuns = 3
INVARIANTS CountsInTime OneLateRun
PROPERTY CallReturns
