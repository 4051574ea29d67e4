SPECIFICATION Spec
CONSTANTS
  NULL = NULL
  UINT_MAX = 15
  MaxLaunch = 5
  Calls <- KnownCalls
  Returns <- OneOrNothing
INVARIANTS EvenSplitThreads ResultIsSum
PROPERTIES CallReturns EachItemOnce
