SPECIFICATION Spec
CONSTANTS
  NULL = NULL
  UINT_MAX = 15
  MaxLaunch = 3
  Calls <- UnknownCalls
  Returns <- OneOrNothing
INVARIANT EndExcluded
CHECK_DEADLOCK FALSE
