SPECIFICATION Spec
CONSTANTS
  main = main
  worker = worker
  Threads = {main, worker}
  a = a
  b = b
  Items = {a, b}
  AF_SECONDS = 2
  AF_DELAY_SECONDS = 1
  MaxTime = 5
INVARIANTS KeptForDelay NothingLeft
PROPERTY LoopFrees
CHECK_DEADLOCK FALSE
