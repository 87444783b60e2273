SPECIFICATION Spec
CONSTANTS
  N = 3
  Waits = {2}
  Settings <- MCManyThreads
  MaxInterruptions = 1
INVARIANT ItemKeepsItsResult
CHECK_DEADLOCK FALSE
