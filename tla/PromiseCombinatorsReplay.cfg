SPECIFICATION Spec
CONSTANTS
  Handlers <- MCReplayBehavior
  Threads = "one"
  MaxCrashes = 1
INVARIANT CombinatorReplays
CHECK_DEADLOCK FALSE
