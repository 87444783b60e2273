SPECIFICATION FairSpec
CONSTANTS
  Handlers <- MCHandlers
  MaxIterations = 4
  MaxPolls = 2
INVARIANTS
  RunIsTold
PROPERTIES
  RunEnds
  InvocationsProgress
CHECK_DEADLOCK FALSE
