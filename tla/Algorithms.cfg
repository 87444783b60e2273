SPECIFICATION Spec
CONSTANTS
  Request <- MCRequest
  Update <- MCUpdate
  OpId <- MCOpId
  NoParent <- MCNoParent
  Above <- MCAbove
  RetryStrategies <- MCRetryStrategies
  WaitStrategies <- MCWaitStrategies
  Intervals <- MCIntervals
  Batchers <- MCBatchers
  Sizes <- MCSizes
  Origins <- MCOrigins
  Text <- MCText
  MaxBatch = 5
  MaxAttempts = 5
  MaxItems = 5
  MaxNesting = 4
  Result = {a, b}
  Failure = {e, f}
  NoValue = NoValue
  MaxChecks = 3
INVARIANTS
  SortIsSafe
  DelaysAreBounded
  BatchesPartitionItems
  StoredErrorIsStable
  RecordsReadTheSame
CHECK_DEADLOCK FALSE
