SPECIFICATION FairSpec
CONSTANTS
  OpId = {1, 2, 3, 4}
  Value = {"a", "b"}
  NoValue <- MCNoValue
  Code <- MCCode
  MaxCalls = 5
  FirstPage = {1, 2, 3, 4}
  MaxAttempts = 2
  MaxInterruptions = 2
INVARIANTS
  TypeOK
  ReplayAgrees
  NoFalseAlarm
  UpdatesAreLive
  StartedBeforeRun
PROPERTIES
  EndedIsNotRerun
  ExecutionEnds
  ImplementsOneRun
CHECK_DEADLOCK FALSE
