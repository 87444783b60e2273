SPECIFICATION Spec
CONSTANTS
  Handlers <- MCHandlers
  Bodies <- MCBodies
  ExecutionListed = TRUE
  MaxCrashes = 2
INVARIANT SubmitterIsNotRerun
CHECK_DEADLOCK FALSE
