SPECIFICATION FairSpec
CONSTANTS
  Handlers <- MCHandlers
  Bodies <- MCBodies
  ExecutionListed = TRUE
  MaxCrashes = 2
INVARIANTS
  ReplayAgrees
  EndsAfterItsParts
  RerunsAreCaused
PROPERTIES
  ContextIsSealed
  ExecutionEnds
CHECK_DEADLOCK FALSE
