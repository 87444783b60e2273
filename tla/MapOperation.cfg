SPECIFICATION FairSpec
CONSTANTS
  N = 3
  Waits = {2}
  Settings <- MCSettings
  MaxInterruptions = 1
INVARIANTS
  TypeOK
  BatchIsStable
  ReasonIsJustified
  OneThreadKeepsItems
PROPERTIES
  NothingRunsAfterTheMap
  EndedChildIsFinal
  MapEnds
CHECK_DEADLOCK FALSE
