SPECIFICATION FairSpec
CONSTANTS
  Handlers <- MCHandlers
  Threads = "many"
  MaxCrashes = 2
INVARIANTS
  CombinatorReplays
  DecisionIsDurable
  AllKeepsIndices
PROPERTIES
  HandlerEnds
CHECK_DEADLOCK FALSE
