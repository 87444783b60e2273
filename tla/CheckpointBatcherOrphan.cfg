SPECIFICATION FairSpec
CONSTANTS
  Request <- MCRequest
  Update <- MCUpdate
  OpId <- MCOpId
  NoParent <- MCNoParent
  Sync <- MCSync
  Direct <- MCDirect
  Spawned <- MCSpawned
  Before <- MCBefore
  QueueCap = 2
  MaxBatchOps = 2
  MaxRetries = 1
INVARIANTS
  NoOrphanRecorded
CHECK_DEADLOCK FALSE
