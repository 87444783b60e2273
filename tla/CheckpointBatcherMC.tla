------------------------ MODULE CheckpointBatcherMC ------------------------
(***************************************************************************)
(* A handler that runs a child context and creates a callback beside it.   *)
(* The body of the context sends a fire-and-forget START of a step, and    *)
(* the loser of a race started there keeps running after the context.      *)
(***************************************************************************)
EXTENDS CheckpointBatcher

MCNoParent == "none"

MCOperation(id, type, action, parent) ==
  [id |-> id, type |-> type, action |-> action, parent |-> parent]

MCUpdate ==
  [ ctxStart   |-> MCOperation("ctx",  "CONTEXT",  "START",   MCNoParent),
    stepStart  |-> MCOperation("step", "STEP",     "START",   "ctx"),
    ctxSucceed |-> MCOperation("ctx",  "CONTEXT",  "SUCCEED", MCNoParent),
    loser      |-> MCOperation("kid",  "STEP",     "SUCCEED", "ctx"),
    callback   |-> MCOperation("cb",   "CALLBACK", "START",   MCNoParent) ]

MCRequest == DOMAIN MCUpdate

MCOpId == {"ctx", "step", "kid", "cb"}

MCSync == MCRequest \ {"stepStart"}

MCDirect == {"callback"}

MCSpawned == {"loser"}

MCBefore ==
  [r \in MCRequest |-> CASE r = "stepStart"  -> {"ctxStart"}
                         [] r = "ctxSucceed" -> {"ctxStart", "stepStart"}
                         [] r = "loser"      -> {"ctxStart"}
                         [] OTHER            -> {}]

=============================================================================
