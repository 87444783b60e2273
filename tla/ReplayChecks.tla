---------------------------- MODULE ReplayChecks ----------------------------
(***************************************************************************)
(* What the handler of a durable operation decides when it looks its       *)
(* operation up in the state that the service has recorded, and what an    *)
(* operation that is over returns.  Both the flat handler of DurableReplay *)
(* and the nested contexts of DurableContexts are built from it.           *)
(***************************************************************************)
EXTENDS Integers

CONSTANT NoValue        \* the value of an operation that has none

Success(v) == [ok |-> TRUE, value |-> v, error |-> "none"]
Failed(e) == [ok |-> FALSE, value |-> NoValue, error |-> e]

Terminal == {"SUCCEEDED", "FAILED", "CANCELLED", "TIMED_OUT", "STOPPED"}

Type(kind) ==
  CASE kind \in {"atMostOnce", "atLeastOnce", "condition"} -> "STEP"
    [] kind = "wait"                 -> "WAIT"
    [] kind \in {"callback", "result"} -> "CALLBACK"
    [] kind = "invoke"               -> "INVOKE"
    [] kind = "child"                -> "CONTEXT"
    [] kind = "return"               -> "EXECUTION"

\* get_result of an operation that has succeeded.
HasResult(op) == op.status = "SUCCEEDED" /\ op.value # NoValue

Absent == [type |-> "NONE", status |-> "NONE", value |-> NoValue, attempt |-> 0]

\* Mutant: the result does not get into the operation.
ApplyWithoutResult(op, u) ==
  CASE u.action = "START"   -> [Absent EXCEPT !.type = u.type, !.status = "STARTED"]
    [] u.action = "SUCCEED" -> [op EXCEPT !.type = u.type, !.status = "SUCCEEDED"]
    [] u.action = "FAIL"    -> [op EXCEPT !.type = u.type, !.status = "FAILED"]
    [] u.action = "RETRY"   -> [op EXCEPT !.type = u.type, !.status = "PENDING",
                                          !.attempt = u.attempt]
    [] u.action = "CANCEL"  -> [op EXCEPT !.type = u.type, !.status = "CANCELLED"]

\* What an update makes of its operation, in the local cache as in the service.
Apply(op, u) ==
  CASE u.action = "START"   -> [Absent EXCEPT !.type = u.type, !.status = "STARTED"]
    [] u.action = "SUCCEED" -> [op EXCEPT !.type = u.type, !.status = "SUCCEEDED",
                                          !.value = u.value]
    [] u.action = "FAIL"    -> [op EXCEPT !.type = u.type, !.status = "FAILED"]
    [] u.action = "RETRY"   -> [op EXCEPT !.type = u.type, !.status = "PENDING",
                                          !.attempt = u.attempt]
    [] u.action = "CANCEL"  -> [op EXCEPT !.type = u.type, !.status = "CANCELLED"]

\* get_current_state: the attempt in the retry payload, or the first.
CurrentAttempt(op) == IF op.attempt = 0 THEN 1 ELSE op.attempt

-----------------------------------------------------------------------------
(* The replay checks: what the handler of an operation decides to do when  *)
(* it finds this in the cache.                                             *)

\* Mutant: only a step that has succeeded is replayed.
StepDecisionOnSuccess(kind, op) ==
  CASE op.status = "SUCCEEDED" -> "replay"
    [] op.status = "PENDING"   -> "suspend"
    [] op.status = "READY"     -> "run"
    [] OTHER -> IF kind = "atMostOnce" THEN "start" ELSE "run"

\* Mutant: no step records its START.
StepDecisionUnrecorded(kind, op) ==
  CASE op.status \in Terminal  -> "replay"
    [] op.status = "PENDING"   -> "suspend"
    [] OTHER                   -> "run"

StepDecision(kind, op) ==
  CASE op.status \in Terminal  -> "replay"
    [] op.status = "PENDING"   -> "suspend"
    [] op.status = "READY"     -> "run"
    [] OTHER -> IF kind = "atMostOnce" THEN "start" ELSE "run"

\* Mutant: a condition that has failed is checked again.
ConditionDecisionOnSuccess(op) ==
  CASE op.status = "SUCCEEDED" -> "replay"
    [] op.status = "NONE"      -> "start"
    [] OTHER                   -> "run"

ConditionDecision(op) ==
  CASE op.status \in {"SUCCEEDED", "FAILED"} -> "replay"
    [] op.status = "NONE"                    -> "start"
    [] OTHER                                 -> "run"

WaitDecision(op) ==
  CASE op.status \in {"SUCCEEDED", "CANCELLED"}        -> "replay"
    [] op.status \in {"STARTED", "PENDING", "READY"}   -> "suspend"
    [] OTHER                                           -> "start"

\* create_callback returns the handle of whatever callback there is.
CallbackDecision(op) == IF op.status = "NONE" THEN "start" ELSE "replay"

\* Callback::result goes on to suspend when the callback has succeeded without a
\* result.
ResultDecision(op) ==
  CASE op.status = "NONE"                            -> "error"
    [] HasResult(op) \/ op.status \in {"FAILED", "TIMED_OUT"} -> "replay"
    [] OTHER                                         -> "suspend"

\* Mutant: a function that has failed is invoked again.
InvokeDecisionOnSuccess(op) == IF op.status = "SUCCEEDED" THEN "replay" ELSE "start"

InvokeDecision(op) == IF op.status \in Terminal THEN "replay" ELSE "start"

\* A context that was started and has not ended is entered again.
ChildDecision(op) ==
  CASE op.status \in Terminal -> "replay"
    [] op.status = "NONE"     -> "start"
    [] OTHER                  -> "run"

Decision(kind, op) ==
  IF kind = "return" THEN "return"
  ELSE IF op.status # "NONE" /\ op.type # Type(kind) THEN "error"
  ELSE CASE kind \in {"atMostOnce", "atLeastOnce"} -> StepDecision(kind, op)
         [] kind = "condition"                     -> ConditionDecision(op)
         [] kind = "wait"                          -> WaitDecision(op)
         [] kind = "callback"                      -> CallbackDecision(op)
         [] kind = "result"                        -> ResultDecision(op)
         [] kind = "invoke"                        -> InvokeDecision(op)
         [] kind = "child"                         -> ChildDecision(op)

\* check_replay, the same question asked once for every kind of operation: the handlers
\* have their own words for it, and none calls it.
CheckReplay(kind, op) ==
  IF op.status = "NONE" THEN "not found"
  ELSE IF op.type # Type(kind) THEN "non-deterministic"
  ELSE IF op.status \in Terminal THEN "over"
  ELSE "in progress"

\* What an operation that is found to be over returns to the handler.  An invoked
\* function that has succeeded without a result counts as an error.
Replayed(kind, op) ==
  IF kind \in {"wait", "callback"} THEN Success(NoValue)
  ELSE IF HasResult(op) THEN Success(op.value)
  ELSE Failed(CASE kind = "result" -> "Callback"
                [] kind = "invoke" -> "Invocation"
                [] OTHER           -> "UserCode")

\* Mutant: a failure that is recorded returns Ok.
ReturnedOk(kind, u) == Success(IF kind = "callback" THEN NoValue ELSE u.value)

\* What an operation returns once its last checkpoint is acknowledged.
Returned(kind, u) ==
  IF kind = "callback" THEN Success(NoValue)
  ELSE IF u.action = "SUCCEED" THEN Success(u.value)
  ELSE Failed(IF kind = "condition" THEN "Execution" ELSE "UserCode")

=============================================================================
