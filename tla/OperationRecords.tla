-------------------------- MODULE OperationRecords --------------------------
(***************************************************************************)
(* One operation field by field.  Two records of it are kept, and the      *)
(* same updates change them in different code: the cache of the running    *)
(* invocation (update_local_cache_from_update) and the operation of the    *)
(* service, which is the checkpoint server here.  Handlers read either     *)
(* through CheckpointedResult, and what they read is the operation of      *)
(* ReplayChecks: known follows the cache and truth the service as Apply    *)
(* has it.                                                                 *)
(*                                                                         *)
(* The ids, names, timestamps and options of an operation are left out,    *)
(* but for the step options of a RETRY.  Nothing in the repository ends an *)
(* invoke at the checkpoint server, and so nothing does here.              *)
(***************************************************************************)
EXTENDS Integers

CONSTANTS Result,      \* what operations succeed with
          Failure,     \* what they fail with
          NoValue,     \* an Option that is None
          MaxChecks    \* how often the wait strategy lets a condition be checked

\* None is no payload: a result or an error is text, and the payload of a RETRY holds an
\* attempt.
ASSUME OptionAssumption == NoValue \notin Result \cup Failure \cup Nat

Checks == INSTANCE ReplayChecks

VARIABLES opKind,      \* the kind of call that makes the operation
          cached,      \* the operation in the cache of the invocation
          recorded,    \* the operation of the service
          known,       \* what a handler is to read of the one
          truth        \* and of the other

records == <<opKind, cached, recorded, known, truth>>

OpKind == {"atMostOnce", "atLeastOnce", "condition", "wait", "callback", "invoke", "child"}

-----------------------------------------------------------------------------
(* Operations.                                                             *)

\* The details of whatever type the operation is: only a step has a payload and an
\* attempt, counted from 1.
NoDetails == [result |-> NoValue, payload |-> NoValue, attempt |-> 0]

\* Operation::new
New(type) == [type |-> type, status |-> "STARTED", result |-> NoValue, error |-> NoValue,
              details |-> NoDetails]

Missing == [New("NONE") EXCEPT !.status = "NONE"]

Exists(op) == op.status # "NONE"

\* The result in the details goes before the one in the operation itself.
GetResult(op) == IF op.details.result # NoValue THEN op.details.result ELSE op.result

\* The attempt that get_current_state finds: the payload of a RETRY is the next one.
Attempt(op) == IF op.details.payload # NoValue THEN op.details.payload ELSE op.details.attempt

\* What CheckpointedResult tells a handler.
Read(op) == [type |-> op.type, status |-> op.status,
             value |-> IF op.status = "SUCCEEDED" THEN GetResult(op) ELSE NoValue,
             attempt |-> Attempt(op)]

-----------------------------------------------------------------------------
(* Updates.                                                                *)

Sent(action, type) == [action |-> action, type |-> type, result |-> NoValue,
                       error |-> NoValue, options |-> FALSE]

Start(type) == Sent("START", type)
Succeed(type, result) == [Sent("SUCCEED", type) EXCEPT !.result = result]
Fail(type, error) == [Sent("FAIL", type) EXCEPT !.error = error]
Cancel(type) == Sent("CANCEL", type)
Retry(type, payload) == [Sent("RETRY", type) EXCEPT !.result = payload, !.options = TRUE]

\* How the code of a step, a condition or a context can end.
Endings(type) == {Succeed(type, v) : v \in Result} \cup {Fail(type, e) : e \in Failure}

Running == {"STARTED", "READY"}

\* The updates that the handler of a step can send, having read this.
StepUpdates(kind, op) ==
  {u \in {Start("STEP")} : Checks!StepDecision(kind, op) = "start"} \cup
  {u \in Endings("STEP") :
     op.status \in Running \cup IF kind = "atMostOnce" THEN {} ELSE {"NONE"}}

ConditionUpdates(op) ==
  LET attempt == Checks!CurrentAttempt(op)
  IN  {u \in {Start("STEP")} : op.status = "NONE"} \cup
      {u \in {Succeed("STEP", v) : v \in Result} \cup
             (IF attempt >= MaxChecks THEN {Fail("STEP", e) : e \in Failure}
              ELSE {Retry("STEP", attempt + 1)}) : op.status \in Running \cup {"PENDING"}}

\* wait_handler, and wait_cancel_handler.
WaitUpdates(op) ==
  {u \in {Start("WAIT")} : Checks!WaitDecision(op) = "start"} \cup
  {u \in {Cancel("WAIT")} : op.status \notin Checks!Terminal \cup {"NONE"}}

CallbackUpdates(op) == {u \in {Start("CALLBACK")} : op.status = "NONE"}

\* The payload of the invocation goes where a result does.
InvokeUpdates(op) ==
  {[Start("INVOKE") EXCEPT !.result = v] :
     v \in {w \in Result : Checks!InvokeDecision(op) = "start"}}

ChildUpdates(op) ==
  {u \in {Start("CONTEXT")} : op.status = "NONE"} \cup
  {u \in Endings("CONTEXT") : op.status = "STARTED"}

HandlerUpdates(kind, op) ==
  CASE kind \in {"atMostOnce", "atLeastOnce"} -> StepUpdates(kind, op)
    [] kind = "condition" -> ConditionUpdates(op)
    [] kind = "wait"      -> WaitUpdates(op)
    [] kind = "callback"  -> CallbackUpdates(op)
    [] kind = "invoke"    -> InvokeUpdates(op)
    [] kind = "child"     -> ChildUpdates(op)

-----------------------------------------------------------------------------
(* What an update makes of an operation.                                   *)

StatusAfter == [START |-> "STARTED", SUCCEED |-> "SUCCEEDED", FAIL |-> "FAILED",
                CANCEL |-> "CANCELLED", RETRY |-> "PENDING"]

\* Mutant: the payload of a RETRY is put where a result goes, and nowhere else.
CachedPayloadAsResult(op, u) ==
  LET before == IF Exists(op) /\ u.action # "START" THEN op ELSE New(u.type)
      next   == [before EXCEPT !.status = StatusAfter[u.action]]
  IN  CASE u.action \in {"SUCCEED", "RETRY"}  -> [next EXCEPT !.result = u.result]
        [] u.action = "FAIL"                -> [next EXCEPT !.error = u.error]
        [] u.action \in {"START", "CANCEL"} -> next

\* In the cache a RETRY leaves the result alone and counts in the details, and the
\* other updates leave the details alone; a START begins again.
Cached(op, u) ==
  LET before == IF Exists(op) /\ u.action # "START" THEN op ELSE New(u.type)
      next   == [before EXCEPT !.status = StatusAfter[u.action]]
  IN  CASE u.action = "SUCCEED" -> [next EXCEPT !.result = u.result]
        [] u.action = "FAIL"    -> [next EXCEPT !.error = u.error]
        [] u.action = "RETRY"   ->
             IF u.result # NoValue \/ u.options
             THEN [next EXCEPT
                     !.details.payload = IF u.result # NoValue THEN u.result ELSE @,
                     !.details.attempt = @ + 1,
                     !.error = IF u.error # NoValue THEN u.error ELSE @]
             ELSE [next EXCEPT !.error = IF u.error # NoValue THEN u.error ELSE @]
        [] u.action \in {"START", "CANCEL"} -> next

\* The checkpoint server merges: what an update does not bring, the operation keeps,
\* and a payload is its result besides.
Recorded(op, u) ==
  LET before == IF Exists(op) THEN op ELSE New(u.type)
      merged == [before EXCEPT
                   !.status = StatusAfter[u.action],
                   !.result = IF u.result # NoValue THEN u.result ELSE @,
                   !.error = IF u.error # NoValue THEN u.error ELSE @]
  IN  IF u.action = "RETRY"
      THEN [merged EXCEPT !.details = [result |-> NoValue, payload |-> u.result,
                                       attempt |-> before.details.attempt + 1]]
      ELSE merged

\* The same update in the terms of ReplayChecks.
Told(u) == [type |-> u.type, action |-> u.action,
            value |-> IF u.action = "SUCCEED" THEN u.result ELSE NoValue,
            attempt |-> IF u.action = "RETRY" THEN u.result ELSE 0]

-----------------------------------------------------------------------------

RecordsInit ==
  /\ opKind \in OpKind
  /\ cached = Missing /\ recorded = Missing
  /\ known = Checks!Absent /\ truth = Checks!Absent

\* The answer of a direct checkpoint brings the operation of the service, as that of
\* every create_callback does; after a batch the cache takes over the update.
Checkpoint ==
  \E u \in HandlerUpdates(opKind, Read(cached)), answered \in BOOLEAN :
    /\ opKind = "callback" => answered
    /\ recorded' = Recorded(recorded, u)
    /\ truth' = Checks!Apply(truth, Told(u))
    /\ cached' = IF answered THEN recorded' ELSE Cached(cached, u)
    /\ known' = IF answered THEN truth' ELSE Checks!Apply(known, Told(u))
    /\ UNCHANGED opKind

\* Another invocation begins with what the service has, the update that the last one was
\* at recorded or not.
NewInvocation ==
  /\ \/ UNCHANGED <<recorded, truth>>
     \/ \E u \in HandlerUpdates(opKind, Read(cached)) :
          /\ recorded' = Recorded(recorded, u)
          /\ truth' = Checks!Apply(truth, Told(u))
  /\ cached' = recorded'
  /\ known' = truth'
  /\ UNCHANGED opKind

\* The service lets the next attempt begin, and a wait be over.
Resolve ==
  /\ \/ recorded.type = "STEP" /\ recorded.status = "PENDING"
     \/ recorded.type = "WAIT" /\ recorded.status = "STARTED"
  /\ LET status == IF recorded.type = "STEP" THEN "READY" ELSE "SUCCEEDED"
     IN  /\ recorded' = [recorded EXCEPT !.status = status]
         /\ truth' = [truth EXCEPT !.status = status]
  /\ UNCHANGED <<opKind, cached, known>>

\* complete_callback_operation copies what the operation has into its details.
Answer ==
  /\ recorded.type = "CALLBACK" /\ recorded.status = "STARTED"
  /\ \/ \E v \in Result \cup {NoValue} :
          /\ recorded' = [recorded EXCEPT !.status = "SUCCEEDED", !.result = v,
                                          !.details.result = v]
          /\ truth' = [truth EXCEPT !.status = "SUCCEEDED", !.value = v]
     \/ \E e \in Failure :
          /\ recorded' = [recorded EXCEPT !.status = "FAILED", !.error = e,
                                          !.details.result = recorded.result]
          /\ truth' = [truth EXCEPT !.status = "FAILED"]
  /\ UNCHANGED <<opKind, cached, known>>

RecordsNext == Checkpoint \/ NewInvocation \/ Resolve \/ Answer

RecordsSpec == RecordsInit /\ [][RecordsNext]_records

-----------------------------------------------------------------------------

\* Though the cache and the service make different records of the same updates, handlers
\* read in either what ReplayChecks says they do: the status, the result of an operation
\* that has succeeded and the attempt that is due; and where both have failed, the error.
RecordsReadTheSame ==
  /\ Read(cached) = known
  /\ Read(recorded) = truth
  /\ cached.status = "FAILED" /\ recorded.status = "FAILED" => cached.error = recorded.error

=============================================================================
