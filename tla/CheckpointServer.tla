-------------------------- MODULE CheckpointServer --------------------------
(***************************************************************************)
(* The checkpoint server of the testing crate, which stands in for the     *)
(* durable execution service: the operations of one execution, its         *)
(* callbacks, and the history of its events.  A worker thread serves one   *)
(* request after the other, so each request is a step.                     *)
(*                                                                         *)
(* A checkpoint carries one update here, and an operation is identified by *)
(* the number of the call that makes it; 0 is the execution itself.        *)
(***************************************************************************)
EXTENDS HandlerCalls

VARIABLES operations,   \* operation_data_map
          dirty,        \* dirty_operation_ids
          open,         \* invocations_map: the invocations that have not completed
          callbacks,    \* the registry of callbacks: open, success or failure
          completed,    \* is_execution_completed
          history       \* the Node.js events

server == <<operations, dirty, open, callbacks, completed, history>>

ServerInit ==
  /\ operations = <<>>
  /\ dirty = {}
  /\ open = {}
  /\ callbacks = <<>>
  /\ completed = FALSE
  /\ history = <<>>

Execution == 0
NoOperation == -1

Update(id, type, action, value, attempt) ==
  [id |-> id, type |-> type, action |-> action, value |-> value, attempt |-> attempt]

StatusOf == [START |-> "STARTED", SUCCEED |-> "SUCCEEDED", FAIL |-> "FAILED",
             CANCEL |-> "CANCELLED", RETRY |-> "PENDING"]

-----------------------------------------------------------------------------
(* The history.                                                            *)

ExecutionEvents ==
  [START |-> "ExecutionStarted", SUCCEED |-> "ExecutionSucceeded", FAIL |-> "ExecutionFailed"]

\* A retry is told as a failure.
StepEvents == [START |-> "StepStarted", SUCCEED |-> "StepSucceeded",
               FAIL |-> "StepFailed", RETRY |-> "StepFailed"]

WaitEvents == [START |-> "WaitStarted", SUCCEED |-> "WaitSucceeded"]

\* The answer to a callback is no checkpoint, and leaves no event.
CallbackEvents == [START |-> "CallbackStarted"]

EventsOf == [EXECUTION |-> ExecutionEvents, STEP |-> StepEvents, WAIT |-> WaitEvents,
             CALLBACK |-> CallbackEvents, INVOKE |-> <<>>]

Event(type, id) == [type |-> type, id |-> id]

\* What an update adds to the history: one event or none.
EventsOfUpdate(u) ==
  LET events == EventsOf[u.type]
  IN  IF u.action \in DOMAIN events THEN <<Event(events[u.action], u.id)>> ELSE <<>>

-----------------------------------------------------------------------------
(* Executions and invocations.                                             *)

\* Whether an operation has a time at which it is due.
Scheduled(u) == u.type = "WAIT" \/ u.action = "RETRY"

CreatedFrom(u) ==
  [type |-> u.type, status |-> StatusOf[u.action], value |-> u.value,
   attempt |-> u.attempt, scheduled |-> Scheduled(u)]

\* An execution begins with an operation of its own and an invocation.
StartExecution(n) ==
  /\ operations' = Put(<<>>, Execution,
                       CreatedFrom(Update(Execution, "EXECUTION", "START", A, 0)))
  /\ dirty' = {}
  /\ open' = {n}
  /\ callbacks' = <<>>
  /\ completed' = FALSE
  /\ history' = <<Event("ExecutionStarted", Execution)>>

\* Refused when the execution is over.
StartInvocation(n) ==
  /\ ~completed
  /\ open' = open \cup {n}
  /\ dirty' = {}
  /\ UNCHANGED <<operations, callbacks, completed, history>>

CompleteInvocation(n) ==
  /\ n \in open
  /\ open' = open \ {n}
  /\ history' = Append(history, Event("InvocationCompleted", NoOperation))
  /\ UNCHANGED <<operations, dirty, callbacks, completed>>

-----------------------------------------------------------------------------
(* Checkpoints.                                                            *)

\* An update that brings no value leaves the operation its own.
Merged(op, u) ==
  [op EXCEPT !.status = StatusOf[u.action],
             !.value = IF u.value = Nothing THEN @ ELSE u.value,
             !.attempt = IF u.action = "RETRY" THEN u.attempt ELSE @,
             !.scheduled = IF u.action = "RETRY" THEN TRUE ELSE @]

ProcessOperationUpdate(u) ==
  /\ operations' = Put(operations, u.id, IF u.id \in DOMAIN operations
                                         THEN Merged(operations[u.id], u) ELSE CreatedFrom(u))
  /\ callbacks' = IF u.type = "CALLBACK" /\ u.id \notin DOMAIN operations
                  THEN Put(callbacks, u.id, "open") ELSE callbacks
  /\ completed' = (completed \/ (u.type = "EXECUTION" /\ u.action \in {"SUCCEED", "FAIL"}))
  /\ history' = history \o EventsOfUpdate(u)

\* The operations that the answer to a checkpoint holds.
DirtyOperations(u) == dirty \cup {u.id}

ProcessCheckpoint(u) ==
  /\ ProcessOperationUpdate(u)
  /\ dirty' = {}
  /\ UNCHANGED open

GetState == operations

-----------------------------------------------------------------------------
(* Callbacks.  One that is not registered, or has been answered, is        *)
(* refused.                                                                *)

SendSuccess(id) ==
  /\ id \in DOMAIN callbacks /\ callbacks[id] = "open"
  /\ callbacks' = [callbacks EXCEPT ![id] = "success"]

SendFailure(id) ==
  /\ id \in DOMAIN callbacks /\ callbacks[id] = "open"
  /\ callbacks' = [callbacks EXCEPT ![id] = "failure"]

CompleteCallbackOperation(id, result) ==
  /\ operations' = [operations EXCEPT
       ![id].status = IF result.ok THEN "SUCCEEDED" ELSE "FAILED",
       ![id].value = IF result.ok THEN result.value ELSE @]
  /\ dirty' = dirty \cup {id}

HandleCallbackSuccess(id, value) ==
  /\ SendSuccess(id)
  /\ CompleteCallbackOperation(id, Success(value))
  /\ UNCHANGED <<open, completed, history>>

HandleCallbackFailure(id) ==
  /\ SendFailure(id)
  /\ CompleteCallbackOperation(id, Failed("Callback"))
  /\ UNCHANGED <<open, completed, history>>

-----------------------------------------------------------------------------
(* What the orchestrator does on the server's behalf.                      *)

\* A wait is told to have succeeded when it had not before.
UpdateOperationData(id, op) ==
  /\ operations' = Put(operations, id, op)
  /\ dirty' = dirty \cup {id}
  /\ history' = IF op.type = "WAIT" /\ op.status = "SUCCEEDED"
                   /\ operations[id].status # "SUCCEEDED"
                THEN Append(history, Event("WaitSucceeded", id)) ELSE history

HandleUpdateCheckpointData(id, op) ==
  /\ UpdateOperationData(id, op)
  /\ UNCHANGED <<open, callbacks, completed>>

\* Mutant: an execution that has completed itself is completed again.
CompleteExecutionAgain(ok) ==
  /\ completed' = TRUE
  /\ history' = Append(history, Event(ExecutionEvents[IF ok THEN "SUCCEED" ELSE "FAIL"],
                                      Execution))

\* The handler has returned.  Nothing is left to do if it has recorded the result itself.
CompleteExecution(ok) ==
  /\ completed' = TRUE
  /\ history' = IF completed THEN history
                ELSE Append(history, Event(ExecutionEvents[IF ok THEN "SUCCEED" ELSE "FAIL"],
                                           Execution))

HandleCompleteExecution(ok) ==
  /\ CompleteExecution(ok)
  /\ UNCHANGED <<operations, dirty, open, callbacks>>

=============================================================================
