-------------------------- MODULE TestOrchestrator --------------------------
(***************************************************************************)
(* The orchestrator of the testing crate, the checkpoint server it drives, *)
(* and the test that answers callbacks meanwhile.  The orchestrator        *)
(* invokes the handler, looks at what the handler has left pending,        *)
(* resolves the waits itself or polls until the callbacks are answered,    *)
(* and invokes the handler again.                                          *)
(*                                                                         *)
(* The handler makes its calls one after the other and has no child        *)
(* contexts: those are DurableContexts' subject.  Time is left out: with   *)
(* skip_time or without, the loop resolves a wait as soon as it sees it.   *)
(***************************************************************************)
EXTENDS CheckpointServer, FiniteSets

CONSTANTS Handlers,        \* the handlers, one of which is run
          MaxIterations,   \* MAX_ITERATIONS, which is 100
          MaxPolls         \* MAX_CALLBACK_POLLS, which is 6000

ASSUME LimitAssumption == MaxIterations \in Nat /\ MaxPolls \in Nat \ {0}

\* What a handler may be: a sequence of calls of these kinds, each of the shape of Call; the
\* result of a callback is asked of one that has been created before; and user code does not
\* fail with the error by which an operation suspends.
IsHandler(body) ==
  /\ body \in Seq(ToSet(body))
  /\ \A n \in DOMAIN body :
       /\ body[n].kind \in {"atLeastOnce", "atMostOnce", "condition", "wait", "invoke", "callback",
                           "result", "complete"}
       /\ body[n].kind = "result" => body[n].of \in 1..(n - 1) /\ body[body[n].of].kind = "callback"
       /\ body[n].attempts \in Nat
       /\ \A end \in body[n].ends :
            end \in {Success(end.value), Failed(end.error)} /\ end.error # "Suspend"

\* A handler that records the end of the execution itself does so at its own end: it may
\* still suspend, and what it returns agrees with what it has recorded.
RecordsAtEnd(body) ==
  \A n \in DOMAIN body : body[n].kind = "complete" /\ body[n].big =>
    /\ \A m \in DOMAIN body : m > n =>
         body[m].kind = "wait" \/ (body[m].kind = "complete" /\ ~body[m].big)
    /\ \/ /\ \A end \in body[n].ends : end.ok
          /\ \A m \in DOMAIN body : m >= n => body[m].fails = {}
       \/ /\ \A end \in body[n].ends : ~end.ok
          /\ \A m \in DOMAIN body : m >= n => body[m].leaves = {}
          /\ Success(Nothing) \in body[Len(body)].fails /\ body[Len(body)].caught = {}

ASSUME HandlerAssumption == \A body \in Handlers : IsHandler(body) /\ RecordsAtEnd(body)

VARIABLES handler,
          handles,       \* whether the test has registered handles
          phase,         \* where the orchestrator is
          invocations,   \* the number of invocations so far
          iterations,    \* iteration_count
          polls,         \* callback_poll_count
          pending,       \* pending_operations
          fetched,       \* the operations the orchestrator has last read
          shared,        \* the operations the handles show
          cache,         \* the SDK's: the operations the handler sees
          pc,            \* call or run: whether user code is running
          results,       \* what the handler's calls have returned
          outcome,       \* how the run has ended
          mark           \* history: the operations when the handler was last invoked

loop == <<phase, invocations, iterations, polls, pending, fetched, mark>>
vars == <<server, handler, handles, loop, shared, cache, pc, results, outcome>>

Init ==
  /\ ServerInit
  /\ handler \in Handlers
  /\ handles \in BOOLEAN
  /\ phase = "start"
  /\ invocations = 0
  /\ iterations = 0
  /\ polls = 0
  /\ pending = {}
  /\ fetched = <<>>
  /\ shared = <<>>
  /\ cache = <<>>
  /\ pc = "call"
  /\ results = <<>>
  /\ outcome = "none"
  /\ mark = <<>>

-----------------------------------------------------------------------------
(* The handler.                                                            *)

Frame == [body |-> handler, results |-> results]

Here == handler[Len(results) + 1]

Id == IF Here.kind = "result" THEN Here.of ELSE Len(results) + 1

Op == Get(cache, Id, Absent)

Decided == Decision(Here.kind, Op)

At(point) == phase = "handler" /\ pc = point /\ ~BodyOver(Frame)

Calling(kinds) == At("call") /\ Here.kind \in kinds

\* A checkpoint, which the local cache follows.
Record(type, action, value, attempt) ==
  LET u == Update(Id, type, action, value, attempt)
  IN  /\ ProcessCheckpoint(u)
      /\ cache' = Put(cache, Id, Apply(Op, u))

Return(result) ==
  /\ results' = Append(results, result)
  /\ pc' = "call"
  /\ UNCHANGED <<handler, handles, loop, shared, outcome>>

Replay ==
  /\ Calling({"atLeastOnce", "atMostOnce", "condition", "wait", "invoke", "callback", "result"})
  /\ Decided \in {"replay", "error"}
  /\ Return(IF Decided = "replay" THEN Replayed(Here.kind, Op) ELSE Failed("NonDeterministic"))
  /\ UNCHANGED <<server, cache>>

Begin ==
  /\ Calling({"atLeastOnce", "atMostOnce", "condition"})
  /\ Decided \in {"start", "run"}
  /\ IF Decided = "start" THEN Record("STEP", "START", Nothing, 0)
                          ELSE UNCHANGED <<server, cache>>
  /\ pc' = "run"
  /\ UNCHANGED <<handler, handles, loop, shared, results, outcome>>

StepEnds ==
  /\ At("run") /\ Here.kind \in {"atLeastOnce", "atMostOnce"}
  /\ \E end \in Here.ends :
       /\ Record("STEP", IF end.ok THEN "SUCCEED" ELSE "FAIL", end.value, 0)
       /\ Return(end)

ConditionMet ==
  /\ At("run") /\ Here.kind = "condition" /\ Success(A) \in Here.ends
  /\ Record("STEP", "SUCCEED", A, 0)
  /\ Return(Success(A))

ConditionNotMet ==
  /\ At("run") /\ Here.kind = "condition" /\ NotMet \in Here.ends
  /\ IF CurrentAttempt(Op) >= Here.attempts
     THEN Record("STEP", "FAIL", Nothing, 0) /\ Return(Failed("Execution"))
     ELSE Record("STEP", "RETRY", Nothing, CurrentAttempt(Op) + 1) /\ Return(Failed("Suspend"))

Suspend ==
  /\ Calling({"atLeastOnce", "atMostOnce", "wait", "invoke", "result"})
  /\ \/ Decided = "suspend" /\ UNCHANGED <<server, cache>>
     \/ Decided = "start" /\ Here.kind \in {"wait", "invoke"}
        /\ Record(Type(Here.kind), "START", Nothing, 0)
  /\ Return(Failed("Suspend"))

\* The answer to the checkpoint brings the operations that have changed meanwhile.
CreateCallback ==
  /\ Calling({"callback"})
  /\ Decided = "start"
  /\ LET u == Update(Id, "CALLBACK", "START", Nothing, 0)
     IN  /\ ProcessCheckpoint(u)
         /\ cache' = [id \in DOMAIN cache \cup DirtyOperations(u) |->
                        IF id \in DirtyOperations(u) THEN operations'[id] ELSE cache[id]]
  /\ Return(Success(Nothing))

\* What the handler records as the end of the execution.
EndUpdate(end) ==
  Update(Execution, "EXECUTION", IF end.ok THEN "SUCCEED" ELSE "FAIL", end.value, 0)

\* complete_execution_success, _failure and _if_large: the first invocation does not know
\* of an EXECUTION operation.
CompleteItself ==
  /\ Calling({"complete"})
  /\ \/ ~Here.big /\ Return(Success(Nothing)) /\ UNCHANGED <<server, cache>>
     \/ Here.big /\ Execution \notin DOMAIN cache
        /\ Return(Failed("Validation")) /\ UNCHANGED <<server, cache>>
     \/ Here.big /\ Execution \in DOMAIN cache
        /\ \E end \in Here.ends :
             /\ ProcessCheckpoint(EndUpdate(end))
             /\ cache' = Put(cache, Execution, Apply(cache[Execution], EndUpdate(end)))
        /\ Return(Success(Nothing))

-----------------------------------------------------------------------------
(* The orchestrator.                                                       *)

\* The handles show the operations there are.
PopulateHandles == shared' = GetState

Start ==
  /\ phase = "start"
  /\ StartExecution(1)
  /\ invocations' = 1
  /\ phase' = "handler"
  /\ UNCHANGED <<handler, handles, iterations, polls, pending, fetched, shared, cache, pc,
                 results, outcome, mark>>

\* The handler has returned, and the server is told.
EndInvocation ==
  /\ phase = "handler" /\ pc = "call" /\ BodyOver(Frame)
  /\ CompleteInvocation(invocations)
  /\ phase' = IF invocations = 1 THEN "returned" ELSE "outcome"
  /\ UNCHANGED <<handler, handles, invocations, iterations, polls, pending, fetched, shared,
                 cache, pc, results, outcome, mark>>

\* After the first invocation the handles show its operations.
FetchFirst ==
  /\ phase = "returned"
  /\ fetched' = GetState
  /\ PopulateHandles
  /\ phase' = "outcome"
  /\ UNCHANGED <<server, handler, handles, invocations, iterations, polls, pending, cache, pc,
                 results, outcome, mark>>

End(as) ==
  /\ outcome' = as
  /\ phase' = "end"
  /\ UNCHANGED <<handler, handles, invocations, iterations, fetched, cache, pc, results, mark>>

\* The result of the handler is that of the run; the handles show the last of it when the
\* handler has been invoked again.
Finish ==
  /\ phase = "outcome"
  /\ LET result == BodyResult(Frame)
     IN  /\ result.error # "Suspend"
         /\ HandleCompleteExecution(result.ok)
         /\ End(IF result.ok THEN "succeeded" ELSE "failed")
  /\ IF invocations > 1 THEN PopulateHandles ELSE UNCHANGED shared
  /\ UNCHANGED <<polls, pending>>

\* The handler is pending: the loop looks at the operations, unless it has done so too
\* often.
Fetch ==
  /\ phase = "outcome"
  /\ BodyResult(Frame).error = "Suspend"
  /\ iterations < MaxIterations
  /\ iterations' = iterations + 1
  /\ fetched' = GetState
  /\ PopulateHandles
  /\ phase' = "process"
  /\ UNCHANGED <<server, handler, handles, invocations, polls, pending, cache, pc, results,
                 outcome, mark>>

GiveUp ==
  /\ phase = "outcome"
  /\ BodyResult(Frame).error = "Suspend"
  /\ iterations = MaxIterations
  /\ End("error")
  /\ UNCHANGED <<server, shared, polls, pending>>

WaitIsPending(op) == op.type = "WAIT" /\ op.status = "STARTED"

StepIsPending(op) == op.type = "STEP" /\ op.status \in {"PENDING", "STARTED"}

CallbackIsPending(op) == op.type = "CALLBACK" /\ op.status = "STARTED"

\* An INVOKE is not the orchestrator's to end.
IsPending(op) == WaitIsPending(op) \/ StepIsPending(op) \/ CallbackIsPending(op)

PendingNow == {id \in DOMAIN fetched : IsPending(fetched[id])}

\* Whether a recorded result can be read as one of the handler's.
Parses(value) == value # Foreign

\* The handler has recorded the end of the execution itself, and then suspended.  A result
\* that does not parse leaves the run as Running, after the execution has been completed.
FinishRecorded ==
  /\ phase = "process"
  /\ LET recorded == fetched[Execution]
     IN  \/ /\ recorded.status = "SUCCEEDED"
            /\ HandleCompleteExecution(TRUE)
            /\ End(IF Parses(recorded.value) THEN "succeeded" ELSE "running")
         \/ /\ recorded.status = "FAILED"
            /\ HandleCompleteExecution(FALSE)
            /\ End("failed")
  /\ UNCHANGED <<shared, polls, pending>>

\* What is pending is remembered for good.  The run is left when nothing is, or nothing
\* but what no one has a handle for.
LeaveRunning ==
  /\ phase = "process"
  /\ fetched[Execution].status = "STARTED"
  /\ handles => PendingNow = {}
  /\ \A id \in PendingNow : ~fetched[id].scheduled
  /\ pending' = pending \cup PendingNow
  /\ End("running")
  /\ UNCHANGED <<server, shared, polls>>

Proceed ==
  /\ phase = "process"
  /\ fetched[Execution].status = "STARTED"
  /\ PendingNow # {}
  /\ pending' = pending \cup PendingNow
  /\ \/ /\ \E id \in PendingNow : fetched[id].scheduled
        /\ phase' = "resolve"
        /\ UNCHANGED polls
     \/ /\ \A id \in PendingNow : ~fetched[id].scheduled
        /\ handles
        /\ phase' = "poll"
        /\ polls' = 0
  /\ UNCHANGED <<server, handler, handles, invocations, iterations, fetched, shared, cache, pc,
                 results, outcome, mark>>

\* Whether all that has ever been pending are callbacks that have been answered.
AllCallbacksDone ==
  \A id \in pending : /\ operations[id].type = "CALLBACK"
                      /\ operations[id].status \in {"SUCCEEDED", "FAILED", "CANCELLED"}

\* Mutant: the polls are not counted.
PollUncounted ==
  /\ phase = "poll"
  /\ polls < MaxPolls
  /\ PopulateHandles
  /\ IF AllCallbacksDone THEN fetched' = GetState /\ phase' = "reinvoke"
                         ELSE UNCHANGED <<fetched, phase>>
  /\ UNCHANGED <<server, handler, handles, invocations, iterations, polls, pending, cache, pc,
                 results, outcome, mark>>

Poll ==
  /\ phase = "poll"
  /\ polls < MaxPolls
  /\ polls' = polls + 1
  /\ PopulateHandles
  /\ IF AllCallbacksDone THEN fetched' = GetState /\ phase' = "reinvoke"
                         ELSE UNCHANGED <<fetched, phase>>
  /\ UNCHANGED <<server, handler, handles, invocations, iterations, pending, cache, pc, results,
                 outcome, mark>>

PollTimesOut ==
  /\ phase = "poll"
  /\ polls = MaxPolls
  /\ End("timeout")
  /\ UNCHANGED <<server, shared, polls, pending>>

\* Mutant: waits are left to the clock.
UnresolvedIgnored == {}

Unresolved == {id \in DOMAIN fetched : /\ WaitIsPending(fetched[id])
                                       /\ operations[id].status = "STARTED"}

\* Every wait that has started ends, whenever it is due.
ResolveWait ==
  /\ phase = "resolve"
  /\ \E id \in Unresolved :
       HandleUpdateCheckpointData(id, [fetched[id] EXCEPT !.status = "SUCCEEDED"])
  /\ UNCHANGED <<handler, handles, loop, shared, cache, pc, results, outcome>>

\* The handler is invoked with all the operations there are.  The server would refuse if
\* the execution were over.
Reinvoke ==
  /\ phase \in {"reinvoke", "resolve"}
  /\ phase = "resolve" => Unresolved = {}
  /\ StartInvocation(invocations + 1)
  /\ invocations' = invocations + 1
  /\ cache' = operations
  /\ results' = <<>>
  /\ mark' = operations
  /\ phase' = "handler"
  /\ UNCHANGED <<handler, handles, iterations, polls, pending, fetched, shared, pc, outcome>>

-----------------------------------------------------------------------------
(* The test, which may answer a callback as soon as a handle shows it.     *)

\* validate_callback_ready: a callback has its id as soon as it is there.
ReadyForAnswer(id) == shared[id].type = "CALLBACK"

Answer ==
  /\ handles
  /\ \E id \in DOMAIN shared :
       /\ ReadyForAnswer(id)
       /\ HandleCallbackSuccess(id, A) \/ HandleCallbackFailure(id)
  /\ UNCHANGED <<handler, handles, loop, shared, cache, pc, results, outcome>>

-----------------------------------------------------------------------------

HandlerStep == \/ Replay \/ Begin \/ StepEnds \/ ConditionMet \/ ConditionNotMet
               \/ Suspend \/ CreateCallback \/ CompleteItself

LoopStep == \/ Start \/ EndInvocation \/ FetchFirst \/ Finish \/ Fetch \/ GiveUp
            \/ FinishRecorded \/ LeaveRunning \/ Proceed
            \/ Poll \/ PollTimesOut \/ ResolveWait \/ Reinvoke

Next == HandlerStep \/ LoopStep \/ Answer

Spec == Init /\ [][Next]_vars

\* The run is a future that is polled; whether the test ever answers is its own affair.
FairSpec == Spec /\ WF_vars(HandlerStep) /\ WF_vars(LoopStep)

-----------------------------------------------------------------------------

\* Every run ends, whatever the handler leaves pending and whether or not the test
\* answers.
RunEnds == <>(outcome # "none")

\* Whether an operation has ended, or been given another attempt, since the handler was last
\* invoked.
IsNews(id) ==
  LET before == Get(mark, id, Absent)
  IN  \/ operations[id].status \in Terminal /\ before.status \notin Terminal
      \/ operations[id].attempt > before.attempt

\* The handler is invoked again only for news: since the last invocation an operation has
\* ended or a condition has been given another attempt.
InvocationsProgress ==
  [][invocations' > invocations /\ invocations > 0 => \E id \in DOMAIN operations : IsNews(id)]_vars

\* When polling gives up, some callback has not been answered, or a wait or a condition
\* is among the operations that have been pending.
PollingIsForCallbacks ==
  outcome = "timeout" =>
    \E id \in pending : shared[id].type = "CALLBACK" => shared[id].status = "STARTED"

\* Where the history tells of events of these types.
Happened(types) == {i \in DOMAIN history : history[i].type \in types}

\* The one thing that is told of the end of the execution.
ToldOnce(type) ==
  \E i \in DOMAIN history : /\ Happened({"ExecutionSucceeded", "ExecutionFailed"}) = {i}
                           /\ history[i] = Event(type, Execution)

\* The history agrees with the run: nothing is told of an operation after its success,
\* the execution has ended once and as the run has, or not at all, and every invocation but
\* the one that runs has completed.  A run that exceeds the iterations may have ended in the
\* last, and one that cannot read the result which its handler has recorded is left as
\* Running though the execution has succeeded.
HistoryIsWellFormed ==
  /\ \A i, j \in DOMAIN history :
       history[i].type \in {"StepSucceeded", "WaitSucceeded", "ExecutionSucceeded"} /\ i < j =>
         history[j].id # history[i].id
  /\ phase = "end" =>
       \/ outcome \in {"succeeded", "error"} /\ ToldOnce("ExecutionSucceeded")
       \/ outcome \in {"failed", "error"} /\ ToldOnce("ExecutionFailed")
       \/ /\ outcome = "running" /\ ToldOnce("ExecutionSucceeded")
          /\ ~Parses(fetched[Execution].value)
       \/ /\ outcome \in {"running", "timeout", "error"}
          /\ Happened({"ExecutionSucceeded", "ExecutionFailed"}) = {}
  /\ Cardinality(Happened({"InvocationCompleted"})) =
       IF phase = "handler" THEN invocations - 1 ELSE invocations

\* What a run tells of itself is what has happened in it: polling times out only for the
\* reasons there are, and the history ends as the run does.
RunIsTold == PollingIsForCallbacks /\ HistoryIsWellFormed

=============================================================================
