-------------------------- MODULE DurableContexts --------------------------
(***************************************************************************)
(* A handler whose operations are nested in child contexts, over all the   *)
(* invocations of its execution.  A context hands out the ids of its       *)
(* operations from a counter that lives as long as the invocation; a child *)
(* context is an operation of its parent and the base of its own ids.      *)
(*                                                                         *)
(* A handler is a sequence of calls, one of which may have a body: the     *)
(* calls of the closure that it runs in a child context.  DurableReplay is *)
(* about the steps of one operation; here the check, the user code and     *)
(* its checkpoint are a step each, and what the service does becomes       *)
(* visible to the next invocation alone.                                   *)
(***************************************************************************)
EXTENDS HandlerCalls, FiniteSets

CONSTANTS Handlers,          \* the handlers, one of which is executed
          Bodies,            \* the handlers, and the closures of all their contexts
          ExecutionListed,   \* whether the initial state holds the EXECUTION operation
          MaxCrashes         \* bounds the crashes

\* The result that is awaited is that of an earlier callback of the body.  User code does
\* not suspend by itself, and a value it returns is not that of an operation without one.
ASSUME BodyAssumption ==
  /\ Handlers \subseteq Bodies
  /\ \A body \in Bodies :
       /\ body \in Seq(Range(body))
       /\ \A n \in DOMAIN body :
            LET call == body[n]
            IN  /\ call.kind \in {"atLeastOnce", "atMostOnce", "condition", "wait", "invoke",
                                  "callback", "result", "submit", "nextId", "cancel",
                                  "complete", "child"}
                /\ call.attempts \in Nat \ {0}
                /\ call.kind = "child" => call.body \in Bodies
                /\ call.kind = "result" => /\ call.of \in 1..(n - 1)
                                          /\ body[call.of].kind = "callback"
                /\ call.kind \in {"atLeastOnce", "atMostOnce", "submit"} =>
                     \A end \in call.ends : /\ end \in {Success(end.value), Failed(end.error)}
                                            /\ end.error # "Suspend"
                                            /\ end.ok => end.value # Nothing

-----------------------------------------------------------------------------

VARIABLES handler,      \* the handler
          log,          \* the operations the service has recorded
          invocation,   \* due, running, suspended or over
          stack,        \* the contexts that are open, the innermost last
          pc,           \* call or run: whether user code is running
          replayed,     \* replayed_operations
          replaying,    \* whether replay_status is Replay
          output,       \* how the execution has ended
          crashes,
          observed,     \* history: what each call has returned first
          runs          \* history: how often the user code of a call has begun

replay == <<replayed, replaying>>
vars == <<handler, log, invocation, stack, pc, replay, output, crashes, observed, runs>>

\* The context that has this id, before its first operation.
Context(id, body) == [id |-> id, body |-> body, counter |-> 0, ids |-> <<>>, results |-> <<>>]

Init ==
  /\ handler \in Handlers
  /\ log = <<>>
  /\ invocation = "due"
  /\ stack = <<>>
  /\ pc = "call"
  /\ replayed = {}
  /\ replaying = FALSE
  /\ output = "none"
  /\ crashes = 0
  /\ observed = <<>>
  /\ runs = <<>>

-----------------------------------------------------------------------------
(* Where the handler is.                                                   *)

Top == Last(stack)

\* The place of the current call in the handler, whatever ids there are.
PathIn(frames) == [i \in DOMAIN frames |-> Len(frames[i].results) + 1]

Path == PathIn(stack)

Here == Top.body[Len(Top.results) + 1]

TakesId(call) == call.kind \notin {"result", "submit", "complete", "cancel"}

\* The context whose counter gives the id: the innermost one, or the one around it.
Owner == IF Here.outer THEN Len(stack) - 1 ELSE Len(stack)

\* Mutant: a context goes on with the number of operations that are recorded in it.
NextIdAfterRecorded ==
  Append(stack[Owner].id,
         1 + Cardinality({i \in DOMAIN log : Front(i) = stack[Owner].id}))

\* The next id of a context is a hash of the context's own id and its counter.
NextId == Append(stack[Owner].id, stack[Owner].counter + 1)

\* The operation the call is about: its own, or that of an earlier call.
Id == IF Here.kind \in {"result", "cancel"} THEN Top.ids[Here.of] ELSE NextId

Op == Get(log, Id, Absent)

Decided == Decision(Here.kind, Op)

\* The stack once the call has its id.
Begun ==
  LET counted == IF TakesId(Here) THEN [stack EXCEPT ![Owner].counter = @ + 1] ELSE stack
  IN  [counted EXCEPT ![Len(stack)].ids = Append(@, IF TakesId(Here) THEN NextId ELSE <<>>)]

\* The id of the call whose user code is running.
Running == Last(Top.ids)

-----------------------------------------------------------------------------
(* Steps common to all operations.                                         *)

\* The executed call of this stack returns.
Return(frames, outcome) ==
  LET path == PathIn(frames)
  IN  /\ stack' = [frames EXCEPT ![Len(frames)].results = Append(@, outcome)]
      /\ observed' = IF outcome.error = "Suspend" \/ path \in DOMAIN observed THEN observed
                     ELSE Put(observed, path, outcome)
      /\ pc' = "call"

\* track_replay compares what has been replayed with all there is, the EXECUTION
\* operation included, and whatever the operation was: new, or below another one.
TrackReplay(id) ==
  LET total == Cardinality(DOMAIN log') + IF ExecutionListed THEN 1 ELSE 0
  IN  /\ replayed' = replayed \cup {id}
      /\ replaying' = (replaying /\ Cardinality(replayed') < total)

\* An operation returns to the handler, and is tracked when it has not failed.
Finish(frames, id, outcome) ==
  /\ Return(frames, outcome)
  /\ IF outcome.ok THEN TrackReplay(id) ELSE UNCHANGED replay

Update(type, action, value, attempt) ==
  [type |-> type, action |-> action, value |-> value, attempt |-> attempt]

\* A checkpoint: the service applies the update, and so does the local cache.
Record(id, update) == log' = Put(log, id, Apply(Get(log, id, Absent), update))

\* What the user code's outcome is recorded as.
Outcome(type, outcome) ==
  IF outcome.ok THEN Update(type, "SUCCEED", outcome.value, 0)
                ELSE Update(type, "FAIL", Nothing, 0)

BeginUserCode ==
  /\ pc' = "run"
  /\ runs' = Put(runs, Path, Get(runs, Path, 0) + 1)

-----------------------------------------------------------------------------
(* Invocations.                                                            *)

Invoke ==
  /\ invocation = "due"
  /\ invocation' = "running"
  /\ stack' = <<Context(<<>>, handler)>>
  /\ replaying' = (log # <<>> \/ ExecutionListed)
  /\ UNCHANGED <<handler, log, pc, replayed, output, crashes, observed, runs>>

\* The process of the invocation is gone.
Forget ==
  /\ stack' = <<>>
  /\ pc' = "call"
  /\ replayed' = {}
  /\ replaying' = FALSE

\* The process is lost, and the service invokes the function again unless the execution
\* has been completed.
Crash ==
  /\ invocation = "running"
  /\ crashes < MaxCrashes
  /\ crashes' = crashes + 1
  /\ invocation' = IF output = "none" THEN "due" ELSE "over"
  /\ Forget
  /\ UNCHANGED <<handler, log, output, observed, runs>>

IsPending(op) ==
  \/ op.type = "STEP" /\ op.status = "PENDING"
  \/ op.type \in {"WAIT", "CALLBACK", "INVOKE"} /\ op.status = "STARTED"

Pending == {id \in DOMAIN log : IsPending(log[id])}

\* The handler returns.  A Suspend becomes PENDING, which the service rejects when the
\* execution waits for nothing.
EndHandler ==
  LET result == BodyResult(Top)
      ending == IF output # "none" THEN output
                ELSE IF result.error = "Suspend"
                THEN IF Pending # {} THEN "none" ELSE "rejected"
                ELSE IF result.ok THEN "succeeded" ELSE "failed"
  IN  /\ invocation = "running" /\ Len(stack) = 1 /\ BodyOver(Top)
      /\ output' = ending
      /\ invocation' = IF ending = "none" THEN "suspended" ELSE "over"
      /\ Forget
      /\ UNCHANGED <<handler, log, crashes, observed, runs>>

\* checkpoint_large_result: a result above the size limit is recorded as that of the
\* execution, and only then is a reference to it returned.
RecordLargeResult ==
  /\ invocation = "running" /\ Len(stack) = 1 /\ BodyOver(Top)
  /\ BodyResult(Top).ok /\ output = "none"
  /\ output' = "succeeded"
  /\ UNCHANGED <<handler, log, invocation, stack, pc, replay, crashes, observed, runs>>

\* Timers, callbacks and invoked functions end while no invocation runs: one that runs
\* does not see it.
Completions(op) ==
  CASE op.type = "STEP" -> {[op EXCEPT !.status = "READY"]}
    [] op.type = "WAIT" -> {[op EXCEPT !.status = "SUCCEEDED"]}
    [] OTHER -> {[op EXCEPT !.status = "SUCCEEDED", !.value = v] : v \in {A, B}}
                \cup {[op EXCEPT !.status = "FAILED"]}

Complete(id) ==
  /\ invocation \in {"suspended", "due"}
  /\ id \in Pending
  /\ \E op \in Completions(log[id]) : log' = Put(log, id, op)
  /\ invocation' = "due"
  /\ UNCHANGED <<handler, stack, pc, replay, output, crashes, observed, runs>>

-----------------------------------------------------------------------------
(* Operations.                                                             *)

At(point) == invocation = "running" /\ pc = point /\ ~BodyOver(Top)

Calling(kinds) == At("call") /\ Here.kind \in kinds

Durable == {"atLeastOnce", "atMostOnce", "condition", "wait", "invoke", "callback", "result"}

\* An operation that is over, or of another type than the call, returns at once.
Replay ==
  /\ Calling(Durable)
  /\ Decided \in {"replay", "error"}
  /\ LET outcome == IF Decided = "replay" THEN Replayed(Here.kind, Op)
                    ELSE Failed("NonDeterministic")
     IN  Return(Begun, outcome)
  /\ UNCHANGED log
  /\ IF Decided = "replay" THEN TrackReplay(Id) ELSE UNCHANGED replay
  /\ UNCHANGED <<handler, invocation, output, crashes, runs>>

\* A step or a condition begins; the START of some is recorded.
Begin ==
  /\ Calling({"atLeastOnce", "atMostOnce", "condition"})
  /\ Decided \in {"start", "run"}
  /\ IF Decided = "start" THEN Record(Id, Update("STEP", "START", Nothing, 0))
                          ELSE UNCHANGED log
  /\ stack' = Begun
  /\ BeginUserCode
  /\ UNCHANGED <<handler, invocation, replay, output, crashes, observed>>

\* A wait or an invoked function is started and left to the service.
Suspend ==
  /\ Calling(Durable)
  /\ \/ Decided = "suspend" /\ UNCHANGED log
     \/ Decided = "start" /\ Here.kind \in {"wait", "invoke"}
        /\ Record(Id, Update(Type(Here.kind), "START", Nothing, 0))
  /\ Return(Begun, Failed("Suspend"))
  /\ UNCHANGED <<handler, invocation, replay, output, crashes, runs>>

CreateCallback ==
  /\ Calling({"callback"})
  /\ Decided = "start"
  /\ Record(Id, Update("CALLBACK", "START", Nothing, 0))
  /\ Finish(Begun, Id, Success(Nothing))
  /\ UNCHANGED <<handler, invocation, output, crashes, runs>>

StepEnds ==
  /\ At("run") /\ Here.kind \in {"atLeastOnce", "atMostOnce"}
  /\ \E end \in Here.ends : /\ Record(Running, Outcome("STEP", end))
                            /\ Finish(stack, Running, end)
  /\ UNCHANGED <<handler, invocation, output, crashes, runs>>

ConditionMet ==
  /\ At("run") /\ Here.kind = "condition" /\ Success(A) \in Here.ends
  /\ Record(Running, Outcome("STEP", Success(A)))
  /\ Finish(stack, Running, Success(A))
  /\ UNCHANGED <<handler, invocation, output, crashes, runs>>

ConditionNotMet ==
  /\ At("run") /\ Here.kind = "condition" /\ NotMet \in Here.ends
  /\ LET attempt == CurrentAttempt(Get(log, Running, Absent))
     IN  IF attempt >= Here.attempts
         THEN /\ Record(Running, Update("STEP", "FAIL", Nothing, 0))
              /\ Return(stack, Failed("Execution"))
         ELSE /\ Record(Running, Update("STEP", "RETRY", Nothing, attempt + 1))
              /\ Return(stack, Failed("Suspend"))
  /\ UNCHANGED <<handler, invocation, replay, output, crashes, runs>>

\* Code of the handler that no operation guards, as the submitter of wait_for_callback.
Submit ==
  /\ Calling({"submit"})
  /\ stack' = Begun
  /\ BeginUserCode
  /\ UNCHANGED <<handler, log, invocation, replay, output, crashes, observed>>

Submitted ==
  /\ At("run") /\ Here.kind = "submit"
  /\ \E end \in Here.ends : Return(stack, end)
  /\ UNCHANGED <<handler, log, invocation, replay, output, crashes, runs>>

\* next_operation_id takes an id for something that is not an operation.
TakeId ==
  /\ Calling({"nextId"})
  /\ Return(Begun, Success(Id))
  /\ UNCHANGED <<handler, log, invocation, replay, output, crashes, runs>>

\* wait_cancel_handler has nothing to do for a wait that is not there or is over.
CancelWait ==
  /\ Calling({"cancel"})
  /\ LET active == Op.type = "WAIT" /\ Op.status \notin Terminal
     IN  \/ ~active /\ UNCHANGED log
            /\ Return(Begun, IF Op.type \in {"NONE", "WAIT"} THEN Success(Nothing)
                             ELSE Failed("Validation"))
         \/ active /\ Record(Id, Update("WAIT", "CANCEL", Nothing, 0))
            /\ Return(Begun, Success(Nothing))
  /\ UNCHANGED <<handler, invocation, replay, output, crashes, runs>>

\* The timer has fired meanwhile, and the service refuses the checkpoint.
CancelTooLate ==
  /\ Calling({"cancel"})
  /\ Op.type = "WAIT" /\ Op.status \notin Terminal
  /\ log' = Put(log, Id, [Op EXCEPT !.status = "SUCCEEDED"])
  /\ Return(Begun, Failed("Checkpoint"))
  /\ UNCHANGED <<handler, invocation, replay, output, crashes, runs>>

\* complete_execution_if_large: the result is recorded as the execution's own.
CompleteExecution ==
  /\ Calling({"complete"})
  /\ output' = IF Here.big /\ ExecutionListed THEN "succeeded" ELSE output
  /\ Return(Begun, IF Here.big /\ ~ExecutionListed THEN Failed("Validation")
                   ELSE Success(Nothing))
  /\ UNCHANGED <<handler, log, invocation, replay, crashes, runs>>

-----------------------------------------------------------------------------
(* Child contexts.                                                         *)

\* Mutant: the closure runs again whenever the context has succeeded.
ReconstructsAlways == Op.status = "SUCCEEDED"

\* Whether the children of a context that has succeeded are replayed for its result.
Reconstructs == Op.status = "SUCCEEDED" /\ Here.replayChildren

ReplayChild ==
  /\ Calling({"child"})
  /\ Decided \in {"replay", "error"} /\ ~(Decided = "replay" /\ Reconstructs)
  /\ LET outcome == IF Decided = "error" THEN Failed("NonDeterministic")
                    ELSE IF Op.value = Summary THEN Failed("SerDes")
                    ELSE Replayed("child", Op)
     IN  /\ Return(Begun, outcome)
         /\ UNCHANGED log
         /\ IF Decided = "error" \/ outcome.error = "SerDes" THEN UNCHANGED replay
            ELSE TrackReplay(Id)
  /\ UNCHANGED <<handler, invocation, output, crashes, runs>>

\* Mutant: the counter of a context that is replayed for its result goes on.
EnterChildCounting ==
  /\ Calling({"child"})
  /\ \/ Decided \in {"start", "run"}
     \/ Decided = "replay" /\ Reconstructs
  /\ IF Decided = "start" THEN Record(Id, Update("CONTEXT", "START", Nothing, 0))
                          ELSE UNCHANGED log
  /\ stack' = Append(Begun, [Context(Id, Here.body) EXCEPT
                               !.counter = IF Decided = "replay" THEN Len(Here.body) ELSE 0])
  /\ UNCHANGED <<handler, invocation, pc, replay, output, crashes, observed, runs>>

\* The closure is called with a context whose counter starts from zero.
EnterChild ==
  /\ Calling({"child"})
  /\ \/ Decided \in {"start", "run"}
     \/ Decided = "replay" /\ Reconstructs
  /\ IF Decided = "start" THEN Record(Id, Update("CONTEXT", "START", Nothing, 0))
                          ELSE UNCHANGED log
  /\ stack' = Append(Begun, Context(Id, Here.body))
  /\ UNCHANGED <<handler, invocation, pc, replay, output, crashes, observed, runs>>

\* The value that is stored for a context.
Stored(call, value) == IF call.summary /\ call.big THEN Summary ELSE value

\* Mutant: a Suspend is recorded as the failure of the context.
EndChildSuspended ==
  LET call   == Last(Front(stack)).body[Len(Last(Front(stack)).ids)]
      result == BodyResult(Top)
      mapped == IF ~result.ok /\ call.mapper THEN Failed("Execution") ELSE result
  IN  /\ invocation = "running" /\ Len(stack) > 1 /\ BodyOver(Top)
      /\ IF log[Top.id].status \in Terminal
         THEN UNCHANGED log /\ Return(Front(stack), result) /\ TrackReplay(Top.id)
         ELSE /\ Record(Top.id, Outcome("CONTEXT", IF mapped.ok
                                  THEN Success(Stored(call, mapped.value)) ELSE mapped))
              /\ Finish(Front(stack), Top.id, mapped)
      /\ UNCHANGED <<handler, invocation, output, crashes, runs>>

\* The closure returns.  A context that has been replayed for its result has ended
\* before, and one that suspends has not ended.
EndChild ==
  LET call   == Last(Front(stack)).body[Len(Last(Front(stack)).ids)]
      result == BodyResult(Top)
      mapped == IF ~result.ok /\ call.mapper THEN Failed("Execution") ELSE result
  IN  /\ invocation = "running" /\ Len(stack) > 1 /\ BodyOver(Top)
      /\ IF log[Top.id].status \in Terminal \/ result.error = "Suspend"
         THEN /\ UNCHANGED log
              /\ Return(Front(stack), result)
              /\ IF log[Top.id].status \in Terminal THEN TrackReplay(Top.id) ELSE UNCHANGED replay
         ELSE /\ Record(Top.id, Outcome("CONTEXT", IF mapped.ok
                                  THEN Success(Stored(call, mapped.value)) ELSE mapped))
              /\ Finish(Front(stack), Top.id, mapped)
      /\ UNCHANGED <<handler, invocation, output, crashes, runs>>

-----------------------------------------------------------------------------

HandlerStep == \/ Replay \/ Begin \/ Suspend \/ CreateCallback
               \/ StepEnds \/ ConditionMet \/ ConditionNotMet
               \/ Submit \/ Submitted \/ TakeId
               \/ CancelWait \/ CancelTooLate \/ CompleteExecution
               \/ ReplayChild \/ EnterChild \/ EndChild
               \/ RecordLargeResult \/ EndHandler

Next == \/ Invoke
        \/ HandlerStep
        \/ Crash
        \/ \E id \in Pending : Complete(id)

Spec == Init /\ [][Next]_vars

\* The handler is polled, the service invokes what is due, and it ends what it was
\* asked to end.
FairSpec == /\ Spec
            /\ WF_vars(Invoke)
            /\ WF_vars(HandlerStep)
            /\ WF_vars(\E id \in Pending : Complete(id))

-----------------------------------------------------------------------------

\* Every operation returns in every invocation what it has returned first, but for the
\* variant of an error; so a deterministic handler takes the same course each time.  Code
\* that no operation guards, and a cancellation, are not recorded and may end otherwise; and
\* a summary that was stored in place of a result is no result when it is replayed.
ReplayAgrees ==
  \A i \in DOMAIN stack : \A n \in DOMAIN stack[i].results :
    LET path   == Append(SubSeq(PathIn(stack), 1, i - 1), n)
        result == stack[i].results[n]
    IN  /\ stack[i].body[n].kind \notin {"submit", "cancel"}
        /\ result.error \notin {"Suspend", "SerDes"}
        => result.ok = observed[path].ok /\ result.value = observed[path].value

\* A context that has ended, and an execution that has succeeded, leave nothing behind
\* that is still to end, but for a callback: wait_for_callback abandons its own when the
\* submitter fails.
EndsAfterItsParts ==
  \A id \in DOMAIN log :
    log[id].type # "CALLBACK" /\ log[id].status \notin Terminal =>
      /\ output \notin {"succeeded", "rejected"}
      /\ \A n \in 1..(Len(id) - 1) : log[SubSeq(id, 1, n)].status \notin Terminal

\* User code runs once per attempt, and again for a crash alone: never because its
\* handler was suspended and replayed.  Nor does it run after the crash when its end has been
\* recorded; but what a submitter ends with is not, and one that has returned runs again when
\* the crash comes before the end of its context (SubmitterIsNotRerun).
RerunsAreCaused ==
  invocation = "running" /\ pc = "run" =>
    /\ runs[Path] <= Here.attempts + crashes
    /\ Here.kind # "submit" => Path \notin DOMAIN observed

\* Once a context has ended, nothing is recorded below it any more.
ContextIsSealed ==
  [][\A id \in DOMAIN log' \ DOMAIN log : \A n \in 1..(Len(id) - 1) :
       SubSeq(id, 1, n) \in DOMAIN log => log[SubSeq(id, 1, n)].status \notin Terminal]_vars

ExecutionEnds == <>(output # "none")

\* The documentation of wait_for_callback says that its submitter is not executed again in a
\* replay (context.rs:1982): one that has returned does not run any more.  Violated: nothing
\* is recorded between the submitter and the end of its context.
SubmitterIsNotRerun ==
  invocation = "running" /\ pc = "run" /\ Here.kind = "submit" => Path \notin DOMAIN observed

\* What the theorems suppose of every body: no call is made on the parent's context, and no
\* context is replayed for its result.
OwnContext(body) == \A n \in DOMAIN body : ~body[n].outer /\ ~body[n].replayChildren

\* And some of them, that no call follows a submitter, as in wait_for_callback.
SubmitsLast(body) == \A n \in DOMAIN body : body[n].kind = "submit" => n = Len(body)

\* The errors of operations and of user code.
Errors == AnyError \ {"Suspend", "SerDes"}

\* And one of them, that a body takes the same course with whatever error an operation fails, as
\* a replay may return another one; that it does not handle a suspension; that every result
\* which is recorded can be replayed, and nothing is cancelled; and that what is recorded as
\* the result of the execution is the last thing the handler does.
Steady(body) ==
  \A n \in DOMAIN body :
    LET call == body[n]
    IN  /\ \A e, f \in Errors : GoesOn(call, Failed(e)) <=> GoesOn(call, Failed(f))
        /\ "Suspend" \notin call.caught /\ Failed("Suspend") \notin call.leaves \cup call.fails
        /\ ~(call.summary /\ call.big) /\ call.kind # "cancel"
        /\ call.kind \in {"atLeastOnce", "atMostOnce", "submit"} =>
             \A end \in call.ends : end.ok \/ end.error \in Errors
        /\ call.kind = "complete" /\ call.big => n = Len(body)
        /\ call.kind = "child" =>
             \A m \in DOMAIN call.body : ~(call.body[m].kind = "complete" /\ call.body[m].big)

=============================================================================
