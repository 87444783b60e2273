--------------------------- MODULE DurableReplay ---------------------------
(***************************************************************************)
(* One durable execution over all its invocations.  A handler calls        *)
(* durable operations one after the other; an invocation may crash, reach  *)
(* its deadline or suspend between any two steps, and the next one runs    *)
(* the handler again from the beginning over the operations that the       *)
(* service has recorded.                                                   *)
(*                                                                         *)
(* A checkpoint is here one synchronous call (CheckpointBatcher is about   *)
(* how it gets to the service); an invocation that is over can record      *)
(* nothing more, since the next one is given a new token.  An error is     *)
(* told by its variant of DurableError alone.                              *)
(***************************************************************************)
EXTENDS SequencesExt, ReplayChecks

CONSTANTS OpId,               \* the ids the handler's operations get
          Value,              \* what user code and external systems can produce
          Code(_),            \* the handler: its next call after these results
          MaxCalls,           \* bounds the calls of the handler
          FirstPage,          \* the operations that InitialExecutionState brings
          MaxAttempts,        \* max_attempts of the wait strategy
          MaxInterruptions    \* bounds the crashes and deadlines

Kind == {"atMostOnce", "atLeastOnce", "condition", "wait", "callback", "result", "invoke"}

\* What an operation returns to the handler: Ok, or a variant of DurableError.
Error == {"UserCode", "Execution", "Callback", "Invocation"}

Outcome == {Success(v) : v \in Value \cup {NoValue}} \cup {Failed(e) : e \in Error}

\* The results without the variants of their errors.
Plain(r) == [i \in DOMAIN r |-> [r[i] EXCEPT !.error = "any"]]

Call == [kind : Kind \cup {"return"}, id : OpId]

\* A handler is deterministic, treats all errors alike and ends.
ASSUME HandlerAssumption ==
  \A n \in 0..MaxCalls : \A r \in [1..n -> Outcome] :
    /\ Code(r) \in Call
    /\ Code(r) = Code(Plain(r))
    /\ n = MaxCalls => Code(r).kind = "return"

\* OperationIdGenerator gives every call an id of its own, and a result is asked of a
\* callback that was created before.
ASSUME IdAssumption ==
  \A n \in 0..MaxCalls : \A r \in [1..n -> Outcome] :
    LET earlier == {Code(SubSeq(r, 1, k - 1)) : k \in 1..n}
    IN  /\ Code(r).kind \notin {"return", "result"} => \A c \in earlier : c.id # Code(r).id
        /\ Code(r).kind = "result" => [kind |-> "callback", id |-> Code(r).id] \in earlier

ASSUME ReplayAssumption ==
  /\ OpId # {}
  /\ FirstPage \subseteq OpId
  /\ MaxCalls \in Nat
  /\ MaxAttempts \in Nat \ {0}
  /\ MaxInterruptions \in Nat
  /\ NoValue \notin Value

VARIABLES
  ops,            \* the service's operations
  invocation,     \* due, running, suspended or over
  cache,          \* ExecutionState::operations of the running invocation
  results,        \* what the operations have returned to the handler in it
  pc,             \* what the handler does: call, run, checkpoint, recorded
  update,         \* the update of the checkpoint under way
  output,         \* the execution's output
  interruptions,  \* crashes and deadlines so far
  observed,       \* history: the longest results of any invocation
  runs            \* history: how often the user code of an operation has begun

handler == <<cache, results, pc, update>>
history == <<observed, runs>>
vars    == <<ops, invocation, handler, output, interruptions, history>>

-----------------------------------------------------------------------------
(* Operations and updates.                                                 *)

Operation == [type : {"NONE", "STEP", "WAIT", "CALLBACK", "INVOKE"},
              status : {"NONE", "STARTED", "PENDING", "READY"} \cup Terminal,
              value : Value \cup {NoValue},
              attempt : 0..MaxAttempts]

Update == [id : OpId, type : {"STEP", "WAIT", "CALLBACK", "INVOKE"},
           action : {"START", "SUCCEED", "FAIL", "RETRY"},
           value : Value \cup {NoValue}, attempt : 0..MaxAttempts]

NoUpdate == [id |-> CHOOSE id \in OpId : TRUE, type |-> "STEP", action |-> "START",
             value |-> NoValue, attempt |-> 0]

\* The outcomes that a kind of operation can have.
Outcomes(kind) ==
  IF kind \in {"wait", "callback"} THEN {Success(NoValue)}
  ELSE {Success(v) : v \in Value}
       \cup CASE kind = "result"    -> {Failed("Callback")}
              [] kind = "invoke"    -> {Failed("Invocation")}
              [] kind = "condition" -> {Failed("Execution"), Failed("UserCode")}
              [] OTHER              -> {Failed("UserCode")}

-----------------------------------------------------------------------------
(* Invocations.                                                            *)

Idle == [id \in OpId |-> Absent]

Init ==
  /\ ops = Idle
  /\ invocation = "due"
  /\ cache = Idle
  /\ results = <<>>
  /\ pc = "call"
  /\ update = NoUpdate
  /\ output = "none"
  /\ interruptions = 0
  /\ observed = <<>>
  /\ runs = [id \in OpId |-> 0]

\* run_durable_handler builds the cache from the first page alone and never asks
\* for the pages behind NextMarker.
Invoke ==
  /\ invocation = "due"
  /\ invocation' = "running"
  /\ cache' = [id \in OpId |-> IF id \in FirstPage THEN ops[id] ELSE Absent]
  /\ UNCHANGED <<ops, results, pc, update, output, interruptions, history>>

\* The process of the invocation is gone.
Forget ==
  /\ cache' = Idle
  /\ results' = <<>>
  /\ pc' = "call"
  /\ update' = NoUpdate

\* The operations for which an invocation may end as PENDING.
IsPending(op) ==
  \/ op.type = "STEP" /\ op.status = "PENDING"
  \/ op.type \in {"WAIT", "CALLBACK", "INVOKE"} /\ op.status = "STARTED"

\* What the service, and not the handler, has done since the handler has seen an
\* operation.
IsNews(op, seen) ==
  /\ op.status # seen.status
  /\ op.status \in IF op.type = "STEP" THEN {"READY"} ELSE Terminal

\* The invocation ends as PENDING, having seen these operations: the service starts
\* the next one when there is news, and fails an execution that waits for nothing.
EndPending(seen) ==
  LET news    == \E id \in OpId : IsNews(ops'[id], seen[id])
      pending == \E id \in OpId : IsPending(ops'[id])
  IN  /\ Forget
      /\ invocation' = IF news THEN "due" ELSE IF pending THEN "suspended" ELSE "over"
      /\ output' = IF news \/ pending THEN output ELSE "rejected"

EndWith(result) ==
  /\ Forget
  /\ output' = result
  /\ invocation' = "over"

\* What the service's operations are after the update.
Recording == [ops EXCEPT ![update.id] = Apply(ops[update.id], update)]

\* An update that was under way may still be recorded.
Interrupt ==
  /\ invocation = "running"
  /\ interruptions < MaxInterruptions
  /\ interruptions' = interruptions + 1
  /\ ops' \in {ops} \cup IF pc = "checkpoint" THEN {Recording} ELSE {}
  /\ UNCHANGED history

\* The process crashes, and the service invokes the function again.
Crash ==
  /\ Interrupt
  /\ Forget
  /\ invocation' = "due"
  /\ UNCHANGED output

\* The termination manager wins the select of run_durable_handler, which answers
\* PENDING wherever the handler is.
Deadline == Interrupt /\ EndPending(cache)

-----------------------------------------------------------------------------
(* The handler and its operations.                                         *)

Current == Code(results)

Decided == Decision(Current.kind, cache[Current.id])

At(point) == invocation = "running" /\ pc = point

\* An operation returns to the handler.
Return(outcome) ==
  /\ results' = Append(results, outcome)
  /\ observed' = IF Len(results) = Len(observed) THEN Append(observed, outcome)
                ELSE observed
  /\ pc' = "call"
  /\ update' = NoUpdate

Send(action, value, attempt) ==
  /\ update' = [id |-> Current.id, type |-> Type(Current.kind), action |-> action,
                value |-> value, attempt |-> attempt]
  /\ pc' = "checkpoint"
  /\ UNCHANGED <<ops, invocation, cache, results, output, interruptions, history>>

BeginUserCode ==
  /\ runs' = [runs EXCEPT ![Current.id] = @ + 1]
  /\ pc' = "run"
  /\ update' = NoUpdate

Replay ==
  /\ At("call")
  /\ Decided = "replay"
  /\ Return(Replayed(Current.kind, cache[Current.id]))
  /\ UNCHANGED <<ops, invocation, cache, output, interruptions, runs>>

CheckpointStart ==
  /\ At("call")
  /\ Decided = "start"
  /\ Send("START", NoValue, 0)

Run ==
  /\ At("call")
  /\ Decided = "run"
  /\ BeginUserCode
  /\ UNCHANGED <<ops, invocation, cache, results, output, interruptions, observed>>

Suspend ==
  /\ At("call")
  /\ Decided = "suspend"
  /\ UNCHANGED <<ops, interruptions, history>>
  /\ EndPending(cache)

\* The user code of a step ends; the step is not retried.
StepEnds ==
  /\ At("run")
  /\ Current.kind \in {"atMostOnce", "atLeastOnce"}
  /\ \/ \E v \in Value : Send("SUCCEED", v, 0)
     \/ Send("FAIL", NoValue, 0)

ConditionMet ==
  /\ At("run")
  /\ Current.kind = "condition"
  /\ \E v \in Value : Send("SUCCEED", v, 0)

\* Mutant: one attempt too many.
ConditionNotMetOnceMore ==
  /\ At("run")
  /\ Current.kind = "condition"
  /\ LET attempt == CurrentAttempt(cache[Current.id])
     IN  IF attempt > MaxAttempts
         THEN Send("FAIL", NoValue, 0)
         ELSE Send("RETRY", NoValue, attempt + 1)

\* The wait strategy decides by the number of attempts.
ConditionNotMet ==
  /\ At("run")
  /\ Current.kind = "condition"
  /\ LET attempt == CurrentAttempt(cache[Current.id])
     IN  IF attempt >= MaxAttempts
         THEN Send("FAIL", NoValue, 0)
         ELSE Send("RETRY", NoValue, attempt + 1)

\* Mutant: the answer brings the operations that were known before, and no other.
RefreshedKnown ==
  IF Current.kind = "callback"
  THEN [id \in OpId |-> IF cache[id].status # "NONE" THEN Recording[id] ELSE cache[id]]
  ELSE [cache EXCEPT ![update.id] = Apply(cache[update.id], update)]

\* The answer to create_callback brings the new state of the operations that the
\* SDK knows; after any other checkpoint the cache takes over the update alone.
Refreshed ==
  IF Current.kind = "callback"
  THEN [id \in OpId |-> IF id = update.id \/ cache[id].status # "NONE"
                        THEN Recording[id] ELSE cache[id]]
  ELSE [cache EXCEPT ![update.id] = Apply(cache[update.id], update)]

\* The service records the update and answers.  The cache already holds what the
\* answer will make of it: nothing reads the cache until the answer is there.
Record ==
  /\ At("checkpoint")
  /\ ops' = Recording
  /\ cache' = Refreshed
  /\ pc' = "recorded"
  /\ UNCHANGED <<invocation, results, update, output, interruptions, history>>

Acknowledged == At("recorded") /\ UNCHANGED <<ops, interruptions>>

\* The START of a step or of a condition is recorded.
StartedToRun ==
  /\ Acknowledged
  /\ update.action = "START" /\ update.type = "STEP"
  /\ BeginUserCode
  /\ UNCHANGED <<invocation, cache, results, output, observed>>

\* A wait, an invoked function and the next attempt of a condition are left to the
\* service.
StartedToSuspend ==
  /\ Acknowledged
  /\ update.action = "RETRY" \/ update.type \in {"WAIT", "INVOKE"}
  /\ EndPending(cache)
  /\ UNCHANGED history

Completed ==
  /\ Acknowledged
  /\ update.action \in {"SUCCEED", "FAIL"} \/ update.type = "CALLBACK"
  /\ Return(Returned(Current.kind, update))
  /\ UNCHANGED <<invocation, cache, output, runs>>

\* An error of a checkpoint, whether it was recorded or not, and an error of the
\* replay check pass through the handler to process_result.
Fail ==
  /\ invocation = "running"
  /\ IF pc = "call" THEN Decided = "error" ELSE pc \in {"checkpoint", "recorded"}
  /\ EndWith("failed")
  /\ UNCHANGED <<ops, interruptions, history>>

Succeed ==
  /\ At("call")
  /\ Decided = "return"
  /\ EndWith("succeeded")
  /\ UNCHANGED <<ops, interruptions, history>>

-----------------------------------------------------------------------------
(* The service, and what it waits for on behalf of the execution.          *)

\* The party outside ends the operation, with a result or without, or in error.
Endings(op, errors) ==
  {[op EXCEPT !.status = "SUCCEEDED", !.value = v] : v \in Value \cup {NoValue}}
  \cup {[op EXCEPT !.status = e] : e \in errors}

Completions(op) ==
  CASE op.type = "STEP"     -> {[op EXCEPT !.status = "READY"]}
    [] op.type = "WAIT"     -> {[op EXCEPT !.status = "SUCCEEDED"]}
    [] op.type = "CALLBACK" -> Endings(op, {"FAILED", "TIMED_OUT"})
    [] op.type = "INVOKE"   -> Endings(op, {"FAILED", "TIMED_OUT", "STOPPED"})

Complete(id) ==
  /\ output = "none"
  /\ IsPending(ops[id])
  /\ \E op \in Completions(ops[id]) : ops' = [ops EXCEPT ![id] = op]
  /\ invocation' = IF invocation = "suspended" THEN "due" ELSE invocation
  /\ UNCHANGED <<handler, output, interruptions, history>>

-----------------------------------------------------------------------------

HandlerStep == \/ Replay \/ CheckpointStart \/ Run \/ Suspend
               \/ StepEnds \/ ConditionMet \/ ConditionNotMet \/ Record
               \/ StartedToRun \/ StartedToSuspend \/ Completed \/ Fail \/ Succeed

Next == \/ Invoke
        \/ HandlerStep
        \/ Crash
        \/ Deadline
        \/ \E id \in OpId : Complete(id)

Spec == Init /\ [][Next]_vars

\* The handler is polled, the service invokes what is due, and timers, callbacks and
\* invoked functions end.
FairSpec == /\ Spec
            /\ WF_vars(Invoke)
            /\ WF_vars(HandlerStep)
            /\ \A id \in OpId : WF_vars(Complete(id))

-----------------------------------------------------------------------------

TypeOK ==
  /\ ops \in [OpId -> Operation]
  /\ invocation \in {"due", "running", "suspended", "over"}
  /\ cache \in [OpId -> Operation]
  /\ results \in Seq(Outcome) /\ Len(results) <= MaxCalls
  /\ pc \in {"call", "run", "checkpoint", "recorded"}
  /\ update \in Update
  /\ output \in {"none", "succeeded", "failed", "rejected"}
  /\ interruptions \in 0..MaxInterruptions
  /\ observed \in Seq(Outcome) /\ Len(observed) <= MaxCalls
  /\ runs \in [OpId -> Nat]

\* Every invocation sees the same results as those before it, so that a deterministic
\* handler repeats itself (the reason for replay); only a condition that has failed
\* may fail with another error.
ReplayAgrees ==
  /\ IsPrefix(Plain(results), Plain(observed))
  /\ \A i \in DOMAIN results :
       results[i] # observed[i] => Code(SubSeq(results, 1, i - 1)).kind = "condition"

\* A handler that is deterministic is never told that it is not; and an operation is
\* replayed when check_replay would replay it, although each handler asks in its own words.
NoFalseAlarm ==
  invocation = "running" /\ pc = "call" =>
    /\ Decided # "error"
    /\ Current.kind \in {"atMostOnce", "atLeastOnce", "condition", "wait", "invoke"} =>
         (Decided = "replay") <=> (CheckReplay(Current.kind, cache[Current.id]) = "over")

\* No update is ever sent for an operation that the service has already ended; but an
\* interrupted invoke sends its START again, whatever became of the first one.
UpdatesAreLive ==
  invocation = "running" /\ pc = "checkpoint" /\ update.type # "INVOKE"
    => ops[update.id].status \notin Terminal

\* An at-most-once step runs only after its START is recorded: one that ran can be
\* told from one that never did (Property 7 of the design).
StartedBeforeRun ==
  \A id \in OpId :
    invocation = "running" /\ pc = "run" /\ Current.id = id
      /\ Current.kind \in {"atMostOnce", "condition"}
    => ops[id].status \in {"STARTED", "PENDING", "READY"}

\* User code never begins again once its operation has ended.
EndedIsNotRerun ==
  [][\A id \in OpId : runs'[id] # runs[id] => ops[id].status \notin Terminal]_vars

\* An execution ends, one way or another.
ExecutionEnds == <>(output # "none")

\* The interrupted and replayed executions are those of one uninterrupted run.
Abstract == INSTANCE DurableExecution WITH outcomes <- observed

ImplementsOneRun == Abstract!OneRun

=============================================================================
