---------------------------- MODULE HandlerCalls ----------------------------
(***************************************************************************)
(* Handlers as data.  A handler, or the closure of a child context, is a   *)
(* sequence of calls; what a call can end with is the user code's, or the  *)
(* outside world's, to choose, and the other fields of a call say what its *)
(* configuration is and what the code around it makes of its outcome.      *)
(***************************************************************************)
EXTENDS SequencesExt, Integers

\* Values are sequences, so that a context can return those of its operations.
A == <<"a">>
B == <<"b">>
Nothing == <<"nothing">>
Summary == <<"summary">>

\* A value that is not of the type of the handler's result.
Foreign == <<"foreign">>

INSTANCE ReplayChecks WITH NoValue <- Nothing

Call == [kind |-> "atLeastOnce",
         ends |-> {Success(A)},   \* how user code, or whoever is called, can end
         caught |-> {},           \* the errors after which the body goes on
         leaves |-> {},           \* the outcomes after which the body returns Ok at once
         fails |-> {},            \* the outcomes after which it returns its own error
         body |-> <<>>,           \* the closure of a child context
         of |-> 0,                \* for a result or a cancel, the call that made the operation
         attempts |-> 1,          \* max_attempts of a condition
         outer |-> FALSE,         \* whether it is made on the parent's context
         big |-> FALSE,           \* whether the value exceeds the size limit
         summary |-> FALSE,       \* ChildConfig::summary_generator
         replayChildren |-> FALSE,
         mapper |-> FALSE]        \* ChildConfig::error_mapper

Step == Call
StepAtMostOnce == [Call EXCEPT !.kind = "atMostOnce"]
Wait == [Call EXCEPT !.kind = "wait"]

\* A condition that may be met or not whenever it is checked.
NotMet == Failed("NotMet")
Condition(attempts) ==
  [Call EXCEPT !.kind = "condition", !.attempts = attempts, !.ends = {Success(A), NotMet}]

Invoked == [Call EXCEPT !.kind = "invoke", !.ends = {Success(A), Failed("Invocation")}]
Callback == [Call EXCEPT !.kind = "callback"]
Result(of) == [Call EXCEPT !.kind = "result", !.of = of]
Cancel(of) == [Call EXCEPT !.kind = "cancel", !.of = of]
NextOperationId == [Call EXCEPT !.kind = "nextId"]
CompleteIfLarge(big) == [Call EXCEPT !.kind = "complete", !.big = big]
Completing(ends) == [Call EXCEPT !.kind = "complete", !.big = TRUE, !.ends = ends]
Child(body) == [Call EXCEPT !.kind = "child", !.body = body]

Ending(call, ends) == [call EXCEPT !.ends = ends]
FailingOn(call, outcomes) == [call EXCEPT !.fails = outcomes]
Leaving(call, outcomes) == [call EXCEPT !.leaves = outcomes]
Catching(call, errors) == [call EXCEPT !.caught = errors]

AnyError == {"UserCode", "Execution", "Callback", "Invocation", "Validation", "SerDes",
             "NonDeterministic", "Checkpoint", "Suspend"}

\* wait_for_callback as the n-th call of its body: the submitter runs in a child context
\* of its own, after a step that has nothing to do; the callback is the caller's.
Submitter(ends) == [Call EXCEPT !.kind = "submit", !.ends = ends]

WaitForCallback(n, ends) == <<Callback, Child(<<Step, Submitter(ends)>>), Result(n)>>

-----------------------------------------------------------------------------
(* The progress of a body: the results its calls have had so far.          *)

\* Whether the body goes on after this outcome of the call.  One that it does not handle
\* is returned with `?`.
GoesOn(call, outcome) ==
  /\ outcome \notin call.leaves \cup call.fails
  /\ outcome.ok \/ outcome.error \in call.caught

BodyOver(frame) ==
  LET n == Len(frame.results)
  IN  n = Len(frame.body) \/ (n > 0 /\ ~GoesOn(frame.body[n], frame.results[n]))

\* What the body returns: the error it makes or passes on, or all the values it has got,
\* which are never the value of a single call.
BodyResult(frame) ==
  LET n      == Len(frame.results)
      call   == frame.body[n]
      last   == frame.results[n]
      values == [i \in 1..n |-> IF frame.results[i].ok THEN frame.results[i].value ELSE <<>>]
  IN  IF n > 0 /\ last \in call.fails THEN Failed("Execution")
      ELSE IF n > 0 /\ last \notin call.leaves /\ ~GoesOn(call, last) THEN last
      ELSE Success(<<"all">> \o values)

-----------------------------------------------------------------------------

\* Operations are kept in maps that hold the ids there are.
Put(map, key, value) ==
  [k \in DOMAIN map \cup {key} |-> IF k = key THEN value ELSE map[k]]

Get(map, key, default) == IF key \in DOMAIN map THEN map[key] ELSE default

=============================================================================
