----------------------- MODULE TestOrchestratorProofs -----------------------
(***************************************************************************)
(* Theorems about TestOrchestrator, for handlers of any length, any limits *)
(* and any number of handles.  What makes a run tell the truth about       *)
(* itself is that three copies of the operations - the server's, the       *)
(* handler's cache and what the loop has fetched - never disagree but      *)
(* about waits and callbacks that have ended since the copy was taken.     *)
(***************************************************************************)
EXTENDS TestOrchestrator, FiniteSetTheorems, SequenceTheorems, TLAPS

USE DEF vars, loop, server

-----------------------------------------------------------------------------
(* Sequences whose elements are of no type.                                *)

IsSeq(s) == \E S : s \in Seq(S)

LEMMA SeqIs ==
  ASSUME NEW s, IsSeq(s)
  PROVE  Len(s) \in Nat /\ DOMAIN s = 1..Len(s)
BY DEF IsSeq

LEMMA EmptyIs ==
  IsSeq(<<>>) /\ Len(<<>>) = 0
BY DEF IsSeq

LEMMA AppendIs ==
  ASSUME NEW s, IsSeq(s), NEW e
  PROVE  /\ IsSeq(Append(s, e))
         /\ Len(Append(s, e)) = Len(s) + 1
         /\ \A i \in 1..Len(s) : Append(s, e)[i] = s[i]
         /\ Append(s, e)[Len(s) + 1] = e
<1>1. PICK S : s \in Seq(S)
  BY DEF IsSeq
<1>2. s \in Seq(S \cup {e}) /\ e \in S \cup {e}
  BY <1>1
<1>3. Append(s, e) \in Seq(S \cup {e})
  BY <1>2
<1> QED
  BY <1>2, <1>3 DEF IsSeq

-----------------------------------------------------------------------------
(* The inductive invariant.                                                *)

\* The number of the call whose turn it is.
Turn == Len(results) + 1

IsOutcome(o) == o \in {Success(o.value), Failed(o.error)}

Suspended == Failed("Suspend")

Phases == {"start", "handler", "returned", "outcome", "process", "resolve", "poll", "reinvoke",
           "end"}

StepKinds == {"atLeastOnce", "atMostOnce"}

\* The handler has made some of its calls, and gone on after all of them but the last.
CourseInv ==
  /\ handler \in Handlers /\ phase \in Phases /\ pc \in {"call", "run"}
  /\ invocations \in Nat /\ polls \in 0..MaxPolls
  /\ phase = "start" <=> invocations = 0
  /\ phase = "start" => results = <<>>
  /\ IsSeq(results) /\ Len(results) <= Len(handler)
  /\ \A n \in 1..Len(results) :
       /\ IsOutcome(results[n])
       /\ n < Len(results) => GoesOn(handler[n], results[n])
  /\ pc = "run" => /\ phase = "handler" /\ ~BodyOver(Frame)
                   /\ handler[Turn].kind \in StepKinds \cup {"condition"}
                   /\ Turn \in DOMAIN operations =>
                        operations[Turn].status \in {"STARTED", "PENDING"}
  /\ phase \in Phases \ {"start", "handler"} => BodyOver(Frame)

IsOp(op) ==
  op = [type |-> op.type, status |-> op.status, value |-> op.value, attempt |-> op.attempt,
        scheduled |-> op.scheduled]

\* What an operation can be, by the call that makes it.
OpOfCall(id, op) ==
  LET kind == handler[id].kind
  IN  /\ id \in 1..Len(handler) /\ kind \notin {"result", "complete"}
      /\ op.type = Type(kind)
      /\ kind \in StepKinds => op.status \in {"STARTED", "SUCCEEDED", "FAILED"}
      /\ kind = "condition" => op.status \in {"STARTED", "PENDING", "SUCCEEDED", "FAILED"}
      /\ kind = "wait" => op.status \in {"STARTED", "SUCCEEDED"}
      /\ kind = "invoke" => op.status = "STARTED"
      /\ kind = "callback" => /\ op.status \in {"STARTED", "SUCCEEDED", "FAILED"}
                              /\ op.status = "SUCCEEDED" => op.value # Nothing
      /\ kind # "condition" => op.attempt = 0
      /\ kind \notin {"condition", "wait"} => op.scheduled = FALSE
      /\ kind = "condition" /\ op.status = "STARTED" => op.scheduled = FALSE

OpOK(id, op) ==
  /\ IsOp(op) /\ op.attempt \in Nat
  /\ IF id = Execution THEN /\ op.type = "EXECUTION"
                            /\ op.status \in {"STARTED", "SUCCEEDED", "FAILED"}
                            /\ op.attempt = 0 /\ op.scheduled = FALSE
                       ELSE OpOfCall(id, op)

\* A step that has started ends before its call returns.
OperationsInv ==
  /\ phase = "start" => DOMAIN operations = {}
  /\ phase # "start" => Execution \in DOMAIN operations
  /\ \A id \in DOMAIN operations :
       /\ OpOK(id, operations[id])
       /\ operations[id].type = "STEP" /\ operations[id].status = "STARTED" =>
            pc = "run" /\ id = Turn
  /\ phase \notin {"start", "end"} => (completed <=> operations[Execution].status # "STARTED")
  /\ phase = "start" => completed = FALSE
  /\ completed \in BOOLEAN
  /\ dirty \subseteq DOMAIN operations
  /\ \A id \in DOMAIN callbacks :
       /\ id \in DOMAIN operations /\ operations[id].type = "CALLBACK"
       /\ callbacks[id] = "open" => operations[id].status = "STARTED"

Fields == {"type", "status", "value", "attempt"}

\* A copy of an operation that may have ended since.
Behind(old, op) ==
  /\ old.type = op.type /\ old.attempt = op.attempt
  /\ \/ old.status = op.status
     \/ old.status = "STARTED" /\ op.type \in {"WAIT", "CALLBACK"} /\ op.status \in Terminal

CacheInv ==
  /\ DOMAIN cache \subseteq DOMAIN operations
  /\ DOMAIN operations \ {Execution} \subseteq DOMAIN cache
  /\ \A id \in DOMAIN cache :
       /\ Fields \subseteq DOMAIN cache[id]
       /\ Behind(cache[id], operations[id])
       /\ phase = "handler" /\ operations[id].type = "WAIT" =>
            cache[id].status = operations[id].status
       /\ cache[id].type = "CALLBACK" /\ cache[id].status = "SUCCEEDED" => cache[id].value # Nothing

\* A call that does not suspend in this invocation.
SettledIn(c, n) ==
  LET kind == handler[n].kind
  IN  \/ kind \in StepKinds \cup {"complete"}
      \/ kind = "callback" /\ n \in DOMAIN c
      \/ /\ kind \in {"condition", "wait"} /\ n \in DOMAIN c
         /\ c[n].status \in {"SUCCEEDED", "FAILED"}
      \/ /\ kind = "result" /\ handler[n].of \in DOMAIN c
         /\ c[handler[n].of].status \in {"SUCCEEDED", "FAILED"}

Settled(n) == SettledIn(cache, n)

\* The handler has not got past a call that may suspend and is not handled; if it has
\* suspended, then at one that is not settled.
ReachedInv ==
  /\ \A k \in DOMAIN operations : \A n \in 1..(k - 1) :
       Settled(n) \/ GoesOn(handler[n], Suspended)
  /\ \A n \in 1..Len(results) :
       \/ Settled(n)
       \/ results[n] = Suspended /\ handler[n].kind \notin StepKinds \cup {"callback", "complete"}
  /\ Len(results) > 0 /\ results[Len(results)] = Suspended =>
       GoesOn(handler[Len(results)], Suspended) \/ ~Settled(Len(results))

\* What the operations have been when the handler was last invoked, and what a condition
\* that the handler has checked since has got to.
MarkInv ==
  /\ DOMAIN mark \subseteq DOMAIN operations
  /\ \A id \in DOMAIN mark :
       /\ mark[id].attempt \in Nat /\ mark[id].attempt <= operations[id].attempt
       /\ mark[id].status \in Terminal => operations[id].status \in Terminal
  /\ \A n \in 1..Len(results) :
       n \in DOMAIN operations /\ operations[n].status = "PENDING" => IsNews(n)

\* What the loop has fetched, and why it goes on.
FetchInv ==
  /\ phase \in {"process", "resolve", "poll"} =>
       /\ DOMAIN fetched \subseteq DOMAIN operations /\ Execution \in DOMAIN fetched
       /\ \A id \in DOMAIN fetched :
            /\ OpOK(id, fetched[id]) /\ Behind(fetched[id], operations[id])
            /\ fetched[id].scheduled = operations[id].scheduled
            /\ Get(mark, id, Absent).status \in Terminal => fetched[id].status \in Terminal
            /\ fetched[id].status = "PENDING" => IsNews(id)
            /\ fetched[id].type = "STEP" => fetched[id].status # "STARTED"
  /\ phase = "resolve" => \E id \in PendingNow : fetched[id].scheduled
  /\ phase = "poll" => \E id \in pending : Get(mark, id, Absent).status \notin Terminal
  /\ phase = "reinvoke" => \E id \in DOMAIN operations : IsNews(id)
  /\ phase \in {"resolve", "poll", "reinvoke"} => ~completed
  /\ phase = "process" => fetched[Execution].status = operations[Execution].status

PollInv ==
  /\ pending \subseteq DOMAIN operations
  /\ phase # "end" => outcome = "none"
  /\ (phase = "poll" /\ polls > 0) \/ outcome = "timeout" =>
       \E id \in pending : shared[id].type = "CALLBACK" => shared[id].status = "STARTED"

\* What a call of the kinds with which a handler ends can return.
ReturnOK(call, result) ==
  /\ call.kind = "wait" => result \in {Success(Nothing), Suspended}
  /\ call.kind = "complete" /\ (call.big => result.ok) => result = Success(Nothing)

\* The status that the recorded end gives the execution.
EndStatus(end) == IF end.ok THEN "SUCCEEDED" ELSE "FAILED"

\* The handler has recorded the end of the execution itself.
HasRecorded(n) ==
  /\ handler[n].kind = "complete" /\ handler[n].big /\ results[n].ok
  /\ \E end \in handler[n].ends : operations[Execution].status = EndStatus(end)

\* What has ended the execution is what the handler has recorded itself.
RecordedInv ==
  /\ \A n \in 1..Len(results) : ReturnOK(handler[n], results[n])
  /\ completed /\ phase # "end" => \E n \in 1..Len(results) : HasRecorded(n)

Ends == Happened({"ExecutionSucceeded", "ExecutionFailed"})

Successes == {"StepSucceeded", "WaitSucceeded", "ExecutionSucceeded"}

EventOK(event) ==
  /\ event.type = "StepSucceeded" =>
       /\ event.id \in DOMAIN operations /\ operations[event.id].type = "STEP"
       /\ operations[event.id].status = "SUCCEEDED"
  /\ event.type = "WaitSucceeded" =>
       /\ event.id \in DOMAIN operations /\ operations[event.id].type = "WAIT"
       /\ operations[event.id].status = "SUCCEEDED"
  /\ event.type = "ExecutionSucceeded" => event.id = Execution

\* Nothing is told of an operation after its success.
EventsInv ==
  /\ IsSeq(history)
  /\ \A i \in DOMAIN history : EventOK(history[i])
  /\ \A i, j \in DOMAIN history :
       history[i].type \in Successes /\ i < j => history[j].id # history[i].id

\* What is told of an execution with the status of the recorded end.
ToldAs(status) == ToldOnce(IF status = "FAILED" THEN "ExecutionFailed" ELSE "ExecutionSucceeded")

\* The execution ends once, and the history counts the invocations.
HistoryInv ==
  /\ ~completed => Ends = {}
  /\ completed /\ phase # "end" => ToldAs(operations[Execution].status)
  /\ phase = "end" =>
       \/ outcome \in {"succeeded", "error"} /\ ToldOnce("ExecutionSucceeded")
       \/ outcome \in {"failed", "error"} /\ ToldOnce("ExecutionFailed")
       \/ /\ outcome = "running" /\ ToldOnce("ExecutionSucceeded")
          /\ ~Parses(fetched[Execution].value)
       \/ outcome \in {"running", "timeout", "error"} /\ Ends = {}
  /\ Cardinality(Happened({"InvocationCompleted"})) =
       IF phase = "handler" THEN invocations - 1 ELSE invocations

OrchestratorInv ==
  /\ CourseInv /\ OperationsInv /\ CacheInv /\ ReachedInv /\ MarkInv /\ FetchInv /\ PollInv
  /\ RecordedInv /\ EventsInv /\ HistoryInv

-----------------------------------------------------------------------------
(* What the handler's calls are, and what they find.                       *)

LEMMA HandlerIs ==
  ASSUME handler \in Handlers
  PROVE  IsSeq(handler) /\ Len(handler) \in Nat /\ DOMAIN handler = 1..Len(handler)
<1>1. IsSeq(handler)
  BY HandlerAssumption DEF IsHandler, IsSeq
<1> QED
  BY <1>1, SeqIs

LEMMA CallIs ==
  ASSUME handler \in Handlers, NEW n \in 1..Len(handler)
  PROVE  /\ handler[n].kind \in {"atLeastOnce", "atMostOnce", "condition", "wait", "invoke",
                                 "callback", "result", "complete"}
         /\ handler[n].kind = "result" =>
              handler[n].of \in 1..(n - 1) /\ handler[handler[n].of].kind = "callback"
         /\ handler[n].attempts \in Nat
         /\ \A end \in handler[n].ends : IsOutcome(end) /\ end.error # "Suspend"
BY HandlerIs, HandlerAssumption DEF IsHandler, IsOutcome

LEMMA FailedIs ==
  ASSUME NEW e
  PROVE  IsOutcome(Failed(e)) /\ Failed(e).ok = FALSE /\ Failed(e).error = e
BY DEF IsOutcome, Failed

LEMMA SuccessIs ==
  ASSUME NEW v
  PROVE  /\ IsOutcome(Success(v)) /\ Success(v).ok = TRUE /\ Success(v).error = "none"
         /\ Success(v).value = v /\ Success(v) # Suspended
BY DEF IsOutcome, Success, Failed, Suspended

\* An error that is not a suspension.
LEMMA NotSuspended ==
  ASSUME NEW o, o.error # "Suspend"
  PROVE  o # Suspended
BY DEF Suspended, Failed

LEMMA OverIs ==
  BodyOver(Frame) <=>
    \/ Len(results) = Len(handler)
    \/ Len(results) > 0 /\ ~GoesOn(handler[Len(results)], results[Len(results)])
BY DEF BodyOver, Frame

\* The handler has a call to make.
LEMMA TurnIs ==
  ASSUME CourseInv, ~BodyOver(Frame)
  PROVE  /\ Len(results) \in Nat /\ Turn \in 1..Len(handler) /\ Turn = Len(results) + 1
         /\ Here = handler[Turn]
         /\ \A n \in 1..Len(results) : GoesOn(handler[n], results[n])
<1>1. Len(results) \in Nat /\ Len(handler) \in Nat /\ Len(results) <= Len(handler)
  BY SeqIs, HandlerIs DEF CourseInv
<1>2. /\ Len(results) # Len(handler)
      /\ Len(results) > 0 => GoesOn(handler[Len(results)], results[Len(results)])
  BY OverIs
<1>3. \A n \in 1..Len(results) : GoesOn(handler[n], results[n])
  BY <1>1, <1>2 DEF CourseInv
<1> QED
  BY <1>1, <1>2, <1>3 DEF Turn, Here

\* The operation of the call whose turn it is, in the cache.
LEMMA OpIs ==
  ASSUME CourseInv, OperationsInv, CacheInv, phase = "handler", ~BodyOver(Frame),
         handler[Turn].kind \notin {"result", "complete"}
  PROVE  /\ Id = Turn /\ Turn # Execution
         /\ Turn \in DOMAIN cache <=> Turn \in DOMAIN operations
         /\ Turn \notin DOMAIN operations => Op = Absent
         /\ Turn \in DOMAIN operations =>
              /\ OpOfCall(Turn, operations[Turn])
              /\ Op = cache[Turn] /\ Op.type = Type(handler[Turn].kind)
              /\ Op.attempt = operations[Turn].attempt
              /\ Fields \subseteq DOMAIN Op
              /\ handler[Turn].kind # "callback" => Op.status = operations[Turn].status
              /\ handler[Turn].kind = "callback" => Op.status \in {"STARTED", "SUCCEEDED", "FAILED"}
<1>1. /\ Turn \in 1..Len(handler) /\ Here = handler[Turn] /\ Len(handler) \in Nat
      /\ Turn = Len(results) + 1
  BY TurnIs, HandlerIs DEF CourseInv
<1>2. Id = Turn /\ Turn # Execution
  BY <1>1 DEF Id, Execution
<1>3. Turn \in DOMAIN cache <=> Turn \in DOMAIN operations
  BY <1>2 DEF CacheInv
<1>4. CASE Turn \notin DOMAIN operations
  BY <1>2, <1>3, <1>4 DEF Op, Get
<1>5. CASE Turn \in DOMAIN operations
  <2>1. OpOfCall(Turn, operations[Turn])
    BY <1>2, <1>5 DEF OperationsInv, OpOK
  <2>2. /\ Op = cache[Turn] /\ Behind(cache[Turn], operations[Turn])
        /\ Fields \subseteq DOMAIN cache[Turn]
        /\ operations[Turn].type = "WAIT" => cache[Turn].status = operations[Turn].status
    BY <1>2, <1>3, <1>5 DEF Op, Get, CacheInv
  <2>3. handler[Turn].kind \in {"atLeastOnce", "atMostOnce", "condition", "wait", "invoke",
                                "callback"}
    BY <1>1, CallIs DEF CourseInv
  <2>4. /\ operations[Turn].type = Type(handler[Turn].kind)
        /\ handler[Turn].kind # "callback" => operations[Turn].type # "CALLBACK"
        /\ operations[Turn].type = "WAIT" => handler[Turn].kind = "wait"
    BY <2>1, <2>3 DEF OpOfCall, Type
  <2>5. Op.type = Type(handler[Turn].kind) /\ Op.attempt = operations[Turn].attempt
    BY <2>2, <2>4 DEF Behind
  <2>6. handler[Turn].kind # "callback" => Op.status = operations[Turn].status
    BY <2>2, <2>4 DEF Behind
  <2>7. handler[Turn].kind = "callback" => Op.status \in {"STARTED", "SUCCEEDED", "FAILED"}
    BY <2>1, <2>2 DEF Behind, OpOfCall
  <2> QED
    BY <1>2, <1>3, <1>5, <2>1, <2>2, <2>5, <2>6, <2>7
<1> QED
  BY <1>2, <1>3, <1>4, <1>5

\* The callback whose result is asked for has been created.
LEMMA AskedIs ==
  ASSUME CourseInv, OperationsInv, CacheInv, ReachedInv, phase = "handler", ~BodyOver(Frame),
         handler[Turn].kind = "result"
  PROVE  /\ Id = handler[Turn].of /\ Id \in DOMAIN cache /\ Op = cache[Id]
         /\ Op.type = "CALLBACK" /\ Op.status \in {"STARTED", "SUCCEEDED", "FAILED"}
         /\ Op.status = "SUCCEEDED" => Op.value # Nothing
<1>1. /\ Turn \in 1..Len(handler) /\ Here = handler[Turn] /\ Len(handler) \in Nat
      /\ Turn = Len(results) + 1 /\ Len(results) \in Nat
  BY TurnIs, HandlerIs DEF CourseInv
<1>2. /\ Id = handler[Turn].of /\ Id \in 1..Len(results) /\ handler[Id].kind = "callback"
  BY <1>1, CallIs DEF CourseInv, Id
<1>3. Id \in DOMAIN cache
  BY <1>2 DEF ReachedInv, Settled, SettledIn, StepKinds
<1>4. Op = cache[Id] /\ Id \in DOMAIN operations /\ Id # Execution
  BY <1>2, <1>3 DEF Op, Get, CacheInv, Execution
<1>5. OpOfCall(Id, operations[Id]) /\ Behind(cache[Id], operations[Id])
  BY <1>3, <1>4 DEF CacheInv, OperationsInv, OpOK
<1>6. /\ operations[Id].type = "CALLBACK"
      /\ operations[Id].status \in {"STARTED", "SUCCEEDED", "FAILED"}
  BY <1>2, <1>5 DEF OpOfCall, Type
<1>7. Op.type = "CALLBACK" /\ Op.status \in {"STARTED", "SUCCEEDED", "FAILED"}
  BY <1>4, <1>5, <1>6 DEF Behind
<1> QED
  BY <1>2, <1>3, <1>4, <1>7 DEF CacheInv

-----------------------------------------------------------------------------
(* What a step of the handler does.                                        *)

\* The operation of the call becomes op, for the server and in the cache, which may get other
\* operations as well.
Writes(op) ==
  /\ IsOp(op) /\ op.attempt \in Nat /\ OpOfCall(Turn, op)
  /\ Turn \in DOMAIN operations => /\ operations[Turn].status \in {"STARTED", "PENDING"}
                                   /\ operations[Turn].attempt <= op.attempt
                                   /\ op.type # "CALLBACK"
  /\ op.type = "CALLBACK" => op.status = "STARTED"
  /\ DOMAIN operations' = DOMAIN operations \cup {Turn} /\ operations'[Turn] = op
  /\ \A id \in DOMAIN operations \ {Turn} : operations'[id] = operations[id]
  /\ DOMAIN cache \cup {Turn} \subseteq DOMAIN cache'
  /\ \A id \in DOMAIN cache' \ {Turn} :
       \/ id \in DOMAIN cache /\ cache'[id] = cache[id]
       \/ id \in DOMAIN operations /\ cache'[id] = operations[id]
  /\ Fields \subseteq DOMAIN cache'[Turn]
  /\ cache'[Turn].type = op.type /\ cache'[Turn].status = op.status
  /\ cache'[Turn].attempt = op.attempt
  /\ \A id \in DOMAIN callbacks' :
       \/ id \in DOMAIN callbacks /\ callbacks'[id] = callbacks[id]
       \/ id = Turn /\ op.type = "CALLBACK" /\ op.status = "STARTED"
  /\ dirty' = {} /\ UNCHANGED <<open, completed>>

\* And the history tells of it, or does not.
Tells(op) ==
  \/ history' = history
  \/ \E type \in {"StepStarted", "StepSucceeded", "StepFailed", "WaitStarted", "CallbackStarted"} :
       /\ history' = Append(history, Event(type, Turn))
       /\ type = "StepSucceeded" => op.type = "STEP" /\ op.status = "SUCCEEDED"

LEMMA EventsAre ==
  ASSUME NEW id, NEW value, NEW attempt
  PROVE  /\ EventsOfUpdate(Update(id, "STEP", "START", value, attempt))
              = <<Event("StepStarted", id)>>
         /\ EventsOfUpdate(Update(id, "STEP", "SUCCEED", value, attempt))
              = <<Event("StepSucceeded", id)>>
         /\ EventsOfUpdate(Update(id, "STEP", "FAIL", value, attempt))
              = <<Event("StepFailed", id)>>
         /\ EventsOfUpdate(Update(id, "STEP", "RETRY", value, attempt))
              = <<Event("StepFailed", id)>>
         /\ EventsOfUpdate(Update(id, "WAIT", "START", value, attempt))
              = <<Event("WaitStarted", id)>>
         /\ EventsOfUpdate(Update(id, "INVOKE", "START", value, attempt))
              = <<>>
         /\ EventsOfUpdate(Update(id, "CALLBACK", "START", value, attempt))
              = <<Event("CallbackStarted", id)>>
         /\ EventsOfUpdate(Update(id, "EXECUTION", "SUCCEED", value, attempt))
              = <<Event("ExecutionSucceeded", id)>>
         /\ EventsOfUpdate(Update(id, "EXECUTION", "FAIL", value, attempt))
              = <<Event("ExecutionFailed", id)>>
BY DEF EventsOfUpdate, Update, EventsOf, ExecutionEvents, StepEvents, WaitEvents, CallbackEvents

LEMMA AppendTells ==
  ASSUME IsSeq(history), NEW e
  PROVE  history \o <<e>> = Append(history, e) /\ history \o <<>> = history
<1>1. PICK S : history \in Seq(S)
  BY DEF IsSeq
<1>2. history \in Seq(S \cup {e})
  BY <1>1
<1> QED
  BY <1>2

\* What an update makes of an operation, for the server.
ServerOp(id, u) == IF id \in DOMAIN operations THEN Merged(operations[id], u) ELSE CreatedFrom(u)

LEMMA CreatedIs ==
  ASSUME NEW type, NEW action \in {"START", "SUCCEED", "FAIL", "RETRY"},
         NEW id, NEW value, NEW attempt,
         NEW c, c = CreatedFrom(Update(id, type, action, value, attempt))
  PROVE  /\ IsOp(c) /\ c.type = type /\ c.status = StatusOf[action] /\ c.attempt = attempt
         /\ c.scheduled = (type = "WAIT" \/ action = "RETRY")
BY DEF CreatedFrom, Update, IsOp, Scheduled

LEMMA AppliedIs ==
  ASSUME NEW op, Fields \subseteq DOMAIN op,
         NEW type, NEW action \in {"START", "SUCCEED", "FAIL", "RETRY"},
         NEW id, NEW value, NEW attempt,
         NEW a, a = Apply(op, Update(id, type, action, value, attempt))
  PROVE  /\ Fields \subseteq DOMAIN a
         /\ a.type = type /\ a.status = StatusOf[action]
         /\ a.attempt = (CASE action = "START" -> 0
                           [] action = "RETRY" -> attempt
                           [] OTHER            -> op.attempt)
<1>1. CASE action = "START"
  BY <1>1 DEF Apply, Update, StatusOf, Absent, Fields
<1>2. CASE action = "SUCCEED"
  BY <1>2 DEF Apply, Update, StatusOf, Fields
<1>3. CASE action = "FAIL"
  BY <1>3 DEF Apply, Update, StatusOf, Fields
<1>4. CASE action = "RETRY"
  BY <1>4 DEF Apply, Update, StatusOf, Fields
<1> QED
  BY <1>1, <1>2, <1>3, <1>4

\* A checkpoint of the call's own operation.
LEMMA RecordWrites ==
  ASSUME CourseInv, OperationsInv, CacheInv, phase = "handler", ~BodyOver(Frame),
         handler[Turn].kind \in StepKinds \cup {"condition", "wait", "invoke"},
         NEW action \in {"START", "SUCCEED", "FAIL", "RETRY"}, NEW value, NEW attempt \in Nat,
         Record(Type(handler[Turn].kind), action, value, attempt),
         action # "RETRY" => attempt = 0,
         action = "RETRY" => /\ handler[Turn].kind = "condition"
                             /\ attempt > CurrentAttempt(Op) - 1,
         action = "START" /\ Turn \in DOMAIN operations => handler[Turn].kind = "invoke",
         handler[Turn].kind \in {"wait", "invoke"} => action = "START",
         Turn \in DOMAIN operations => operations[Turn].status \in {"STARTED", "PENDING"}
  PROVE  /\ \E op : Writes(op) /\ history' = history \o EventsOfUpdate(
                      Update(Turn, Type(handler[Turn].kind), action, value, attempt))
         /\ operations'[Turn].status = StatusOf[action]
         /\ operations'[Turn].attempt = IF action = "RETRY" THEN attempt
                                        ELSE Get(operations, Turn, Absent).attempt
         /\ operations'[Turn].type = Type(handler[Turn].kind)
         /\ cache'[Turn].status = StatusOf[action] /\ Turn \in DOMAIN cache'
         /\ Turn \in DOMAIN operations'
<1> DEFINE u  == Update(Turn, Type(handler[Turn].kind), action, value, attempt)
           op == ServerOp(Turn, u)
           ca == Apply(Op, u)
<1>1. /\ Id = Turn /\ Turn # Execution /\ Turn \in 1..Len(handler)
      /\ Turn \in DOMAIN cache <=> Turn \in DOMAIN operations
      /\ Turn \notin DOMAIN operations => Op = Absent
      /\ Turn \in DOMAIN operations =>
           /\ OpOfCall(Turn, operations[Turn]) /\ OpOK(Turn, operations[Turn])
           /\ Op.attempt = operations[Turn].attempt
           /\ Fields \subseteq DOMAIN Op
  BY OpIs, TurnIs DEF OperationsInv, StepKinds
<1>2. Fields \subseteq DOMAIN Op
  BY <1>1 DEF Absent, Fields
<1>3. /\ operations' = Put(operations, Turn, op)
      /\ callbacks' = callbacks /\ completed' = completed
      /\ history' = history \o EventsOfUpdate(u)
      /\ dirty' = {} /\ UNCHANGED open
      /\ cache' = Put(cache, Turn, ca)
  BY <1>1 DEF Record, ProcessCheckpoint, ProcessOperationUpdate, ServerOp, Update, Type, StepKinds,
              OperationsInv
<1> DEFINE kind == handler[Turn].kind
<1>4. /\ IsOp(op) /\ op.type = Type(kind) /\ op.status = StatusOf[action]
      /\ op.attempt = (IF action = "RETRY" THEN attempt ELSE Get(operations, Turn, Absent).attempt)
      /\ op.scheduled = (IF Turn \in DOMAIN operations /\ action # "RETRY"
                         THEN operations[Turn].scheduled
                         ELSE Type(kind) = "WAIT" \/ action = "RETRY")
  <2>1. CASE Turn \in DOMAIN operations
    <3> DEFINE old == operations[Turn]
    <3>1. op = Merged(old, Update(Turn, Type(handler[Turn].kind), action, value, attempt))
          /\ IsOp(old)
      BY <1>1, <2>1 DEF ServerOp, OpOK
    <3> HIDE DEF op, old, u
    <3>2. /\ IsOp(op) /\ op.type = operations[Turn].type /\ op.status = StatusOf[action]
          /\ op.attempt = (IF action = "RETRY" THEN attempt ELSE operations[Turn].attempt)
          /\ op.scheduled = (IF action = "RETRY" THEN TRUE ELSE operations[Turn].scheduled)
      <4>1. /\ IsOp(op) /\ op.type = old.type /\ op.status = StatusOf[action]
            /\ op.attempt = (IF action = "RETRY" THEN attempt ELSE old.attempt)
            /\ op.scheduled = (IF action = "RETRY" THEN TRUE ELSE old.scheduled)
        <5>0. PICK y : y = Type(handler[Turn].kind)
          OBVIOUS
        <5>1. op = Merged(old, Update(Turn, y, action, value, attempt)) /\ IsOp(old)
          BY <3>1, <5>0
        <5> QED
          BY <5>1 DEF Merged, Update, IsOp
      <4> QED
        BY <4>1 DEF old
    <3> QED
      BY <1>1, <2>1, <3>2 DEF OpOfCall, Get
  <2>2. CASE Turn \notin DOMAIN operations
    <3>1. op = CreatedFrom(u)
      BY <2>2 DEF ServerOp
    <3> HIDE DEF op
    <3>2. /\ IsOp(op) /\ op.type = Type(kind) /\ op.status = StatusOf[action]
          /\ op.attempt = attempt /\ op.scheduled = (Type(kind) = "WAIT" \/ action = "RETRY")
      BY <3>1, CreatedIs
    <3>3. Get(operations, Turn, Absent).attempt = 0
      BY <2>2 DEF Get, Absent
    <3> QED
      BY <2>2, <3>2, <3>3
  <2> QED
    BY <2>1, <2>2
<1>5. /\ Fields \subseteq DOMAIN ca
      /\ ca.type = Type(kind) /\ ca.status = StatusOf[action]
      /\ ca.attempt = (CASE action = "START" -> 0
                         [] action = "RETRY" -> attempt
                         [] OTHER            -> Op.attempt)
  <2>1. PICK type, old, id : type = Type(kind) /\ old = Op /\ id = Turn
    OBVIOUS
  <2>2. ca = Apply(old, Update(id, type, action, value, attempt))
    BY <2>1
  <2> HIDE DEF kind, ca, u
  <2>3. Fields \subseteq DOMAIN old
    BY <1>2, <2>1
  <2> QED
    BY <2>1, <2>2, <2>3, AppliedIs
<1> HIDE DEF op, ca
<1>6. Get(operations, Turn, Absent).attempt \in Nat
      /\ Get(operations, Turn, Absent).attempt = Op.attempt
  BY <1>1 DEF Get, Absent, OpOK
<1>7. Turn \in DOMAIN operations => operations[Turn].attempt <= op.attempt
  BY <1>1, <1>4, <1>6 DEF Get, CurrentAttempt
<1>8. OpOfCall(Turn, op)
  <2>1. Turn \in 1..Len(handler) /\ kind \notin {"result", "complete", "callback"}
    BY <1>1 DEF StepKinds
  <2>2. /\ kind \in StepKinds => op.status \in {"STARTED", "SUCCEEDED", "FAILED"}
        /\ kind = "condition" => op.status \in {"STARTED", "PENDING", "SUCCEEDED", "FAILED"}
        /\ kind = "wait" => op.status \in {"STARTED", "SUCCEEDED"}
        /\ kind = "invoke" => op.status = "STARTED"
    BY <1>4 DEF StatusOf, StepKinds
  <2>3. kind # "condition" => op.attempt = 0
    BY <1>1, <1>4 DEF Get, Absent, OpOfCall
  <2>4. kind \notin {"condition", "wait"} => op.scheduled = FALSE
    BY <1>1, <1>4 DEF OpOfCall, Type, StepKinds
  <2>5. kind = "condition" /\ op.status = "STARTED" => op.scheduled = FALSE
    <3>1. op.status = "STARTED" => action = "START"
      BY <1>4 DEF StatusOf
    <3>2. kind = "condition" => Type(kind) # "WAIT"
      BY DEF Type
    <3> QED
      BY <1>4, <3>1, <3>2
  <2> QED
    BY <1>4, <2>1, <2>2, <2>3, <2>4, <2>5 DEF OpOfCall
<1>9. op.attempt = ca.attempt /\ op.attempt \in Nat
  BY <1>1, <1>4, <1>5, <1>6 DEF OpOfCall, Get, Absent, StepKinds
<1>10. /\ DOMAIN operations' = DOMAIN operations \cup {Turn} /\ operations'[Turn] = op
       /\ \A id \in DOMAIN operations \ {Turn} : operations'[id] = operations[id]
       /\ DOMAIN cache' = DOMAIN cache \cup {Turn} /\ cache'[Turn] = ca
       /\ \A id \in DOMAIN cache \ {Turn} : cache'[id] = cache[id]
  BY <1>3 DEF Put
<1>11. Writes(op)
  <2>1. op.type # "CALLBACK"
    BY <1>4 DEF Type, StepKinds
  <2> QED
    BY <1>3, <1>4, <1>5, <1>7, <1>8, <1>9, <1>10, <2>1 DEF Writes
<1> QED
  BY <1>3, <1>4, <1>5, <1>10, <1>11

\* The event that tells of the recorded end.
EndEvent(end) == Event(IF end.ok THEN "ExecutionSucceeded" ELSE "ExecutionFailed", Execution)

\* The handler records the end of the execution.
Completes ==
  /\ handler[Turn].kind = "complete" /\ handler[Turn].big
  /\ Execution \in DOMAIN cache
  /\ DOMAIN operations' = DOMAIN operations
  /\ \A id \in DOMAIN operations \ {Execution} : operations'[id] = operations[id]
  /\ OpOK(Execution, operations'[Execution])
  /\ operations'[Execution].status \in {"SUCCEEDED", "FAILED"}
  /\ DOMAIN cache' = DOMAIN cache
  /\ \A id \in DOMAIN cache \ {Execution} : cache'[id] = cache[id]
  /\ Fields \subseteq DOMAIN cache'[Execution]
  /\ cache'[Execution].type = "EXECUTION"
  /\ cache'[Execution].status = operations'[Execution].status
  /\ cache'[Execution].attempt = 0
  /\ completed' = TRUE /\ dirty' = {}
  /\ \E end \in handler[Turn].ends : /\ operations'[Execution].status = EndStatus(end)
                                     /\ history' = Append(history, EndEvent(end))
  /\ UNCHANGED <<open, callbacks>>

\* The call returns: it is settled then, or the handler is suspended.
Returns(o) ==
  LET kind == handler[Turn].kind
  IN  /\ pc' = "call" /\ results' = Append(results, o) /\ IsOutcome(o)
      /\ ReturnOK(handler[Turn], o)
      /\ completed' # completed => o.ok
      /\ \/ o # Suspended /\ SettledIn(cache', Turn)
         \/ /\ o = Suspended /\ ~SettledIn(cache', Turn)
            /\ kind \notin StepKinds \cup {"callback", "complete"}

RunsCode ==
  /\ pc' = "run" /\ UNCHANGED results
  /\ handler[Turn].kind \in StepKinds \cup {"condition"}
  /\ Turn \in DOMAIN operations' => operations'[Turn].status \in {"STARTED", "PENDING"}

Moves ==
  /\ phase = "handler" /\ ~BodyOver(Frame)
  /\ UNCHANGED <<handler, handles, loop, shared, outcome>>
  /\ \/ UNCHANGED <<server, cache>>
     \/ \E op : Writes(op) /\ Tells(op)
     \/ Completes
  /\ Turn \in DOMAIN operations' /\ operations'[Turn].type = "STEP" =>
       /\ operations'[Turn].status = "STARTED" => pc' = "run"
       /\ operations'[Turn].status = "PENDING" /\ pc' = "call" =>
            operations'[Turn].attempt > Get(operations, Turn, Absent).attempt
  /\ RunsCode \/ \E o : Returns(o)

\* What the handler does about an operation.
LEMMA DecidedIs ==
  ASSUME CourseInv, OperationsInv, CacheInv, ReachedInv, phase = "handler", pc = "call",
         ~BodyOver(Frame), NEW kind, kind = handler[Turn].kind, kind # "complete"
  PROVE  /\ Here.kind = kind
         /\ Decided \in {"replay", "start", "run", "suspend"}
         /\ Decided = "replay" => SettledIn(cache, Turn)
         /\ Decided = "start" => /\ Turn \in DOMAIN operations => kind = "invoke"
                                 /\ kind # "result"
         /\ Decided = "run" => /\ Turn \in DOMAIN operations => operations[Turn].status = "PENDING"
                               /\ kind \in StepKinds \cup {"condition"}
         /\ Decided = "suspend" => /\ ~SettledIn(cache, Turn) /\ kind \in {"wait", "result"}
         /\ kind \in {"wait", "result"} => Decided # "run"
         /\ kind = "condition" => Decided # "suspend"
<1>1. /\ Turn \in 1..Len(handler) /\ Here = handler[Turn] /\ Here.kind = kind
      /\ kind \in {"atLeastOnce", "atMostOnce", "condition", "wait", "invoke", "callback",
                   "result"}
  BY TurnIs, CallIs DEF CourseInv
<1>2. Decided = Decision(kind, Op)
  BY <1>1 DEF Decided
<1>3. CASE kind = "result"
  <2>1. /\ Id = handler[Turn].of /\ Id \in DOMAIN cache /\ Op = cache[Id]
        /\ Op.type = "CALLBACK" /\ Op.status \in {"STARTED", "SUCCEEDED", "FAILED"}
        /\ Op.status = "SUCCEEDED" => Op.value # Nothing
    BY <1>3, AskedIs
  <2>2. Decided = ResultDecision(Op)
    BY <1>2, <1>3, <2>1 DEF Decision, Type
  <2>3. /\ Op.status = "STARTED" => Decided = "suspend"
        /\ Op.status # "STARTED" => Decided = "replay"
    BY <2>1, <2>2 DEF ResultDecision, HasResult
  <2>4. SettledIn(cache, Turn) <=> Op.status \in {"SUCCEEDED", "FAILED"}
    BY <1>3, <2>1 DEF SettledIn, StepKinds
  <2> QED
    BY <1>1, <1>3, <2>1, <2>3, <2>4
<1>4. CASE kind # "result"
  <2>1. /\ Turn # Execution
        /\ Turn \in DOMAIN cache <=> Turn \in DOMAIN operations
        /\ Turn \notin DOMAIN operations => Op = Absent
        /\ Turn \in DOMAIN operations =>
              /\ OpOfCall(Turn, operations[Turn])
              /\ Op = cache[Turn] /\ Op.type = Type(kind)
              /\ kind # "callback" => Op.status = operations[Turn].status
              /\ kind = "callback" => Op.status \in {"STARTED", "SUCCEEDED", "FAILED"}
    BY <1>1, <1>4, OpIs
  <2>2. /\ Turn \in DOMAIN operations /\ operations[Turn].type = "STEP" =>
             operations[Turn].status # "STARTED"
    BY DEF OperationsInv
  <2>3. CASE Turn \notin DOMAIN operations
    <3>1. Op.status = "NONE" /\ Turn \notin DOMAIN cache
      BY <2>1, <2>3 DEF Absent
    <3>2. Decided = (IF kind = "atLeastOnce" THEN "run" ELSE "start")
      BY <1>1, <1>2, <1>4, <3>1 DEF Decision, StepDecision, ConditionDecision, WaitDecision,
            CallbackDecision, InvokeDecision, Terminal
    <3> QED
      BY <1>1, <1>4, <2>3, <3>1, <3>2 DEF StepKinds
  <2>4. CASE Turn \in DOMAIN operations
    <3>1. /\ Op.type = Type(kind) /\ Op = cache[Turn] /\ Turn \in DOMAIN cache
          /\ kind # "callback" => Op.status = operations[Turn].status
      BY <2>1, <2>4
    <3>2. CASE kind \in StepKinds
      <4>1. Op.status \in {"SUCCEEDED", "FAILED"}
        BY <2>1, <2>2, <2>4, <3>1, <3>2 DEF OpOfCall, Type, StepKinds
      <4>2. Decided = "replay"
        BY <1>2, <3>1, <3>2, <4>1 DEF Decision, StepDecision, Terminal, StepKinds
      <4> QED
        BY <1>1, <3>2, <4>2 DEF SettledIn, StepKinds
    <3>3. CASE kind = "condition"
      <4>1. Op.status \in {"PENDING", "SUCCEEDED", "FAILED"}
        BY <2>1, <2>2, <2>4, <3>1, <3>3 DEF OpOfCall, Type
      <4>2. Decided = IF Op.status = "PENDING" THEN "run" ELSE "replay"
        BY <1>2, <3>1, <3>3, <4>1 DEF Decision, ConditionDecision
      <4> QED
        BY <1>1, <3>1, <3>3, <4>1, <4>2 DEF SettledIn, StepKinds
    <3>4. CASE kind = "wait"
      <4>1. Op.status \in {"STARTED", "SUCCEEDED"}
        BY <2>1, <2>4, <3>1, <3>4 DEF OpOfCall
      <4>2. Decided = IF Op.status = "STARTED" THEN "suspend" ELSE "replay"
        BY <1>2, <3>1, <3>4, <4>1 DEF Decision, WaitDecision
      <4> QED
        BY <1>1, <3>1, <3>4, <4>1, <4>2 DEF SettledIn, StepKinds
    <3>5. CASE kind = "invoke"
      <4>1. Op.status = "STARTED"
        BY <2>1, <2>4, <3>1, <3>5 DEF OpOfCall
      <4>2. Decided = "start"
        BY <1>2, <3>1, <3>5, <4>1 DEF Decision, InvokeDecision, Terminal
      <4> QED
        BY <1>1, <3>5, <4>2
    <3>6. CASE kind = "callback"
      <4>1. Op.status # "NONE"
        BY <2>1, <2>4, <3>6
      <4>2. Decided = "replay"
        BY <1>2, <3>1, <3>6, <4>1 DEF Decision, CallbackDecision
      <4> QED
        BY <1>1, <3>1, <3>6, <4>2 DEF SettledIn, StepKinds
    <3> QED
      BY <1>1, <1>4, <3>2, <3>3, <3>4, <3>5, <3>6 DEF StepKinds
  <2> QED
    BY <2>3, <2>4
<1> QED
  BY <1>3, <1>4

LEMMA ReplayedIs ==
  ASSUME NEW kind, NEW op
  PROVE  /\ IsOutcome(Replayed(kind, op)) /\ Replayed(kind, op) # Suspended
         /\ kind = "wait" => Replayed(kind, op).ok
<1>1. \/ \E v : Replayed(kind, op) = Success(v)
      \/ Replayed(kind, op) \in {Failed("Callback"), Failed("Invocation"), Failed("UserCode")}
  BY DEF Replayed
<1>2. kind = "wait" => Replayed(kind, op) = Success(Nothing)
  BY DEF Replayed
<1> QED
  BY <1>1, <1>2, SuccessIs, FailedIs, NotSuspended

\* A checkpoint that ends or begins the call's own operation is told, if its type has events.
LEMMA RecordTells ==
  ASSUME IsSeq(history), NEW kind \in StepKinds \cup {"condition", "wait", "invoke"},
         NEW action \in {"START", "SUCCEED", "FAIL", "RETRY"}, NEW value, NEW attempt, NEW op,
         op.type = Type(kind), op.status = StatusOf[action],
         kind \in {"wait", "invoke"} => action = "START",
         history' = history \o EventsOfUpdate(Update(Turn, Type(kind), action, value, attempt))
  PROVE  Tells(op)
<1>1. \/ Type(kind) = "STEP"
      \/ Type(kind) \in {"WAIT", "INVOKE"} /\ action = "START"
  BY DEF Type, StepKinds
<1>2. \/ EventsOfUpdate(Update(Turn, Type(kind), action, value, attempt)) = <<>>
      \/ \E type \in {"StepStarted", "StepSucceeded", "StepFailed", "WaitStarted"} :
           /\ EventsOfUpdate(Update(Turn, Type(kind), action, value, attempt))
                = <<Event(type, Turn)>>
           /\ type = "StepSucceeded" => Type(kind) = "STEP" /\ action = "SUCCEED"
  BY <1>1, EventsAre
<1>3. CASE EventsOfUpdate(Update(Turn, Type(kind), action, value, attempt)) = <<>>
  BY <1>3, AppendTells DEF Tells
<1>4. ASSUME NEW type \in {"StepStarted", "StepSucceeded", "StepFailed", "WaitStarted"},
             EventsOfUpdate(Update(Turn, Type(kind), action, value, attempt))
               = <<Event(type, Turn)>>,
             type = "StepSucceeded" => Type(kind) = "STEP" /\ action = "SUCCEED"
      PROVE  Tells(op)
  <2>1. history' = history \o <<Event(type, Turn)>>
    BY <1>4
  <2>2. history' = Append(history, Event(type, Turn))
    <3>1. PICK e : e = Event(type, Turn)
      OBVIOUS
    <3> QED
      BY <2>1, <3>1, AppendTells
  <2>3. type = "StepSucceeded" => op.type = "STEP" /\ op.status = "SUCCEEDED"
    BY <1>4 DEF StatusOf
  <2> QED
    BY <2>2, <2>3 DEF Tells
<1> QED
  BY <1>2, <1>3, <1>4

\* An operation that the call finds pending is a condition, and not settled.
LEMMA PendingIs ==
  ASSUME CourseInv, OperationsInv, CacheInv, phase = "handler", pc = "call", ~BodyOver(Frame),
         Turn \in DOMAIN operations, operations[Turn].type = "STEP"
  PROVE  /\ operations[Turn].status # "STARTED"
         /\ operations[Turn].status = "PENDING" =>
              handler[Turn].kind = "condition" /\ ~SettledIn(cache, Turn)
<1>1. operations[Turn].status # "STARTED"
  BY DEF OperationsInv
<1>2. Turn \in 1..Len(handler) /\ Turn # Execution
  BY TurnIs, HandlerIs DEF CourseInv, Execution
<1>3. OpOfCall(Turn, operations[Turn])
  BY <1>2 DEF OperationsInv, OpOK
<1>4. handler[Turn].kind \in StepKinds \cup {"condition"}
  BY <1>2, <1>3, CallIs DEF CourseInv, OpOfCall, Type, StepKinds
<1>5. operations[Turn].status = "PENDING" => handler[Turn].kind = "condition"
  BY <1>3, <1>4 DEF OpOfCall
<1>6. handler[Turn].kind = "condition" =>
        Turn \in DOMAIN cache /\ cache[Turn].status = operations[Turn].status
  <2> HAVE handler[Turn].kind = "condition"
  <2>1. Turn \in DOMAIN cache /\ Op = cache[Turn] /\ Op.status = operations[Turn].status
    BY OpIs
  <2> QED
    BY <2>1
<1> QED
  BY <1>1, <1>5, <1>6 DEF SettledIn, StepKinds

LEMMA ReplayMoves ==
  ASSUME OrchestratorInv, Replay
  PROVE  Moves
<1> USE DEF OrchestratorInv
<1>1. /\ phase = "handler" /\ pc = "call" /\ ~BodyOver(Frame)
      /\ Decided \in {"replay", "error"} /\ UNCHANGED <<server, cache>>
      /\ Here.kind # "complete"
  BY DEF Replay, Calling, At
<1>2. Here = handler[Turn]
  BY <1>1, TurnIs
<1>3. PICK kind : kind = handler[Turn].kind
  OBVIOUS
<1>4. Decided = "replay" /\ SettledIn(cache, Turn) /\ Here.kind = kind /\ kind # "complete"
  BY <1>1, <1>2, <1>3, DecidedIs
<1>5. PICK o : o = Replayed(kind, Op)
  OBVIOUS
<1>6. IsOutcome(o) /\ o # Suspended /\ (kind = "wait" => o = Success(Nothing))
  BY <1>5, ReplayedIs DEF Replayed
<1>7. Return(o)
  BY <1>4, <1>5 DEF Replay
<1>8. Returns(o)
  BY <1>1, <1>3, <1>4, <1>6, <1>7 DEF Returns, Return, ReturnOK, SettledIn
<1>9. /\ Turn \in DOMAIN operations' /\ operations'[Turn].type = "STEP" =>
           operations'[Turn].status \notin {"STARTED", "PENDING"}
  BY <1>1, <1>4, PendingIs
<1> QED
  BY <1>1, <1>7, <1>8, <1>9 DEF Moves, Return

LEMMA BeginMoves ==
  ASSUME OrchestratorInv, Begin
  PROVE  Moves
<1> USE DEF OrchestratorInv
<1>1. /\ phase = "handler" /\ pc = "call" /\ ~BodyOver(Frame)
      /\ Decided \in {"start", "run"} /\ pc' = "run"
      /\ Here.kind \in StepKinds \cup {"condition"}
      /\ UNCHANGED <<handler, handles, loop, shared, results, outcome>>
  BY DEF Begin, Calling, At, StepKinds
<1>2. Here = handler[Turn]
  BY <1>1, TurnIs
<1>3. PICK kind : kind = handler[Turn].kind
  OBVIOUS
<1>4. /\ Decided = "start" => Turn \notin DOMAIN operations
      /\ Decided = "run" => (Turn \in DOMAIN operations => operations[Turn].status = "PENDING")
  BY <1>1, <1>2, <1>3, DecidedIs DEF StepKinds
<1>5. CASE Decided = "run"
  <2>1. UNCHANGED <<server, cache>>
    BY <1>5 DEF Begin
  <2>2. RunsCode
    BY <1>1, <1>2, <1>4, <1>5, <2>1 DEF RunsCode
  <2> QED
    BY <1>1, <2>1, <2>2 DEF Moves
<1>6. CASE Decided = "start"
  <2>1. Type(kind) = "STEP"
    BY <1>1, <1>2, <1>3 DEF Type, StepKinds
  <2>2. Record(Type(handler[Turn].kind), "START", Nothing, 0)
    BY <1>3, <1>6, <2>1 DEF Begin
  <2>3. /\ \E op : Writes(op) /\ history' = history \o EventsOfUpdate(
                      Update(Turn, Type(handler[Turn].kind), "START", Nothing, 0))
        /\ operations'[Turn].status = StatusOf["START"]
        /\ operations'[Turn].type = Type(handler[Turn].kind)
    BY <1>1, <1>2, <1>4, <1>6, <2>2, RecordWrites DEF StepKinds
  <2>4. PICK op : Writes(op)
    BY <2>3
  <2>5. op.type = Type(kind) /\ op.status = StatusOf["START"]
    BY <1>3, <2>3, <2>4 DEF Writes
  <2>6. Tells(op)
    BY <1>1, <1>2, <1>3, <2>3, <2>5, RecordTells DEF EventsInv
  <2>7. RunsCode
    BY <1>1, <1>2, <2>3 DEF RunsCode, StatusOf
  <2> QED
    BY <1>1, <2>4, <2>6, <2>7 DEF Moves
<1> QED
  BY <1>1, <1>5, <1>6

LEMMA StepEndsMoves ==
  ASSUME OrchestratorInv, StepEnds
  PROVE  Moves
<1> USE DEF OrchestratorInv
<1>1. phase = "handler" /\ pc = "run" /\ ~BodyOver(Frame) /\ Here.kind \in StepKinds
  BY DEF StepEnds, At, StepKinds
<1>2. Here = handler[Turn] /\ Turn \in 1..Len(handler)
  BY <1>1, TurnIs
<1>3. PICK end \in Here.ends : /\ Record("STEP", IF end.ok THEN "SUCCEED" ELSE "FAIL", end.value, 0)
                               /\ Return(end)
  BY DEF StepEnds
<1>4. IsOutcome(end) /\ end # Suspended
  BY <1>2, <1>3, CallIs, NotSuspended DEF CourseInv
<1>5. PICK kind, action : /\ kind = handler[Turn].kind
                          /\ action = IF end.ok THEN "SUCCEED" ELSE "FAIL"
  OBVIOUS
<1>6. Type(kind) = "STEP" /\ kind \in StepKinds /\ action \in {"SUCCEED", "FAIL"}
  BY <1>1, <1>2, <1>5 DEF Type, StepKinds
<1>7. Record(Type(handler[Turn].kind), action, end.value, 0)
  BY <1>3, <1>5, <1>6
<1>8. Turn \in DOMAIN operations => operations[Turn].status \in {"STARTED", "PENDING"}
  BY <1>1 DEF CourseInv
<1>9. /\ \E op : Writes(op) /\ history' = history \o EventsOfUpdate(
                      Update(Turn, Type(handler[Turn].kind), action, end.value, 0))
      /\ operations'[Turn].status = StatusOf[action]
      /\ operations'[Turn].type = Type(handler[Turn].kind)
  BY <1>1, <1>2, <1>5, <1>6, <1>7, <1>8, RecordWrites DEF StepKinds
<1>10. PICK op : Writes(op)
  BY <1>9
<1>11. op.type = Type(kind) /\ op.status = StatusOf[action]
  BY <1>5, <1>9, <1>10 DEF Writes
<1>12. Tells(op)
  <2>1. PICK value : value = end.value
    OBVIOUS
  <2>2. /\ history' = history \o EventsOfUpdate(Update(Turn, Type(kind), action, value, 0))
        /\ IsSeq(history) /\ (kind \in {"wait", "invoke"} => action = "START")
    BY <1>5, <1>6, <1>9, <2>1 DEF EventsInv, StepKinds
  <2> QED
    BY <1>6, <1>11, <2>2, RecordTells
<1>13. Returns(end)
  BY <1>3, <1>4, <1>5, <1>6, <1>10 DEF Returns, Return, ReturnOK, SettledIn, Writes, StepKinds
<1>14. operations'[Turn].status \notin {"STARTED", "PENDING"}
  BY <1>6, <1>9 DEF StatusOf
<1> QED
  BY <1>1, <1>3, <1>10, <1>12, <1>13, <1>14 DEF Moves, Return

LEMMA ConditionMetMoves ==
  ASSUME OrchestratorInv, ConditionMet
  PROVE  Moves
<1> USE DEF OrchestratorInv
<1>1. /\ phase = "handler" /\ pc = "run" /\ ~BodyOver(Frame) /\ Here.kind = "condition"
      /\ Record("STEP", "SUCCEED", A, 0) /\ Return(Success(A))
  BY DEF ConditionMet, At
<1>2. Here = handler[Turn] /\ Turn \in 1..Len(handler)
  BY <1>1, TurnIs
<1>3. PICK kind, end : kind = handler[Turn].kind /\ end = Success(A)
  OBVIOUS
<1>4. IsOutcome(end) /\ end # Suspended /\ Return(end)
  BY <1>1, <1>3, SuccessIs
<1>5. Type(kind) = "STEP" /\ kind = "condition"
  BY <1>1, <1>2, <1>3 DEF Type
<1>6. Turn \in DOMAIN operations => operations[Turn].status \in {"STARTED", "PENDING"}
  BY <1>1 DEF CourseInv
<1>7. /\ \E op : Writes(op) /\ history' = history \o EventsOfUpdate(
                      Update(Turn, Type(handler[Turn].kind), "SUCCEED", A, 0))
      /\ operations'[Turn].status = StatusOf["SUCCEED"]
      /\ operations'[Turn].type = Type(handler[Turn].kind)
      /\ cache'[Turn].status = StatusOf["SUCCEED"] /\ Turn \in DOMAIN cache'
  BY <1>1, <1>3, <1>5, <1>6, RecordWrites DEF StepKinds
<1>8. PICK op : Writes(op)
  BY <1>7
<1>9. op.type = Type(kind) /\ op.status = StatusOf["SUCCEED"]
  BY <1>3, <1>7, <1>8 DEF Writes
<1>10. Tells(op)
  BY <1>3, <1>5, <1>7, <1>9, RecordTells DEF EventsInv
<1>11. Returns(end)
  BY <1>3, <1>4, <1>5, <1>7, <1>8 DEF Returns, Return, ReturnOK, SettledIn, Writes, StepKinds,
          StatusOf
<1>12. operations'[Turn].status \notin {"STARTED", "PENDING"}
  BY <1>7 DEF StatusOf
<1> QED
  BY <1>1, <1>4, <1>8, <1>10, <1>11, <1>12 DEF Moves, Return

LEMMA ConditionNotMetMoves ==
  ASSUME OrchestratorInv, ConditionNotMet
  PROVE  Moves
<1> USE DEF OrchestratorInv
<1>1. /\ phase = "handler" /\ pc = "run" /\ ~BodyOver(Frame) /\ Here.kind = "condition"
  BY DEF ConditionNotMet, At
<1>2. Here = handler[Turn] /\ Turn \in 1..Len(handler)
  BY <1>1, TurnIs
<1>3. PICK kind : kind = handler[Turn].kind
  OBVIOUS
<1>5. Type(kind) = "STEP" /\ kind = "condition"
  BY <1>1, <1>2, <1>3 DEF Type
<1>6. Turn \in DOMAIN operations => operations[Turn].status \in {"STARTED", "PENDING"}
  BY <1>1 DEF CourseInv
<1>7. Op.attempt \in Nat /\ Op.attempt = Get(operations, Turn, Absent).attempt
  <2>1. /\ Turn \notin DOMAIN operations => Op = Absent
        /\ Turn \in DOMAIN operations => Op.attempt = operations[Turn].attempt
    BY <1>1, <1>3, <1>5, OpIs
  <2>2. Turn \in DOMAIN operations => operations[Turn].attempt \in Nat
    BY DEF OperationsInv, OpOK
  <2> QED
    BY <2>1, <2>2 DEF Get, Absent
<1>8. CASE CurrentAttempt(Op) >= Here.attempts
  <2>1. Record("STEP", "FAIL", Nothing, 0) /\ Return(Failed("Execution"))
    BY <1>8 DEF ConditionNotMet
  <2>2. PICK end : end = Failed("Execution")
    OBVIOUS
  <2>3. IsOutcome(end) /\ end # Suspended /\ Return(end)
    BY <2>1, <2>2, FailedIs, NotSuspended
  <2>4. /\ \E op : Writes(op) /\ history' = history \o EventsOfUpdate(
                        Update(Turn, Type(handler[Turn].kind), "FAIL", Nothing, 0))
        /\ operations'[Turn].status = StatusOf["FAIL"]
        /\ operations'[Turn].type = Type(handler[Turn].kind)
        /\ cache'[Turn].status = StatusOf["FAIL"] /\ Turn \in DOMAIN cache'
    BY <1>1, <1>3, <1>5, <1>6, <2>1, RecordWrites DEF StepKinds
  <2>5. PICK op : Writes(op)
    BY <2>4
  <2>6. op.type = Type(kind) /\ op.status = StatusOf["FAIL"]
    BY <1>3, <2>4, <2>5 DEF Writes
  <2>7. Tells(op)
    BY <1>3, <1>5, <2>4, <2>6, RecordTells DEF EventsInv
  <2>8. Returns(end)
    BY <1>3, <1>5, <2>3, <2>4, <2>5 DEF Returns, Return, ReturnOK, SettledIn, Writes,
          StepKinds, StatusOf
  <2>9. operations'[Turn].status \notin {"STARTED", "PENDING"}
    BY <2>4 DEF StatusOf
  <2> QED
    BY <1>1, <2>3, <2>5, <2>7, <2>8, <2>9 DEF Moves, Return
<1>9. CASE ~(CurrentAttempt(Op) >= Here.attempts)
  <2>1. PICK next : next = CurrentAttempt(Op) + 1
    OBVIOUS
  <2>2. Record("STEP", "RETRY", Nothing, next) /\ Return(Suspended)
    BY <1>9, <2>1 DEF ConditionNotMet, Suspended
  <2>3. next \in Nat /\ next > CurrentAttempt(Op) - 1 /\ next > Op.attempt
    BY <1>7, <2>1 DEF CurrentAttempt
  <2>4. /\ \E op : Writes(op) /\ history' = history \o EventsOfUpdate(
                        Update(Turn, Type(handler[Turn].kind), "RETRY", Nothing, next))
        /\ operations'[Turn].status = StatusOf["RETRY"]
        /\ operations'[Turn].attempt = next
        /\ operations'[Turn].type = Type(handler[Turn].kind)
        /\ cache'[Turn].status = StatusOf["RETRY"] /\ Turn \in DOMAIN cache'
    BY <1>1, <1>3, <1>5, <1>6, <2>2, <2>3, RecordWrites DEF StepKinds
  <2>5. PICK op : Writes(op)
    BY <2>4
  <2>6. op.type = Type(kind) /\ op.status = StatusOf["RETRY"]
    BY <1>3, <2>4, <2>5 DEF Writes
  <2>7. Tells(op)
    BY <1>3, <1>5, <2>4, <2>6, RecordTells DEF EventsInv
  <2>8. IsOutcome(Suspended)
    BY FailedIs DEF Suspended
  <2> HIDE DEF Suspended
  <2>9. Returns(Suspended)
    BY <1>3, <1>5, <2>2, <2>4, <2>5, <2>8
       DEF Returns, Return, ReturnOK, SettledIn, Writes, StepKinds, StatusOf
  <2>10. /\ operations'[Turn].status = "PENDING"
         /\ operations'[Turn].attempt > Get(operations, Turn, Absent).attempt
    BY <1>7, <2>3, <2>4 DEF StatusOf
  <2> QED
    BY <1>1, <2>2, <2>5, <2>7, <2>9, <2>10 DEF Moves, Return
<1> QED
  BY <1>8, <1>9

LEMMA SuspendMoves ==
  ASSUME OrchestratorInv, Suspend
  PROVE  Moves
<1> USE DEF OrchestratorInv
<1>1. /\ phase = "handler" /\ pc = "call" /\ ~BodyOver(Frame) /\ Return(Suspended)
      /\ Here.kind \in {"atLeastOnce", "atMostOnce", "wait", "invoke", "result"}
  BY DEF Suspend, Calling, At, Suspended
<1>2. Here = handler[Turn] /\ Turn \in 1..Len(handler)
  BY <1>1, TurnIs
<1>3. PICK kind : kind = handler[Turn].kind
  OBVIOUS
<1>4. IsOutcome(Suspended)
  BY FailedIs DEF Suspended
<1>5. CASE Decided = "suspend" /\ UNCHANGED <<server, cache>>
  <2>1. ~SettledIn(cache, Turn) /\ kind \in {"wait", "result"}
    BY <1>1, <1>2, <1>3, <1>5, DecidedIs
  <2>2. Returns(Suspended)
    BY <1>1, <1>3, <1>4, <1>5, <2>1 DEF Returns, Return, ReturnOK, StepKinds, SettledIn
  <2>3. /\ Turn \in DOMAIN operations' /\ operations'[Turn].type = "STEP" =>
             operations'[Turn].status \notin {"STARTED", "PENDING"}
    BY <1>1, <1>3, <1>5, <2>1, PendingIs
  <2> QED
    BY <1>1, <1>5, <2>2, <2>3 DEF Moves, Return
<1>6. CASE /\ Decided = "start" /\ Here.kind \in {"wait", "invoke"}
           /\ Record(Type(Here.kind), "START", Nothing, 0)
  <2>1. kind \in {"wait", "invoke"} /\ (Turn \in DOMAIN operations => kind = "invoke")
    BY <1>1, <1>2, <1>3, <1>6, DecidedIs
  <2>2. Record(Type(handler[Turn].kind), "START", Nothing, 0)
    BY <1>2, <1>6
  <2>3. Turn \in DOMAIN operations => operations[Turn].status \in {"STARTED", "PENDING"}
    <3> HAVE Turn \in DOMAIN operations
    <3>1. Turn # Execution /\ handler[Turn].kind = "invoke"
      BY <1>2, <1>3, <2>1, HandlerIs DEF CourseInv, Execution
    <3>2. OpOfCall(Turn, operations[Turn])
      BY <3>1 DEF OperationsInv, OpOK
    <3> QED
      BY <3>1, <3>2 DEF OpOfCall
  <2>4. /\ \E op : Writes(op) /\ history' = history \o EventsOfUpdate(
                        Update(Turn, Type(handler[Turn].kind), "START", Nothing, 0))
        /\ operations'[Turn].status = StatusOf["START"]
        /\ operations'[Turn].type = Type(handler[Turn].kind)
        /\ cache'[Turn].status = StatusOf["START"] /\ Turn \in DOMAIN cache'
    BY <1>1, <1>3, <2>1, <2>2, <2>3, RecordWrites DEF StepKinds
  <2>5. PICK op : Writes(op)
    BY <2>4
  <2>6. op.type = Type(kind) /\ op.status = StatusOf["START"]
    BY <1>3, <2>4, <2>5 DEF Writes
  <2>7. Tells(op)
    BY <1>3, <2>1, <2>4, <2>6, RecordTells DEF EventsInv
  <2>8. ~SettledIn(cache', Turn)
    BY <1>3, <2>1, <2>4 DEF SettledIn, StepKinds, StatusOf
  <2>9. Returns(Suspended)
    BY <1>1, <1>3, <1>4, <2>1, <2>5, <2>8 DEF Returns, Return, ReturnOK, Writes, StepKinds
  <2>10. operations'[Turn].type # "STEP"
    BY <1>3, <2>1, <2>4 DEF Type
  <2> QED
    BY <1>1, <2>5, <2>7, <2>9, <2>10 DEF Moves, Return
<1> QED
  BY <1>5, <1>6 DEF Suspend

LEMMA CreateCallbackMoves ==
  ASSUME OrchestratorInv, CreateCallback
  PROVE  Moves
<1> USE DEF OrchestratorInv
<1>1. /\ phase = "handler" /\ pc = "call" /\ ~BodyOver(Frame) /\ Return(Success(Nothing))
      /\ Here.kind = "callback" /\ Decided = "start"
  BY DEF CreateCallback, Calling, At
<1>2. Here = handler[Turn] /\ Turn \in 1..Len(handler) /\ Turn # Execution
  BY <1>1, TurnIs, HandlerIs DEF CourseInv, Execution
<1>3. handler[Turn].kind = "callback" /\ Turn \notin DOMAIN operations /\ Id = Turn
  BY <1>1, <1>2, DecidedIs, OpIs
<1> DEFINE u  == Update(Turn, "CALLBACK", "START", Nothing, 0)
           op == CreatedFrom(u)
<1>4. /\ operations' = Put(operations, Turn, op)
      /\ callbacks' = Put(callbacks, Turn, "open")
      /\ completed' = completed
      /\ history' = history \o EventsOfUpdate(u)
      /\ dirty' = {} /\ UNCHANGED open
      /\ cache' = [id \in DOMAIN cache \cup DirtyOperations(u) |->
                        IF id \in DirtyOperations(u) THEN operations'[id] ELSE cache[id]]
  BY <1>3 DEF CreateCallback, ProcessCheckpoint, ProcessOperationUpdate, Update, OperationsInv
<1>5. op = [type |-> "CALLBACK", status |-> "STARTED", value |-> Nothing, attempt |-> 0,
            scheduled |-> FALSE]
  BY DEF CreatedFrom, Update, StatusOf, Scheduled
<1>6. DirtyOperations(u) = dirty \cup {Turn} /\ dirty \subseteq DOMAIN operations
  BY DEF DirtyOperations, Update, OperationsInv
<1>7. history' = Append(history, Event("CallbackStarted", Turn))
  <2>1. PICK e : e = Event("CallbackStarted", Turn)
    OBVIOUS
  <2>2. EventsOfUpdate(u) = <<e>>
    BY <2>1, EventsAre
  <2> QED
    BY <1>4, <2>1, <2>2, AppendTells DEF EventsInv
<1> HIDE DEF op, u
<1>8. /\ DOMAIN operations' = DOMAIN operations \cup {Turn} /\ operations'[Turn] = op
      /\ \A id \in DOMAIN operations \ {Turn} : operations'[id] = operations[id]
  BY <1>4 DEF Put
<1>9. /\ DOMAIN cache' = DOMAIN cache \cup dirty \cup {Turn}
      /\ \A id \in dirty \cup {Turn} : cache'[id] = operations'[id]
      /\ \A id \in DOMAIN cache \ (dirty \cup {Turn}) : cache'[id] = cache[id]
  BY <1>4, <1>6
<1>10. \A id \in DOMAIN callbacks' :
         \/ id \in DOMAIN callbacks /\ callbacks'[id] = callbacks[id]
         \/ id = Turn
  BY <1>4 DEF Put
<1>11. OpOfCall(Turn, op) /\ IsOp(op) /\ op.attempt \in Nat
  BY <1>2, <1>3, <1>5 DEF OpOfCall, IsOp, Type, StepKinds
<1>12. Writes(op)
  BY <1>3, <1>4, <1>5, <1>6, <1>8, <1>9, <1>10, <1>11 DEF Writes, Fields
<1>13. Tells(op)
  BY <1>7 DEF Tells
<1>14. PICK o : o = Success(Nothing)
  OBVIOUS
<1>15. IsOutcome(o) /\ o # Suspended /\ Return(o)
  BY <1>1, <1>14, SuccessIs
<1>16. Returns(o)
  BY <1>3, <1>4, <1>9, <1>15 DEF Returns, Return, ReturnOK, SettledIn, StepKinds
<1>17. operations'[Turn].type # "STEP"
  BY <1>5, <1>8
<1> QED
  BY <1>1, <1>12, <1>13, <1>15, <1>16, <1>17 DEF Moves, Return

LEMMA CompleteItselfMoves ==
  ASSUME OrchestratorInv, CompleteItself
  PROVE  Moves
<1> USE DEF OrchestratorInv
<1>1. phase = "handler" /\ pc = "call" /\ ~BodyOver(Frame) /\ Here.kind = "complete"
  BY DEF CompleteItself, Calling, At
<1>2. Here = handler[Turn] /\ Turn \in 1..Len(handler) /\ Turn # Execution
  BY <1>1, TurnIs, HandlerIs DEF CourseInv, Execution
<1>3. Turn \notin DOMAIN operations
  BY <1>1, <1>2 DEF OperationsInv, OpOK, OpOfCall
<1>4. ASSUME NEW o, Return(o), UNCHANGED <<server, cache>>, IsOutcome(o), o # Suspended,
             ReturnOK(handler[Turn], o)
      PROVE  Moves
  <2>1. Returns(o)
    BY <1>1, <1>2, <1>4 DEF Returns, Return, SettledIn
  <2> QED
    BY <1>1, <1>3, <1>4, <2>1 DEF Moves, Return
<1>5. CASE ~Here.big /\ Return(Success(Nothing)) /\ UNCHANGED <<server, cache>>
  <2>1. PICK o : o = Success(Nothing)
    OBVIOUS
  <2>2. ReturnOK(handler[Turn], o)
    BY <1>1, <1>2, <2>1 DEF ReturnOK
  <2> QED
    BY <1>4, <1>5, <2>1, <2>2, SuccessIs
<1>6. CASE Here.big /\ Return(Failed("Validation")) /\ UNCHANGED <<server, cache>>
  <2>1. PICK o : o = Failed("Validation")
    OBVIOUS
  <2>2. o # Suspended /\ IsOutcome(o) /\ ~o.ok
    BY <2>1, FailedIs, NotSuspended
  <2>3. ReturnOK(handler[Turn], o)
    BY <1>1, <1>2, <1>6, <2>2 DEF ReturnOK
  <2> QED
    BY <1>4, <1>6, <2>1, <2>2, <2>3
<1>7. ASSUME NEW end \in Here.ends, NEW u, u = EndUpdate(end),
             Here.big, Execution \in DOMAIN cache, ProcessCheckpoint(u),
             cache' = Put(cache, Execution, Apply(cache[Execution], u)),
             Return(Success(Nothing))
      PROVE  Moves
  <2>0. PICK action, value :
          /\ action = (IF end.ok THEN "SUCCEED" ELSE "FAIL") /\ value = end.value
          /\ u = Update(Execution, "EXECUTION", action, value, 0)
    BY <1>7 DEF EndUpdate
  <2>00. action \in {"SUCCEED", "FAIL"} /\ StatusOf[action] = EndStatus(end)
    BY <2>0 DEF StatusOf, EndStatus
  <2>1. Execution \in DOMAIN operations
    BY <1>7 DEF CacheInv
  <2>2. OpOK(Execution, operations[Execution])
    BY <2>1 DEF OperationsInv
  <2> DEFINE op == Merged(operations[Execution], u)
             ca == Apply(cache[Execution], u)
  <2>3. /\ operations' = Put(operations, Execution, op)
        /\ callbacks' = callbacks /\ completed' = TRUE
        /\ history' = history \o EventsOfUpdate(u)
        /\ dirty' = {} /\ UNCHANGED open
    <3>1. /\ u.id = Execution /\ u.type = "EXECUTION" /\ u.action \in {"SUCCEED", "FAIL"}
      BY <2>0, <2>00 DEF Update
    <3> QED
      BY <1>7, <2>1, <3>1 DEF ProcessCheckpoint, ProcessOperationUpdate, OperationsInv
  <2>4. history' = Append(history, EndEvent(end))
    <3>1. PICK e : e = EndEvent(end)
      OBVIOUS
    <3>2. EventsOfUpdate(u) = <<e>>
      BY <2>0, <3>1, EventsAre DEF EndEvent
    <3> QED
      BY <2>3, <3>1, <3>2, AppendTells DEF EventsInv
  <2>5. OpOK(Execution, op) /\ op.status = EndStatus(end)
    <3>1. PICK old : old = operations[Execution]
      OBVIOUS
    <3>2. op = Merged(old, Update(Execution, "EXECUTION", action, value, 0))
      BY <2>0, <3>1
    <3>3. OpOK(Execution, old)
      BY <2>2, <3>1
    <3> HIDE DEF op
    <3>4. /\ IsOp(op) /\ op.type = old.type /\ op.status = StatusOf[action]
          /\ op.attempt = old.attempt /\ op.scheduled = old.scheduled
      BY <2>00, <3>2, <3>3 DEF Merged, Update, IsOp, OpOK
    <3> QED
      BY <2>00, <3>3, <3>4 DEF OpOK, EndStatus
  <2>6. /\ Fields \subseteq DOMAIN cache[Execution]
        /\ cache[Execution].attempt = 0
    BY <1>7, <2>2 DEF CacheInv, Behind, OpOK
  <2>7. /\ Fields \subseteq DOMAIN ca
        /\ ca.type = "EXECUTION" /\ ca.status = EndStatus(end) /\ ca.attempt = 0
    <3>1. PICK old : old = cache[Execution]
      OBVIOUS
    <3>2. ca = Apply(old, Update(Execution, "EXECUTION", action, value, 0))
      BY <2>0, <3>1
    <3> HIDE DEF ca
    <3> QED
      BY <2>00, <2>6, <3>1, <3>2, AppliedIs
  <2>8. cache' = Put(cache, Execution, ca)
    BY <1>7
  <2> HIDE DEF op, ca
  <2>9. /\ DOMAIN operations' = DOMAIN operations /\ operations'[Execution] = op
        /\ \A id \in DOMAIN operations \ {Execution} : operations'[id] = operations[id]
    BY <2>1, <2>3 DEF Put
  <2>10. /\ DOMAIN cache' = DOMAIN cache /\ cache'[Execution] = ca
         /\ \A id \in DOMAIN cache \ {Execution} : cache'[id] = cache[id]
    BY <1>7, <2>8 DEF Put
  <2>11. Completes
    BY <1>1, <1>2, <1>7, <2>3, <2>4, <2>5, <2>7, <2>9, <2>10 DEF Completes, EndStatus
  <2>12. PICK o : o = Success(Nothing)
    OBVIOUS
  <2>13. IsOutcome(o) /\ o # Suspended /\ Return(o) /\ o.ok /\ ReturnOK(handler[Turn], o)
    BY <1>1, <1>2, <1>7, <2>12, SuccessIs DEF ReturnOK
  <2>14. Returns(o)
    BY <1>1, <1>2, <2>13 DEF Returns, Return, SettledIn
  <2> QED
    BY <1>1, <1>3, <2>9, <2>11, <2>13, <2>14 DEF Moves, Return
<1> QED
  BY <1>1, <1>5, <1>6, <1>7 DEF CompleteItself

LEMMA HandlerMoves ==
  ASSUME OrchestratorInv, HandlerStep
  PROVE  Moves
BY ReplayMoves, BeginMoves, StepEndsMoves, ConditionMetMoves, ConditionNotMetMoves, SuspendMoves,
   CreateCallbackMoves, CompleteItselfMoves DEF HandlerStep

-----------------------------------------------------------------------------
(* The steps of the loop.                                                  *)

LoopIdles == \/ EndInvocation \/ FetchFirst \/ Finish \/ Fetch \/ GiveUp
             \/ FinishRecorded \/ LeaveRunning \/ Proceed \/ Poll \/ PollTimesOut

\* The handler is not running, and nothing happens to the operations.
Idles ==
  /\ phase \notin {"start", "end"} /\ pc = "call" /\ BodyOver(Frame)
  /\ phase' \in Phases \ {"start", "handler"}
  /\ polls' \in 0..MaxPolls
  /\ completed' = completed \/ (phase' = "end" /\ completed' = TRUE)
  /\ UNCHANGED <<operations, dirty, callbacks, handler, handles, invocations, cache, pc, results,
                 mark>>

LEMMA IdleIs ==
  ASSUME CourseInv, LoopIdles
  PROVE  Idles
<1>1. /\ polls \in 0..MaxPolls /\ pc \in {"call", "run"} /\ (pc = "run" => phase = "handler")
      /\ phase \in Phases \ {"start", "handler"} => BodyOver(Frame)
      /\ MaxPolls \in Nat
  BY LimitAssumption DEF CourseInv
<1> USE DEF Idles, Phases
<1>2. CASE EndInvocation
  BY <1>1, <1>2 DEF EndInvocation, CompleteInvocation
<1>3. CASE FetchFirst
  BY <1>1, <1>3 DEF FetchFirst
<1>4. CASE Finish
  BY <1>1, <1>4 DEF Finish, End, HandleCompleteExecution, CompleteExecution
<1>5. CASE Fetch
  BY <1>1, <1>5 DEF Fetch
<1>6. CASE GiveUp
  BY <1>1, <1>6 DEF GiveUp, End
<1>7. CASE FinishRecorded
  BY <1>1, <1>7 DEF FinishRecorded, End, HandleCompleteExecution, CompleteExecution
<1>8. CASE LeaveRunning
  BY <1>1, <1>8 DEF LeaveRunning, End
<1>9. CASE Proceed
  BY <1>1, <1>9 DEF Proceed
<1>10. CASE Poll
  BY <1>1, <1>10 DEF Poll
<1>11. CASE PollTimesOut
  BY <1>1, <1>11 DEF PollTimesOut, End
<1> QED
  BY <1>2, <1>3, <1>4, <1>5, <1>6, <1>7, <1>8, <1>9, <1>10, <1>11 DEF LoopIdles

\* A wait ends.
LEMMA ResolveIs ==
  ASSUME OrchestratorInv, ResolveWait
  PROVE  \E id \in DOMAIN operations \ {Execution} :
           /\ phase = "resolve" /\ id \in DOMAIN fetched /\ fetched[id].status = "STARTED"
           /\ operations[id].type = "WAIT" /\ operations[id].status = "STARTED"
           /\ DOMAIN operations' = DOMAIN operations
           /\ \A k \in DOMAIN operations \ {id} : operations'[k] = operations[k]
           /\ operations'[id].type = "WAIT" /\ operations'[id].status = "SUCCEEDED"
           /\ operations'[id].attempt = operations[id].attempt
           /\ operations'[id].scheduled = operations[id].scheduled
           /\ OpOK(id, operations'[id])
           /\ dirty' = dirty \cup {id}
           /\ history' = Append(history, Event("WaitSucceeded", id))
           /\ UNCHANGED <<open, callbacks, completed, handler, handles, loop, shared, cache, pc,
                          results, outcome>>
<1> USE DEF OrchestratorInv
<1>1. PICK id \in Unresolved :
        HandleUpdateCheckpointData(id, [fetched[id] EXCEPT !.status = "SUCCEEDED"])
  BY DEF ResolveWait
<1>2. /\ phase = "resolve" /\ id \in DOMAIN fetched
      /\ fetched[id].type = "WAIT" /\ fetched[id].status = "STARTED"
      /\ operations[id].status = "STARTED"
  BY <1>1 DEF Unresolved, WaitIsPending, ResolveWait
<1>3. /\ id \in DOMAIN operations /\ OpOK(id, fetched[id])
      /\ Behind(fetched[id], operations[id])
      /\ fetched[id].scheduled = operations[id].scheduled
  BY <1>2 DEF FetchInv
<1>4. /\ id # Execution /\ OpOfCall(id, fetched[id]) /\ IsOp(fetched[id])
      /\ fetched[id].attempt \in Nat
  BY <1>2, <1>3 DEF OpOK
<1>5. operations[id].type = "WAIT" /\ operations[id].attempt = fetched[id].attempt
  BY <1>2, <1>3 DEF Behind
<1>6. PICK old, op : old = fetched[id] /\ op = [old EXCEPT !.status = "SUCCEEDED"]
  OBVIOUS
<1>7. /\ operations' = Put(operations, id, op) /\ dirty' = dirty \cup {id}
      /\ op.type = "WAIT" /\ op.status = "SUCCEEDED" =>
           history' = Append(history, Event("WaitSucceeded", id))
      /\ UNCHANGED <<open, callbacks, completed>>
  BY <1>1, <1>2, <1>6 DEF HandleUpdateCheckpointData, UpdateOperationData
<1>8. /\ IsOp(op) /\ op.type = old.type /\ op.status = "SUCCEEDED"
      /\ op.attempt = old.attempt /\ op.scheduled = old.scheduled
  BY <1>4, <1>6 DEF IsOp
<1>9. handler[id].kind = "wait"
  BY <1>2, <1>4, CallIs DEF OpOfCall, Type, CourseInv
<1>10. OpOK(id, op)
  BY <1>2, <1>4, <1>6, <1>8, <1>9 DEF OpOK, OpOfCall, StepKinds
<1>11. /\ DOMAIN operations' = DOMAIN operations /\ operations'[id] = op
       /\ \A k \in DOMAIN operations \ {id} : operations'[k] = operations[k]
  BY <1>3, <1>7 DEF Put
<1>12. UNCHANGED <<handler, handles, loop, shared, cache, pc, results, outcome>>
  BY DEF ResolveWait
<1> QED
  BY <1>2, <1>3, <1>4, <1>5, <1>6, <1>7, <1>8, <1>10, <1>11, <1>12

\* A callback is answered.
LEMMA AnswerIs ==
  ASSUME OrchestratorInv, Answer
  PROVE  \E id \in DOMAIN operations \ {Execution} :
           /\ operations[id].type = "CALLBACK" /\ operations[id].status = "STARTED"
           /\ DOMAIN operations' = DOMAIN operations
           /\ \A k \in DOMAIN operations \ {id} : operations'[k] = operations[k]
           /\ operations'[id].type = "CALLBACK"
           /\ operations'[id].status \in {"SUCCEEDED", "FAILED"}
           /\ operations'[id].attempt = operations[id].attempt
           /\ operations'[id].scheduled = operations[id].scheduled
           /\ OpOK(id, operations'[id])
           /\ dirty' = dirty \cup {id}
           /\ DOMAIN callbacks' = DOMAIN callbacks /\ callbacks'[id] # "open"
           /\ \A k \in DOMAIN callbacks \ {id} : callbacks'[k] = callbacks[k]
           /\ UNCHANGED <<open, completed, history, handler, handles, loop, shared, cache, pc,
                          results, outcome>>
<1> USE DEF OrchestratorInv
<1>1. PICK id : HandleCallbackSuccess(id, A) \/ HandleCallbackFailure(id)
  BY DEF Answer
<1>2. id \in DOMAIN callbacks /\ callbacks[id] = "open"
  BY <1>1 DEF HandleCallbackSuccess, HandleCallbackFailure, SendSuccess, SendFailure
<1>3. /\ id \in DOMAIN operations /\ operations[id].type = "CALLBACK"
      /\ operations[id].status = "STARTED"
  BY <1>2 DEF OperationsInv
<1>4. id # Execution /\ OpOfCall(id, operations[id]) /\ IsOp(operations[id])
      /\ operations[id].attempt \in Nat
  BY <1>3 DEF OperationsInv, OpOK
<1>5. PICK ok \in BOOLEAN :
        operations' = [operations EXCEPT ![id].status = IF ok THEN "SUCCEEDED" ELSE "FAILED",
                                         ![id].value = IF ok THEN A ELSE @]
  <2>1. CASE HandleCallbackSuccess(id, A)
    BY <2>1 DEF HandleCallbackSuccess, CompleteCallbackOperation, Success
  <2>2. CASE HandleCallbackFailure(id)
    BY <2>2 DEF HandleCallbackFailure, CompleteCallbackOperation, Failed
  <2> QED
    BY <1>1, <2>1, <2>2
<1>6. PICK op, old : /\ old = operations[id]
                     /\ op = [old EXCEPT !.status = IF ok THEN "SUCCEEDED" ELSE "FAILED",
                                         !.value = IF ok THEN A ELSE @]
  OBVIOUS
<1>7. /\ DOMAIN operations' = DOMAIN operations /\ operations'[id] = op
      /\ \A k \in DOMAIN operations \ {id} : operations'[k] = operations[k]
  BY <1>3, <1>4, <1>5, <1>6 DEF IsOp
<1>8. /\ IsOp(op) /\ op.type = old.type /\ op.attempt = old.attempt
      /\ op.scheduled = old.scheduled /\ op.status \in {"SUCCEEDED", "FAILED"}
      /\ op.status = "SUCCEEDED" => op.value = A
  BY <1>4, <1>6 DEF IsOp
<1>9. A # Nothing
  BY DEF A, Nothing
<1>10. handler[id].kind = "callback"
  BY <1>3, <1>4, CallIs DEF OpOfCall, Type, CourseInv
<1>11. OpOK(id, op)
  BY <1>4, <1>6, <1>8, <1>9, <1>10 DEF OpOK, OpOfCall, StepKinds
<1>12. /\ DOMAIN callbacks' = DOMAIN callbacks /\ callbacks'[id] # "open"
       /\ \A k \in DOMAIN callbacks \ {id} : callbacks'[k] = callbacks[k]
       /\ dirty' = dirty \cup {id} /\ UNCHANGED <<open, completed, history>>
  BY <1>1, <1>2 DEF HandleCallbackSuccess, HandleCallbackFailure, SendSuccess, SendFailure,
                    CompleteCallbackOperation
<1>13. UNCHANGED <<handler, handles, loop, shared, cache, pc, results, outcome>>
  BY DEF Answer
<1>14. /\ operations'[id].type = "CALLBACK" /\ operations'[id].status \in {"SUCCEEDED", "FAILED"}
       /\ operations'[id].attempt = operations[id].attempt
       /\ operations'[id].scheduled = operations[id].scheduled
       /\ OpOK(id, operations'[id])
  BY <1>3, <1>6, <1>7, <1>8, <1>11
<1>15. id \in DOMAIN operations \ {Execution}
  BY <1>3, <1>4
<1> QED
  BY <1>3, <1>7, <1>12, <1>13, <1>14, <1>15

\* The steps there are.
LEMMA StepsAre ==
  ASSUME OrchestratorInv, [Next]_vars
  PROVE  \/ Moves \/ Start \/ (Idles /\ LoopIdles) \/ ResolveWait \/ Reinvoke \/ Answer
         \/ UNCHANGED vars
BY HandlerMoves, IdleIs DEF Next, LoopStep, LoopIdles, OrchestratorInv

-----------------------------------------------------------------------------
(* CourseInv.                                                              *)

LEMMA SameCourse ==
  ASSUME UNCHANGED <<handler, results>>
  PROVE  Turn' = Turn /\ BodyOver(Frame)' = BodyOver(Frame)
BY DEF Turn, BodyOver, Frame

LEMMA CourseMoves ==
  ASSUME CourseInv, OperationsInv, Moves
  PROVE  CourseInv'
<1>1. /\ phase = "handler" /\ ~BodyOver(Frame)
      /\ UNCHANGED <<handler, handles, loop, shared, outcome>>
      /\ RunsCode \/ \E o : Returns(o)
  BY DEF Moves
<1>2. CASE RunsCode
  <2>1. Turn' = Turn /\ BodyOver(Frame)' = BodyOver(Frame) /\ results' = results /\ pc' = "run"
    BY <1>1, <1>2, SameCourse DEF RunsCode
  <2> QED
    BY <1>1, <1>2, <2>1 DEF CourseInv, RunsCode
<1>3. ASSUME NEW o, Returns(o)
      PROVE  CourseInv'
  <2>1. /\ Len(results) \in Nat /\ Turn \in 1..Len(handler) /\ Turn = Len(results) + 1
        /\ \A n \in 1..Len(results) : GoesOn(handler[n], results[n])
        /\ Len(handler) \in Nat
    BY <1>1, TurnIs, HandlerIs DEF CourseInv
  <2>2. pc' = "call" /\ results' = Append(results, o) /\ IsOutcome(o)
    BY <1>3 DEF Returns
  <2>3. /\ IsSeq(results') /\ Len(results') = Turn
        /\ \A i \in 1..Len(results) : results'[i] = results[i]
        /\ results'[Turn] = o
    BY <2>1, <2>2, AppendIs DEF CourseInv
  <2>4. \A n \in 1..Len(results') : /\ IsOutcome(results'[n])
                                    /\ n < Len(results') => GoesOn(handler[n], results'[n])
    <3> SUFFICES ASSUME NEW n \in 1..Len(results')
                 PROVE  /\ IsOutcome(results'[n])
                        /\ n < Len(results') => GoesOn(handler[n], results'[n])
      OBVIOUS
    <3>1. CASE n \in 1..Len(results)
      BY <2>1, <2>3, <3>1 DEF CourseInv
    <3>2. CASE n = Turn
      BY <2>2, <2>3, <3>2
    <3> QED
      BY <2>1, <2>3, <3>1, <3>2
  <2> QED
    BY <1>1, <2>1, <2>2, <2>3, <2>4 DEF CourseInv
<1> QED
  BY <1>1, <1>2, <1>3

LEMMA CourseStays ==
  ASSUME CourseInv, UNCHANGED <<handler, invocations, pc, results>>, polls' \in 0..MaxPolls,
         phase' \in Phases, phase' # "start" /\ phase # "start",
         phase' = "handler" \/ (pc = "call" /\ BodyOver(Frame)),
         pc = "run" => /\ phase' = phase
                       /\ DOMAIN operations' = DOMAIN operations
                       /\ Turn \in DOMAIN operations => operations'[Turn] = operations[Turn]
  PROVE  CourseInv'
<1>1. Turn' = Turn /\ BodyOver(Frame)' = BodyOver(Frame)
  BY SameCourse
<1> QED
  BY <1>1 DEF CourseInv

LEMMA CourseHolds ==
  ASSUME OrchestratorInv, [Next]_vars
  PROVE  CourseInv'
<1> USE DEF OrchestratorInv
<1>1. /\ polls \in 0..MaxPolls /\ phase \in Phases /\ pc \in {"call", "run"}
      /\ pc = "run" => phase = "handler" /\ handler[Turn].kind \in StepKinds \cup {"condition"}
      /\ phase \in Phases \ {"start", "handler"} => BodyOver(Frame)
      /\ "handler" \in Phases /\ "start" \notin Phases \ {"start"}
  BY DEF CourseInv, Phases
<1>2. CASE Moves
  BY <1>2, CourseMoves
<1>3. CASE Start
  <2>1. /\ invocations = 0 /\ invocations' = 1 /\ phase' = "handler" /\ pc = "call"
        /\ results = <<>>
        /\ UNCHANGED <<handler, polls, pc, results>>
    BY <1>1, <1>3 DEF Start, CourseInv
  <2>2. Turn' = Turn /\ BodyOver(Frame)' = BodyOver(Frame)
    BY <2>1, SameCourse
  <2> QED
    BY <1>1, <2>1, <2>2 DEF CourseInv
<1>4. CASE Idles
  <2>1. /\ phase \notin {"start", "end"} /\ pc = "call" /\ BodyOver(Frame)
        /\ phase' \in Phases \ {"start", "handler"} /\ polls' \in 0..MaxPolls
        /\ UNCHANGED <<handler, invocations, pc, results>>
    BY <1>4 DEF Idles
  <2> QED
    BY <2>1, CourseStays
<1>5. CASE ResolveWait
  <2>1. /\ phase = "resolve" /\ UNCHANGED <<handler, loop, pc, results>>
    BY <1>5 DEF ResolveWait
  <2>2. BodyOver(Frame) /\ pc = "call"
    BY <1>1, <2>1 DEF Phases
  <2> QED
    BY <1>1, <2>1, <2>2, CourseStays
<1>6. CASE Reinvoke
  <2>1. /\ phase \in {"resolve", "reinvoke"} /\ phase' = "handler" /\ invocations' = invocations + 1
        /\ results' = <<>> /\ UNCHANGED <<handler, polls, pc>>
    BY <1>6 DEF Reinvoke
  <2>2. pc = "call" /\ invocations \in Nat
    BY <1>1, <2>1 DEF CourseInv
  <2>3. IsSeq(results') /\ Len(results') = 0 /\ Len(handler) \in Nat
    BY <2>1, EmptyIs, HandlerIs DEF CourseInv
  <2> QED
    BY <1>1, <2>1, <2>2, <2>3 DEF CourseInv
<1>7. CASE Answer
  <2>1. PICK id \in DOMAIN operations \ {Execution} :
           /\ operations[id].type = "CALLBACK"
           /\ DOMAIN operations' = DOMAIN operations
           /\ \A k \in DOMAIN operations \ {id} : operations'[k] = operations[k]
           /\ UNCHANGED <<handler, handles, loop, shared, cache, pc, results, outcome>>
    BY <1>7, AnswerIs
  <2>2. phase # "start"
    BY <2>1 DEF OperationsInv
  <2>3. pc = "run" => id # Turn
    <3> SUFFICES ASSUME pc = "run", id = Turn
                 PROVE  FALSE
      OBVIOUS
    <3>1. OpOfCall(Turn, operations[Turn])
      BY <2>1 DEF OperationsInv, OpOK
    <3> QED
      BY <1>1, <2>1, <3>1 DEF OpOfCall, Type, StepKinds
  <2>4. phase = "handler" \/ (pc = "call" /\ BodyOver(Frame))
    BY <1>1, <2>2
  <2> QED
    BY <1>1, <2>1, <2>2, <2>3, <2>4, CourseStays
<1>8. CASE UNCHANGED vars
  <2>1. Turn' = Turn /\ BodyOver(Frame)' = BodyOver(Frame)
    BY <1>8, SameCourse
  <2> QED
    BY <1>8, <2>1 DEF CourseInv
<1> QED
  BY <1>2, <1>3, <1>4, <1>5, <1>6, <1>7, <1>8, StepsAre

-----------------------------------------------------------------------------
(* OperationsInv.                                                          *)

\* The ids there are.
LEMMA IdsAre ==
  ASSUME CourseInv, OperationsInv, NEW id \in DOMAIN operations
  PROVE  /\ id \in Nat /\ (id = Execution <=> id \notin 1..Len(handler)) /\ Len(handler) \in Nat
         /\ id # Execution => OpOfCall(id, operations[id])
         /\ operations[id].attempt \in Nat /\ IsOp(operations[id])
<1>1. OpOK(id, operations[id]) /\ Len(handler) \in Nat
  BY HandlerIs DEF OperationsInv, CourseInv
<1>2. id # Execution => OpOfCall(id, operations[id]) /\ id \in 1..Len(handler)
  BY <1>1 DEF OpOK, OpOfCall
<1> QED
  BY <1>1, <1>2 DEF OpOK, Execution

LEMMA OperationsMoves ==
  ASSUME CourseInv, OperationsInv, Moves
  PROVE  OperationsInv'
<1>1. /\ phase = "handler" /\ ~BodyOver(Frame)
      /\ UNCHANGED <<handler, handles, loop, shared, outcome>>
      /\ RunsCode \/ \E o : Returns(o)
      /\ /\ Turn \in DOMAIN operations' /\ operations'[Turn].type = "STEP"
         /\ operations'[Turn].status = "STARTED"
         => pc' = "run"
  BY DEF Moves
<1>2. Turn \in 1..Len(handler) /\ Turn # Execution /\ Execution \in DOMAIN operations
  BY <1>1, TurnIs, HandlerIs DEF CourseInv, Execution, OperationsInv
<1>3. pc' = "run" => Turn' = Turn
  BY <1>1 DEF RunsCode, Returns, Turn
<1>4. /\ \A id \in DOMAIN operations' : OpOK(id, operations'[id])
      /\ \A id \in DOMAIN operations' \ {Turn} :
           operations'[id].type = "STEP" /\ operations'[id].status = "STARTED" =>
             id \in DOMAIN operations /\ operations[id] = operations'[id]
      /\ Execution \in DOMAIN operations'
      /\ completed' <=> operations'[Execution].status # "STARTED"
      /\ completed' \in BOOLEAN
      /\ dirty' \subseteq DOMAIN operations'
      /\ \A id \in DOMAIN callbacks' :
           /\ id \in DOMAIN operations' /\ operations'[id].type = "CALLBACK"
           /\ callbacks'[id] = "open" => operations'[id].status = "STARTED"
  <2>1. CASE UNCHANGED <<server, cache>>
    BY <1>1, <1>2, <2>1 DEF OperationsInv
  <2>2. ASSUME NEW op, Writes(op)
        PROVE  <1>4!:
    <3>1. OpOK(Turn, op)
      BY <1>2, <2>2 DEF Writes, OpOK
    <3>2. \A id \in DOMAIN operations' : OpOK(id, operations'[id])
      BY <2>2, <3>1 DEF OperationsInv, Writes
    <3>3. \A id \in DOMAIN operations' \ {Turn} :
            id \in DOMAIN operations /\ operations[id] = operations'[id]
      BY <2>2 DEF Writes
    <3>4. /\ Execution \in DOMAIN operations' /\ operations'[Execution] = operations[Execution]
          /\ completed' = completed /\ dirty' = {}
      BY <1>2, <2>2 DEF Writes
    <3>5. Turn \in DOMAIN operations => operations[Turn].type # "CALLBACK"
      <4> HAVE Turn \in DOMAIN operations
      <4>1. OpOK(Turn, operations[Turn]) /\ op.type # "CALLBACK"
        BY <2>2 DEF OperationsInv, Writes
      <4> QED
        BY <1>2, <3>1, <4>1 DEF OpOK, OpOfCall
    <3>6. \A id \in DOMAIN callbacks' :
             /\ id \in DOMAIN operations' /\ operations'[id].type = "CALLBACK"
             /\ callbacks'[id] = "open" => operations'[id].status = "STARTED"
      <4> SUFFICES ASSUME NEW id \in DOMAIN callbacks'
                   PROVE  /\ id \in DOMAIN operations' /\ operations'[id].type = "CALLBACK"
                          /\ callbacks'[id] = "open" => operations'[id].status = "STARTED"
        OBVIOUS
      <4>1. CASE id \in DOMAIN callbacks /\ callbacks'[id] = callbacks[id]
        <5>1. /\ id \in DOMAIN operations /\ operations[id].type = "CALLBACK" /\ id # Turn
              /\ callbacks[id] = "open" => operations[id].status = "STARTED"
          BY <3>5, <4>1 DEF OperationsInv
        <5> QED
          BY <2>2, <4>1, <5>1 DEF Writes
      <4>2. CASE id = Turn /\ op.type = "CALLBACK" /\ op.status = "STARTED"
        BY <2>2, <4>2 DEF Writes
      <4> QED
        BY <2>2, <4>1, <4>2 DEF Writes
    <3> QED
      BY <1>1, <3>2, <3>3, <3>4, <3>6 DEF OperationsInv
  <2>3. CASE Completes
    <3>1. \A id \in DOMAIN operations' : OpOK(id, operations'[id])
      BY <2>3 DEF Completes, OperationsInv
    <3>2. operations'[Execution].type = "EXECUTION" /\ operations[Execution].type = "EXECUTION"
      BY <1>2, <2>3 DEF Completes, OperationsInv, OpOK
    <3> QED
      BY <1>1, <1>2, <2>3, <3>1, <3>2 DEF OperationsInv, Completes
  <2> QED
    BY <2>1, <2>2, <2>3 DEF Moves
<1>5. \A id \in DOMAIN operations' : OpOK(id, operations[id])'
  BY <1>1, <1>4 DEF OpOK, OpOfCall, IsOp
<1>6. \A id \in DOMAIN operations' :
        operations'[id].type = "STEP" /\ operations'[id].status = "STARTED" =>
          pc' = "run" /\ id = Turn'
  <2> SUFFICES ASSUME NEW id \in DOMAIN operations',
                      operations'[id].type = "STEP", operations'[id].status = "STARTED"
               PROVE  pc' = "run" /\ id = Turn'
    OBVIOUS
  <2>1. id = Turn
    BY <1>4 DEF OperationsInv
  <2> QED
    BY <1>1, <1>3, <2>1
<1> QED
  BY <1>1, <1>4, <1>5, <1>6 DEF OperationsInv

\* When one operation that is a wait or a callback ends.
OneEnds(id) ==
  /\ id \in DOMAIN operations \ {Execution} /\ operations[id].type \in {"WAIT", "CALLBACK"}
  /\ operations[id].status = "STARTED"
  /\ DOMAIN operations' = DOMAIN operations
  /\ \A k \in DOMAIN operations \ {id} : operations'[k] = operations[k]
  /\ operations'[id].type = operations[id].type
  /\ operations'[id].status \in {"SUCCEEDED", "FAILED"}
  /\ operations'[id].attempt = operations[id].attempt
  /\ operations'[id].scheduled = operations[id].scheduled
  /\ OpOK(id, operations'[id])
  /\ dirty' = dirty \cup {id}
  /\ UNCHANGED <<open, completed, handler, handles, loop, shared, cache, pc, results, outcome>>

LEMMA OneEndsIs ==
  ASSUME OrchestratorInv, ResolveWait \/ Answer
  PROVE  \E id \in DOMAIN operations :
           /\ OneEnds(id)
           /\ \/ /\ UNCHANGED callbacks /\ phase = "resolve" /\ operations[id].type = "WAIT"
                 /\ history' = Append(history, Event("WaitSucceeded", id))
                 /\ operations'[id].status = "SUCCEEDED"
                 /\ fetched[id].status = "STARTED"
              \/ /\ UNCHANGED history /\ operations[id].type = "CALLBACK"
                 /\ DOMAIN callbacks' = DOMAIN callbacks /\ callbacks'[id] # "open"
                 /\ \A k \in DOMAIN callbacks \ {id} : callbacks'[k] = callbacks[k]
<1>1. CASE ResolveWait
  BY <1>1, ResolveIs DEF OneEnds
<1>2. CASE Answer
  BY <1>2, AnswerIs DEF OneEnds
<1> QED
  BY <1>1, <1>2

LEMMA OperationsHold ==
  ASSUME OrchestratorInv, [Next]_vars
  PROVE  OperationsInv'
<1> USE DEF OrchestratorInv
<1>1. CASE Moves
  BY <1>1, OperationsMoves
<1>2. CASE Start
  <2>1. /\ phase = "start" /\ phase' = "handler"
        /\ operations' = Put(<<>>, Execution,
                             CreatedFrom(Update(Execution, "EXECUTION", "START", A, 0)))
        /\ dirty' = {} /\ callbacks' = <<>> /\ completed' = FALSE
    BY <1>2 DEF Start, StartExecution
  <2>2. PICK op : op = CreatedFrom(Update(Execution, "EXECUTION", "START", A, 0))
    OBVIOUS
  <2>3. /\ IsOp(op) /\ op.type = "EXECUTION" /\ op.status = StatusOf["START"] /\ op.attempt = 0
        /\ op.scheduled = ("EXECUTION" = "WAIT" \/ "START" = "RETRY")
    BY <2>2, CreatedIs
  <2>4. op.status = "STARTED" /\ op.scheduled = FALSE
    BY <2>3 DEF StatusOf
  <2>5. DOMAIN operations' = {Execution} /\ operations'[Execution] = op
    <3>1. operations' = Put(<<>>, Execution, op)
      BY <2>1, <2>2
    <3> QED
      BY <3>1 DEF Put
  <2>6. OpOK(Execution, operations[Execution])'
    BY <2>3, <2>4, <2>5 DEF OpOK, IsOp
  <2>7. \A id \in DOMAIN operations' :
          /\ OpOK(id, operations[id])'
          /\ operations'[id].type # "STEP"
    BY <2>3, <2>5, <2>6
  <2>8. DOMAIN callbacks' = {}
    BY <2>1
  <2> QED
    BY <2>1, <2>4, <2>5, <2>7, <2>8 DEF OperationsInv
<1>3. CASE Idles
  <2>1. /\ phase \notin {"start", "end"} /\ phase' # "start"
        /\ completed' = completed \/ (phase' = "end" /\ completed' = TRUE)
        /\ UNCHANGED <<operations, dirty, callbacks, handler, pc, results>>
    BY <1>3 DEF Idles, Phases
  <2>2. \A id \in DOMAIN operations' :
          /\ OpOK(id, operations[id])'
          /\ operations'[id].type = "STEP" /\ operations'[id].status = "STARTED" =>
               pc' = "run" /\ id = Turn'
    BY <2>1 DEF OperationsInv, OpOK, OpOfCall, IsOp, Turn
  <2>3. /\ phase' # "end" => (completed' <=> operations'[Execution].status # "STARTED")
        /\ completed' \in BOOLEAN
    <3>1. /\ completed \in BOOLEAN
          /\ completed <=> operations[Execution].status # "STARTED"
          /\ operations' = operations
      BY <2>1 DEF OperationsInv
    <3>2. CASE completed' = completed
      BY <3>1, <3>2, Zenon
    <3>3. CASE phase' = "end" /\ completed' = TRUE
      BY <3>3
    <3> QED
      BY <2>1, <3>2, <3>3
  <2>4. \A id \in DOMAIN callbacks' :
           /\ id \in DOMAIN operations' /\ operations'[id].type = "CALLBACK"
           /\ callbacks'[id] = "open" => operations'[id].status = "STARTED"
    BY <2>1 DEF OperationsInv
  <2>5. Execution \in DOMAIN operations' /\ dirty' \subseteq DOMAIN operations'
    BY <2>1 DEF OperationsInv
  <2> QED
    BY <2>1, <2>2, <2>3, <2>4, <2>5 DEF OperationsInv
<1>4. CASE ResolveWait \/ Answer
  <2>1. PICK id \in DOMAIN operations :
           /\ OneEnds(id)
           /\ \/ UNCHANGED callbacks /\ operations[id].type = "WAIT"
              \/ /\ operations[id].type = "CALLBACK"
                 /\ DOMAIN callbacks' = DOMAIN callbacks /\ callbacks'[id] # "open"
                 /\ \A k \in DOMAIN callbacks \ {id} : callbacks'[k] = callbacks[k]
    BY <1>4, OneEndsIs
  <2>2. \A k \in DOMAIN operations' : OpOK(k, operations'[k])
    BY <2>1 DEF OperationsInv, OneEnds
  <2>3. \A k \in DOMAIN operations' : OpOK(k, operations[k])'
    BY <2>1, <2>2 DEF OneEnds, OpOK, OpOfCall, IsOp
  <2>4. \A k \in DOMAIN callbacks' :
           /\ k \in DOMAIN operations' /\ operations'[k].type = "CALLBACK"
           /\ callbacks'[k] = "open" => operations'[k].status = "STARTED"
    BY <2>1 DEF OperationsInv, OneEnds
  <2>5. \A k \in DOMAIN operations' :
          operations'[k].type = "STEP" /\ operations'[k].status = "STARTED" =>
            pc' = "run" /\ k = Turn'
    BY <2>1 DEF OperationsInv, OneEnds, Turn
  <2>6. phase # "start" /\ phase' = phase
    BY <2>1 DEF OperationsInv, OneEnds
  <2>7. /\ completed' = completed /\ operations'[Execution] = operations[Execution]
        /\ Execution \in DOMAIN operations'
        /\ dirty' \subseteq DOMAIN operations'
    BY <2>1, <2>6 DEF OperationsInv, OneEnds
  <2> QED
    BY <2>3, <2>4, <2>5, <2>6, <2>7 DEF OperationsInv
<1>5. CASE Reinvoke
  <2>1. /\ phase \in {"reinvoke", "resolve"} /\ phase' = "handler" /\ dirty' = {}
        /\ UNCHANGED <<operations, callbacks, completed, handler, pc>>
    BY <1>5 DEF Reinvoke, StartInvocation
  <2>2. pc = "call"
    BY <2>1 DEF CourseInv
  <2>3. \A k \in DOMAIN operations' :
          operations'[k].type = "STEP" => operations'[k].status # "STARTED"
    BY <2>1, <2>2 DEF OperationsInv
  <2> QED
    BY <2>1, <2>3 DEF OperationsInv, OpOK, OpOfCall, IsOp
<1>6. CASE UNCHANGED vars
  BY <1>6 DEF OperationsInv, OpOK, OpOfCall, IsOp, Turn
<1> QED
  BY <1>1, <1>2, <1>3, <1>4, <1>5, <1>6, StepsAre

-----------------------------------------------------------------------------
(* CacheInv.                                                               *)

LEMMA CacheMoves ==
  ASSUME CourseInv, OperationsInv, CacheInv, Moves
  PROVE  CacheInv'
<1>1. phase = "handler" /\ phase' = "handler" /\ ~BodyOver(Frame)
  BY DEF Moves
<1>2. Turn \in 1..Len(handler) /\ Turn # Execution /\ Execution \in DOMAIN operations
  BY <1>1, TurnIs, HandlerIs DEF CourseInv, Execution, OperationsInv
<1>3. CASE UNCHANGED <<server, cache>>
  BY <1>1, <1>3 DEF CacheInv, Behind
<1>4. ASSUME NEW op, Writes(op)
      PROVE  CacheInv'
  <2>1. /\ DOMAIN cache' \subseteq DOMAIN operations'
        /\ DOMAIN operations' \ {Execution} \subseteq DOMAIN cache'
    BY <1>4 DEF Writes, CacheInv
  <2>2. ASSUME NEW id \in DOMAIN cache'
        PROVE  /\ Fields \subseteq DOMAIN cache'[id]
               /\ Behind(cache'[id], operations'[id])
               /\ operations'[id].type = "WAIT" => cache'[id].status = operations'[id].status
               /\ cache'[id].type = "CALLBACK" /\ cache'[id].status = "SUCCEEDED" =>
                    cache'[id].value # Nothing
    <3>1. CASE id = Turn
      BY <1>4, <3>1 DEF Writes, Behind, Fields
    <3>2. CASE id # Turn /\ id \in DOMAIN cache /\ cache'[id] = cache[id]
      <4>1. operations'[id] = operations[id]
        BY <1>4, <3>2 DEF Writes, CacheInv
      <4> QED
        BY <1>1, <3>2, <4>1 DEF CacheInv, Fields
    <3>3. CASE id # Turn /\ id \in DOMAIN operations /\ cache'[id] = operations[id]
      <4>1. operations'[id] = operations[id]
        BY <1>4, <3>3 DEF Writes
      <4>2. /\ IsOp(operations[id])
            /\ id # Execution => OpOfCall(id, operations[id])
            /\ id = Execution => operations[id].type = "EXECUTION"
        BY <3>3 DEF OperationsInv, OpOK
      <4>3. Fields \subseteq DOMAIN operations[id]
        BY <4>2 DEF IsOp, Fields
      <4>4. operations[id].type = "CALLBACK" /\ operations[id].status = "SUCCEEDED" =>
              operations[id].value # Nothing
        BY <4>2, CallIs DEF OpOfCall, Type, CourseInv
      <4> QED
        BY <3>3, <4>1, <4>3, <4>4 DEF Behind
    <3> QED
      BY <1>4, <3>1, <3>2, <3>3 DEF Writes
  <2> QED
    BY <1>1, <2>1, <2>2 DEF CacheInv, Behind, Fields
<1>5. CASE Completes
  <2>1. operations'[Execution].type = "EXECUTION" /\ operations'[Execution].attempt = 0
    BY <1>5 DEF Completes, OpOK
  <2> QED
    BY <1>1, <1>5, <2>1 DEF Completes, CacheInv, Behind
<1> QED
  BY <1>3, <1>4, <1>5 DEF Moves

LEMMA CacheHolds ==
  ASSUME OrchestratorInv, [Next]_vars
  PROVE  CacheInv'
<1> USE DEF OrchestratorInv
<1>1. CASE Moves
  BY <1>1, CacheMoves
<1>2. CASE Start
  <2>1. phase = "start" /\ operations' = Put(<<>>, Execution,
                CreatedFrom(Update(Execution, "EXECUTION", "START", A, 0))) /\ cache' = cache
    BY <1>2 DEF Start, StartExecution
  <2>2. DOMAIN operations' = {Execution}
    BY <2>1 DEF Put
  <2>3. DOMAIN cache' = {}
    BY <2>1 DEF CacheInv, OperationsInv
  <2> QED
    BY <2>2, <2>3 DEF CacheInv
<1>3. CASE Idles
  BY <1>3 DEF Idles, CacheInv, Behind
<1>4. CASE ResolveWait \/ Answer
  <2>1. PICK id \in DOMAIN operations :
           /\ OneEnds(id)
           /\ \/ phase = "resolve" /\ operations[id].type = "WAIT"
              \/ operations[id].type = "CALLBACK"
    BY <1>4, OneEndsIs
  <2>2. ASSUME NEW k \in DOMAIN cache
        PROVE  /\ Fields \subseteq DOMAIN cache[k]
               /\ Behind(cache[k], operations'[k])
               /\ phase = "handler" /\ operations'[k].type = "WAIT" =>
                    cache[k].status = operations'[k].status
               /\ cache[k].type = "CALLBACK" /\ cache[k].status = "SUCCEEDED" =>
                    cache[k].value # Nothing
    <3>1. CASE k = id
      <4>1. Behind(cache[id], operations[id]) /\ id \in DOMAIN operations
        BY <3>1 DEF CacheInv
      <4>2. cache[id].status = "STARTED"
        BY <2>1, <4>1 DEF OneEnds, Behind, Terminal
      <4> QED
        BY <2>1, <2>2, <3>1, <4>1, <4>2 DEF OneEnds, CacheInv, Fields, Behind, Terminal
    <3>2. CASE k # id
      BY <2>1, <2>2, <3>2 DEF OneEnds, CacheInv, Fields
    <3> QED
      BY <3>1, <3>2
  <2>3. cache' = cache /\ phase' = phase /\ DOMAIN operations' = DOMAIN operations
    BY <2>1 DEF OneEnds
  <2> QED
    BY <2>2, <2>3 DEF CacheInv, Behind, Fields
<1>5. CASE Reinvoke
  <2>1. cache' = operations /\ operations' = operations
    BY <1>5 DEF Reinvoke, StartInvocation
  <2>2. ASSUME NEW id \in DOMAIN operations
        PROVE  /\ Fields \subseteq DOMAIN operations[id]
               /\ operations[id].type = "CALLBACK" /\ operations[id].status = "SUCCEEDED" =>
                    operations[id].value # Nothing
    <3>1. /\ IsOp(operations[id])
          /\ id # Execution => OpOfCall(id, operations[id])
          /\ id = Execution => operations[id].type = "EXECUTION"
      BY <2>2 DEF OperationsInv, OpOK
    <3>2. Fields \subseteq DOMAIN operations[id]
      BY <3>1 DEF IsOp, Fields
    <3> QED
      BY <3>1, <3>2, CallIs DEF OpOfCall, Type, CourseInv
  <2> QED
    BY <2>1, <2>2 DEF CacheInv, Behind, Fields
<1>6. CASE UNCHANGED vars
  BY <1>6 DEF CacheInv, Behind
<1> QED
  BY <1>1, <1>2, <1>3, <1>4, <1>5, <1>6, StepsAre

-----------------------------------------------------------------------------
(* ReachedInv.                                                             *)

\* What is settled stays so.
LEMMA SettledStays ==
  ASSUME CourseInv, NEW c, NEW d, DOMAIN c \subseteq DOMAIN d,
         \A id \in DOMAIN c :
           c[id].status \in {"SUCCEEDED", "FAILED"} => d[id].status \in {"SUCCEEDED", "FAILED"},
         NEW n, SettledIn(c, n)
  PROVE  SettledIn(d, n)
BY DEF SettledIn

LEMMA MovesSettle ==
  ASSUME CourseInv, OperationsInv, CacheInv, Moves, NEW n, SettledIn(cache, n)
  PROVE  SettledIn(cache', n)
<1>1. /\ DOMAIN cache \subseteq DOMAIN cache'
      /\ \A id \in DOMAIN cache :
           cache[id].status \in {"SUCCEEDED", "FAILED"} =>
             cache'[id].status \in {"SUCCEEDED", "FAILED"}
  <2>1. CASE UNCHANGED <<server, cache>>
    BY <2>1
  <2>2. ASSUME NEW op, Writes(op)
        PROVE  /\ DOMAIN cache \subseteq DOMAIN cache'
               /\ \A id \in DOMAIN cache :
                    cache[id].status \in {"SUCCEEDED", "FAILED"} =>
                      cache'[id].status \in {"SUCCEEDED", "FAILED"}
    <3>1. DOMAIN cache \subseteq DOMAIN cache'
      BY <2>2 DEF Writes
    <3>2. ASSUME NEW id \in DOMAIN cache, cache[id].status \in {"SUCCEEDED", "FAILED"}
          PROVE  cache'[id].status \in {"SUCCEEDED", "FAILED"}
      <4>1. id \in DOMAIN operations /\ operations[id].status = cache[id].status
        BY <3>2 DEF CacheInv, Behind
      <4>2. id # Turn
        BY <2>2, <3>2, <4>1 DEF Writes
      <4> QED
        BY <2>2, <3>1, <3>2, <4>1, <4>2 DEF Writes
    <3> QED
      BY <3>1, <3>2
  <2>3. CASE Completes
    BY <2>3 DEF Completes
  <2> QED
    BY <2>1, <2>2, <2>3 DEF Moves
<1>2. PICK d : d = cache'
  OBVIOUS
<1> QED
  BY <1>1, <1>2, SettledStays

LEMMA ReachedMoves ==
  ASSUME CourseInv, OperationsInv, CacheInv, ReachedInv, Moves
  PROVE  ReachedInv'
<1>1. /\ phase = "handler" /\ ~BodyOver(Frame) /\ handler' = handler
      /\ RunsCode \/ \E o : Returns(o)
  BY DEF Moves
<1>2. /\ Len(results) \in Nat /\ Turn \in 1..Len(handler) /\ Turn = Len(results) + 1
      /\ \A n \in 1..Len(results) : GoesOn(handler[n], results[n])
  BY <1>1, TurnIs
<1>3. \A k \in DOMAIN operations' : k \in DOMAIN operations \/ k = Turn
  BY DEF Moves, Writes, Completes
<1>4. \A n \in 1..Len(results) : SettledIn(cache', n) \/ GoesOn(handler[n], Suspended)
  BY <1>2, MovesSettle DEF ReachedInv, Settled
<1>5. ASSUME NEW k \in DOMAIN operations', NEW n \in 1..(k - 1)
      PROVE  SettledIn(cache', n) \/ GoesOn(handler[n], Suspended)
  <2>1. CASE k = Turn
    BY <1>2, <1>4, <2>1
  <2>2. CASE k \in DOMAIN operations
    BY <2>2, MovesSettle DEF ReachedInv, Settled
  <2> QED
    BY <1>3, <2>1, <2>2
<1>6. CASE RunsCode
  <2>1. results' = results
    BY <1>6 DEF RunsCode
  <2>2. \A n \in 1..Len(results) :
          \/ SettledIn(cache', n)
          \/ /\ results[n] = Suspended
             /\ handler[n].kind \notin StepKinds \cup {"callback", "complete"}
    BY MovesSettle DEF ReachedInv, Settled
  <2>3. Len(results) > 0 /\ results[Len(results)] = Suspended =>
          GoesOn(handler[Len(results)], Suspended)
    BY <1>2
  <2> QED
    BY <1>1, <1>5, <2>1, <2>2, <2>3 DEF ReachedInv, Settled, SettledIn, Suspended, Failed
<1>7. ASSUME NEW o, Returns(o)
      PROVE  ReachedInv'
  <2>1. /\ results' = Append(results, o)
        /\ \/ o # Suspended /\ SettledIn(cache', Turn)
           \/ /\ o = Suspended /\ ~SettledIn(cache', Turn)
              /\ handler[Turn].kind \notin StepKinds \cup {"callback", "complete"}
    BY <1>7 DEF Returns
  <2>2. /\ Len(results') = Turn /\ results'[Turn] = o
        /\ \A n \in 1..Len(results) : results'[n] = results[n]
    BY <1>2, <2>1, AppendIs DEF CourseInv
  <2>3. ASSUME NEW n \in 1..Len(results')
        PROVE  \/ SettledIn(cache', n)
               \/ /\ results'[n] = Suspended
                  /\ handler[n].kind \notin StepKinds \cup {"callback", "complete"}
    <3>1. CASE n = Turn
      BY <2>1, <2>2, <3>1
    <3>2. CASE n \in 1..Len(results)
      BY <2>2, <3>2, MovesSettle DEF ReachedInv, Settled
    <3> QED
      BY <1>2, <2>2, <3>1, <3>2
  <2>4. results'[Len(results')] = Suspended => ~SettledIn(cache', Len(results'))
    BY <2>1, <2>2
  <2> QED
    BY <1>1, <1>5, <2>3, <2>4 DEF ReachedInv, Settled, SettledIn, Suspended, Failed
<1> QED
  BY <1>1, <1>6, <1>7

LEMMA ReachedStays ==
  ASSUME ReachedInv, UNCHANGED <<handler, cache, results>>, DOMAIN operations' = DOMAIN operations
  PROVE  ReachedInv'
BY DEF ReachedInv, Settled, SettledIn, Suspended

LEMMA ReachedHolds ==
  ASSUME OrchestratorInv, [Next]_vars
  PROVE  ReachedInv'
<1> USE DEF OrchestratorInv
<1>1. CASE Moves
  BY <1>1, ReachedMoves
<1>2. CASE Start
  <2>1. phase = "start" /\ operations' = Put(<<>>, Execution,
                CreatedFrom(Update(Execution, "EXECUTION", "START", A, 0))) /\ results' = results
    BY <1>2 DEF Start, StartExecution
  <2>2. DOMAIN operations' = {Execution}
    BY <2>1 DEF Put
  <2>3. Len(results') = 0
    BY <2>1, EmptyIs DEF CourseInv
  <2> QED
    BY <2>2, <2>3 DEF ReachedInv, Execution
<1>3. CASE Idles
  BY <1>3, ReachedStays DEF Idles
<1>4. CASE ResolveWait \/ Answer
  <2>1. PICK id \in DOMAIN operations : OneEnds(id)
    BY <1>4, OneEndsIs
  <2> QED
    BY <2>1, ReachedStays DEF OneEnds
<1>5. CASE Reinvoke
  <2>1. cache' = operations /\ operations' = operations /\ results' = <<>> /\ handler' = handler
    BY <1>5 DEF Reinvoke, StartInvocation
  <2>2. Len(results') = 0
    BY <2>1, EmptyIs
  <2>3. /\ DOMAIN cache \subseteq DOMAIN operations
        /\ \A id \in DOMAIN cache : cache[id].status \in {"SUCCEEDED", "FAILED"} =>
                                      operations[id].status = cache[id].status
    BY DEF CacheInv, Behind
  <2>4. \A n : SettledIn(cache, n) => SettledIn(operations, n)
    <3>1. PICK c, d : c = cache /\ d = operations
      OBVIOUS
    <3> QED
      BY <2>3, <3>1, SettledStays
  <2>5. \A k \in DOMAIN operations : \A n \in 1..(k - 1) :
          SettledIn(operations, n) \/ GoesOn(handler[n], Suspended)
    BY <2>4 DEF ReachedInv, Settled
  <2> QED
    BY <2>1, <2>2, <2>5 DEF ReachedInv, Settled, SettledIn, Suspended
<1>6. CASE UNCHANGED vars
  BY <1>6, ReachedStays
<1> QED
  BY <1>1, <1>2, <1>3, <1>4, <1>5, <1>6, StepsAre

-----------------------------------------------------------------------------
(* MarkInv.                                                                *)

LEMMA MarkMoves ==
  ASSUME CourseInv, OperationsInv, MarkInv, Moves
  PROVE  MarkInv'
<1>1. /\ phase = "handler" /\ ~BodyOver(Frame) /\ mark' = mark
      /\ RunsCode \/ \E o : Returns(o)
  BY DEF Moves
<1>2. /\ Len(results) \in Nat /\ Turn \in 1..Len(handler) /\ Turn = Len(results) + 1
      /\ Turn # Execution
  BY <1>1, TurnIs, HandlerIs DEF CourseInv, Execution
<1>3. /\ DOMAIN mark \subseteq DOMAIN operations'
      /\ \A id \in DOMAIN mark :
           /\ mark[id].attempt \in Nat /\ mark[id].attempt <= operations'[id].attempt
           /\ mark[id].status \in Terminal => operations'[id].status \in Terminal
  <2>1. CASE UNCHANGED <<server, cache>>
    BY <2>1 DEF MarkInv
  <2>2. ASSUME NEW op, Writes(op)
        PROVE  <1>3!:
    <3>1. DOMAIN mark \subseteq DOMAIN operations'
      BY <2>2 DEF MarkInv, Writes
    <3>2. ASSUME NEW id \in DOMAIN mark
          PROVE  /\ mark[id].attempt \in Nat /\ mark[id].attempt <= operations'[id].attempt
                 /\ mark[id].status \in Terminal => operations'[id].status \in Terminal
      <4>1. CASE id = Turn
        <5>1. /\ mark[Turn].attempt \in Nat /\ mark[Turn].attempt <= operations[Turn].attempt
              /\ mark[Turn].status \in Terminal => operations[Turn].status \in Terminal
              /\ operations[Turn].attempt \in Nat /\ Turn \in DOMAIN operations
          BY <3>2, <4>1 DEF MarkInv, OperationsInv, OpOK
        <5>2. /\ operations[Turn].status \in {"STARTED", "PENDING"}
              /\ operations[Turn].attempt <= op.attempt /\ op.attempt \in Nat
              /\ operations'[Turn] = op
          BY <2>2, <5>1 DEF Writes
        <5>3. mark[Turn].status \notin Terminal
          BY <5>1, <5>2 DEF Terminal
        <5> QED
          BY <4>1, <5>1, <5>2, <5>3
      <4>2. CASE id # Turn
        BY <2>2, <3>2, <4>2 DEF MarkInv, Writes
      <4> QED
        BY <4>1, <4>2
    <3> QED
      BY <3>1, <3>2
  <2>3. CASE Completes
    <3>1. ASSUME NEW id \in DOMAIN mark, id = Execution
          PROVE  /\ mark[id].attempt \in Nat /\ mark[id].attempt <= operations'[id].attempt
                 /\ mark[id].status \in Terminal => operations'[id].status \in Terminal
      <4>1. operations[id].attempt = 0
        BY <3>1 DEF MarkInv, OperationsInv, OpOK
      <4>2. operations'[id].attempt = 0 /\ operations'[id].status \in {"SUCCEEDED", "FAILED"}
        BY <2>3, <3>1 DEF Completes, OpOK
      <4> QED
        BY <3>1, <4>1, <4>2 DEF MarkInv, Terminal
    <3>2. ASSUME NEW id \in DOMAIN mark, id # Execution
          PROVE  /\ mark[id].attempt \in Nat /\ mark[id].attempt <= operations'[id].attempt
                 /\ mark[id].status \in Terminal => operations'[id].status \in Terminal
      <4>1. operations'[id] = operations[id]
        BY <2>3, <3>2 DEF Completes, MarkInv
      <4> QED
        BY <3>2, <4>1 DEF MarkInv
    <3> QED
      BY <2>3, <3>1, <3>2 DEF Completes, MarkInv
  <2> QED
    BY <2>1, <2>2, <2>3 DEF Moves
<1>4. ASSUME NEW n \in DOMAIN operations', n \in 1..Len(results), operations'[n].status = "PENDING"
      PROVE  IsNews(n)'
  <2>1. n # Turn /\ n # Execution
    BY <1>2, <1>4 DEF Execution
  <2>2. n \in DOMAIN operations /\ operations'[n] = operations[n]
    BY <1>4, <2>1 DEF Moves, Writes, Completes
  <2> QED
    BY <1>1, <1>4, <2>2 DEF MarkInv, IsNews, Get
<1>5. CASE RunsCode
  BY <1>1, <1>3, <1>4, <1>5 DEF MarkInv, RunsCode
<1>6. ASSUME NEW o, Returns(o)
      PROVE  MarkInv'
  <2>1. Len(results') = Turn /\ pc' = "call"
    BY <1>6, AppendIs DEF Returns, CourseInv, Turn
  <2>2. ASSUME NEW t, t = Turn, t \in DOMAIN operations', operations'[t].status = "PENDING"
        PROVE  IsNews(t)'
    <3>1. /\ OpOfCall(t, operations'[t]) /\ operations'[t].attempt \in Nat
          /\ t # Execution /\ handler' = handler
      <4>1. OperationsInv' /\ handler' = handler
        BY OperationsMoves DEF Moves
      <4>2. t # Execution /\ t \in 1..Len(handler)
        BY <1>2, <2>2
      <4> QED
        BY <2>2, <4>1, <4>2 DEF OperationsInv, OpOK, OpOfCall
    <3>2. operations'[t].type = "STEP"
      BY <1>2, <2>2, <3>1, CallIs DEF OpOfCall, Type, StepKinds, CourseInv
    <3>3. operations'[t].attempt > Get(operations, t, Absent).attempt
      BY <2>1, <2>2, <3>2 DEF Moves
    <3>4. operations'[t].attempt > Get(mark, t, Absent).attempt
      <4>1. t \in DOMAIN mark => /\ mark[t].attempt \in Nat /\ t \in DOMAIN operations
                                 /\ mark[t].attempt <= operations[t].attempt
        BY DEF MarkInv
      <4>2. t \in DOMAIN operations => operations[t].attempt \in Nat
        BY DEF OperationsInv, OpOK
      <4> QED
        BY <3>1, <3>3, <4>1, <4>2 DEF Get, Absent
    <3> QED
      BY <1>1, <2>2, <3>4 DEF IsNews, Get
  <2>3. ASSUME NEW n \in 1..Len(results'), n \in DOMAIN operations',
               operations'[n].status = "PENDING"
        PROVE  IsNews(n)'
    <3>1. CASE n = Turn
      BY <2>2, <2>3, <3>1
    <3>2. CASE n \in 1..Len(results)
      BY <1>4, <2>3, <3>2
    <3> QED
      BY <1>2, <2>1, <3>1, <3>2
  <2> QED
    BY <1>1, <1>3, <2>3 DEF MarkInv
<1> QED
  BY <1>1, <1>5, <1>6

LEMMA MarkHolds ==
  ASSUME OrchestratorInv, [Next]_vars
  PROVE  MarkInv'
<1> USE DEF OrchestratorInv
<1>1. CASE Moves
  BY <1>1, MarkMoves
<1>2. CASE Start
  <2>1. phase = "start" /\ mark' = mark /\ results' = results
    BY <1>2 DEF Start
  <2>2. DOMAIN mark' = {}
    BY <2>1 DEF MarkInv, OperationsInv
  <2>3. Len(results') = 0
    BY <2>1, EmptyIs DEF CourseInv
  <2> QED
    BY <2>2, <2>3 DEF MarkInv
<1>3. CASE Idles
  BY <1>3 DEF Idles, MarkInv, IsNews, Get
<1>4. CASE ResolveWait \/ Answer
  <2>1. PICK id \in DOMAIN operations : OneEnds(id)
    BY <1>4, OneEndsIs
  <2>2. ASSUME NEW k \in DOMAIN mark
        PROVE  /\ mark[k].attempt \in Nat /\ mark[k].attempt <= operations'[k].attempt
               /\ mark[k].status \in Terminal => operations'[k].status \in Terminal
    <3>1. CASE k = id
      <4>1. mark[id].status \notin Terminal /\ operations'[id].attempt = operations[id].attempt
        BY <2>1, <2>2, <3>1 DEF OneEnds, MarkInv, Terminal
      <4> QED
        BY <2>2, <3>1, <4>1 DEF MarkInv
    <3>2. CASE k # id
      BY <2>1, <2>2, <3>2 DEF OneEnds, MarkInv
    <3> QED
      BY <3>1, <3>2
  <2>3. ASSUME NEW n \in 1..Len(results), n \in DOMAIN operations, operations'[n].status = "PENDING"
        PROVE  IsNews(n)'
    <3>1. n # id /\ operations'[n] = operations[n] /\ mark' = mark
      BY <2>1, <2>3 DEF OneEnds
    <3> QED
      BY <2>3, <3>1 DEF MarkInv, IsNews, Get
  <2>4. mark' = mark /\ results' = results /\ DOMAIN operations' = DOMAIN operations
    BY <2>1 DEF OneEnds
  <2> QED
    BY <2>2, <2>3, <2>4 DEF MarkInv
<1>5. CASE Reinvoke
  <2>1. mark' = operations /\ operations' = operations /\ results' = <<>>
    BY <1>5 DEF Reinvoke, StartInvocation
  <2>2. Len(results') = 0
    BY <2>1, EmptyIs
  <2>3. \A id \in DOMAIN operations : operations[id].attempt \in Nat
    BY DEF OperationsInv, OpOK
  <2> QED
    BY <2>1, <2>2, <2>3 DEF MarkInv
<1>6. CASE UNCHANGED vars
  BY <1>6 DEF MarkInv, IsNews, Get
<1> QED
  BY <1>1, <1>2, <1>3, <1>4, <1>5, <1>6, StepsAre

-----------------------------------------------------------------------------
(* FetchInv.                                                               *)

\* A handler that is suspended has got no further than a call that is not settled, and what
\* is pending then it has just made so.
LEMMA PendingIsNews ==
  ASSUME CourseInv, OperationsInv, ReachedInv, MarkInv, BodyResult(Frame).error = "Suspend",
         NEW id \in DOMAIN operations, operations[id].status = "PENDING"
  PROVE  IsNews(id)
<1>1. Len(results) \in Nat /\ Len(handler) \in Nat /\ Len(results) <= Len(handler)
  BY SeqIs, HandlerIs DEF CourseInv
<1> DEFINE n      == Len(results)
           values == [i \in 1..n |-> IF results[i].ok THEN results[i].value ELSE <<>>]
<1>2. n > 0 /\ results[n] = Suspended /\ ~GoesOn(handler[n], Suspended)
  <2>1. BodyResult(Frame) =
          IF n > 0 /\ results[n] \in handler[n].fails THEN Failed("Execution")
          ELSE IF n > 0 /\ results[n] \notin handler[n].leaves /\ ~GoesOn(handler[n], results[n])
               THEN results[n]
          ELSE Success(<<"all">> \o values)
    BY DEF BodyResult, Frame
  <2> HIDE DEF n, values
  <2>2. Failed("Execution").error # "Suspend" /\ \A v : Success(v).error # "Suspend"
    BY FailedIs, SuccessIs
  <2>3. n > 0 /\ ~GoesOn(handler[n], results[n]) /\ results[n].error = "Suspend"
    BY <2>1, <2>2
  <2>4. IsOutcome(results[n])
    BY <1>1, <2>3 DEF CourseInv, n
  <2>5. results[n] = Suspended
    BY <2>2, <2>3, <2>4 DEF IsOutcome, Suspended
  <2> QED
    BY <2>3, <2>5
<1>3. ~Settled(n)
  BY <1>2 DEF ReachedInv
<1>4. id \in Nat /\ id # Execution
  BY IdsAre DEF OperationsInv, OpOK
<1>5. ~(n \in 1..(id - 1))
  BY <1>2, <1>3 DEF ReachedInv
<1>6. id \in 1..n
  BY <1>1, <1>2, <1>4, <1>5 DEF Execution
<1> QED
  BY <1>6 DEF MarkInv

\* What the loop finds.
LEMMA FetchFinds ==
  ASSUME OrchestratorInv, Fetch
  PROVE  FetchInv'
<1> USE DEF OrchestratorInv
<1>1. /\ phase = "outcome" /\ BodyResult(Frame).error = "Suspend"
      /\ fetched' = operations /\ phase' = "process"
      /\ UNCHANGED <<server, handler, pending, mark>>
  BY DEF Fetch, GetState
<1>2. pc = "call"
  BY <1>1 DEF CourseInv
<1>3. ASSUME NEW id \in DOMAIN operations
      PROVE  /\ OpOK(id, operations[id]) /\ Behind(operations[id], operations[id])
             /\ Get(mark, id, Absent).status \in Terminal => operations[id].status \in Terminal
             /\ operations[id].status = "PENDING" => IsNews(id)
             /\ operations[id].type = "STEP" => operations[id].status # "STARTED"
  <2>1. Get(mark, id, Absent).status \in Terminal => operations[id].status \in Terminal
    BY DEF Get, Absent, Terminal, MarkInv
  <2>2. operations[id].status = "PENDING" => IsNews(id)
    BY <1>1, <1>3, PendingIsNews
  <2> QED
    BY <1>2, <1>3, <2>1, <2>2 DEF OperationsInv, Behind
<1>4. Execution \in DOMAIN operations
  BY <1>1 DEF OperationsInv
<1>5. \A id \in DOMAIN fetched' :
        /\ OpOK(id, fetched[id])' /\ Behind(fetched[id], operations[id])'
        /\ fetched'[id].scheduled = operations'[id].scheduled
        /\ Get(mark, id, Absent)'.status \in Terminal => fetched'[id].status \in Terminal
        /\ fetched'[id].status = "PENDING" => IsNews(id)'
        /\ fetched'[id].type = "STEP" => fetched'[id].status # "STARTED"
  <2> SUFFICES ASSUME NEW id \in DOMAIN operations
               PROVE  /\ OpOK(id, operations[id])' /\ Behind(operations[id], operations[id])'
                      /\ Get(mark, id, Absent)'.status \in Terminal =>
                           operations'[id].status \in Terminal
                      /\ operations'[id].status = "PENDING" => IsNews(id)'
                      /\ operations'[id].type = "STEP" => operations'[id].status # "STARTED"
    BY <1>1
  <2>1. OpOK(id, operations[id])'
    BY <1>1, <1>3 DEF OpOK, OpOfCall, IsOp
  <2>2. Behind(operations[id], operations[id])'
    BY <1>1, <1>3 DEF Behind
  <2>3. Get(mark, id, Absent)' = Get(mark, id, Absent)
    BY <1>1 DEF Get
  <2>4. operations'[id].status = "PENDING" => IsNews(id)'
    BY <1>1, <1>3 DEF IsNews, Get
  <2> QED
    BY <1>1, <1>3, <2>1, <2>2, <2>3, <2>4
<1> QED
  BY <1>1, <1>4, <1>5 DEF FetchInv

LEMMA NothingFetched ==
  ASSUME phase' \notin {"process", "resolve", "poll", "reinvoke"}
  PROVE  FetchInv'
BY DEF FetchInv

\* What has been fetched is not disturbed.
LEMMA FetchedStays ==
  ASSUME FetchInv, phase \in {"process", "resolve", "poll"},
         UNCHANGED <<operations, handler, mark, fetched>>
  PROVE  /\ DOMAIN fetched' \subseteq DOMAIN operations' /\ Execution \in DOMAIN fetched'
         /\ \A id \in DOMAIN fetched' :
              /\ OpOK(id, fetched[id])' /\ Behind(fetched[id], operations[id])'
              /\ fetched'[id].scheduled = operations'[id].scheduled
              /\ Get(mark, id, Absent)'.status \in Terminal => fetched'[id].status \in Terminal
              /\ fetched'[id].status = "PENDING" => IsNews(id)'
              /\ fetched'[id].type = "STEP" => fetched'[id].status # "STARTED"
<1>1. DOMAIN fetched' \subseteq DOMAIN operations' /\ Execution \in DOMAIN fetched'
  BY DEF FetchInv
<1>2. ASSUME NEW id \in DOMAIN fetched
      PROVE  /\ OpOK(id, fetched[id])' /\ Behind(fetched[id], operations[id])'
             /\ fetched'[id].scheduled = operations'[id].scheduled
             /\ Get(mark, id, Absent)'.status \in Terminal => fetched'[id].status \in Terminal
             /\ fetched'[id].status = "PENDING" => IsNews(id)'
             /\ fetched'[id].type = "STEP" => fetched'[id].status # "STARTED"
  <2>1. /\ OpOK(id, fetched[id]) /\ Behind(fetched[id], operations[id])
        /\ fetched[id].scheduled = operations[id].scheduled
        /\ Get(mark, id, Absent).status \in Terminal => fetched[id].status \in Terminal
        /\ fetched[id].status = "PENDING" => IsNews(id)
        /\ fetched[id].type = "STEP" => fetched[id].status # "STARTED"
    BY DEF FetchInv
  <2> QED
    BY <2>1 DEF OpOK, OpOfCall, IsOp, Behind, IsNews, Get
<1> QED
  BY <1>1, <1>2

LEMMA ProceedFinds ==
  ASSUME OrchestratorInv, Proceed
  PROVE  FetchInv'
<1> USE DEF OrchestratorInv
<1>1. /\ phase = "process" /\ fetched[Execution].status = "STARTED" /\ PendingNow # {}
      /\ pending' = pending \cup PendingNow
      /\ UNCHANGED <<server, handler, fetched, mark>>
      /\ phase' = "poll" \/ (phase' = "resolve" /\ \E id \in PendingNow : fetched[id].scheduled)
  BY DEF Proceed
<1>2. operations[Execution].status = "STARTED" /\ ~completed
  BY <1>1 DEF FetchInv, OperationsInv
<1>3. PendingNow' = PendingNow
  BY <1>1 DEF PendingNow, IsPending, WaitIsPending, StepIsPending, CallbackIsPending
<1>4. PICK id \in DOMAIN fetched : id \in PendingNow /\ IsPending(fetched[id])
  BY <1>1 DEF PendingNow
<1>5. Get(mark, id, Absent).status \notin Terminal
  BY <1>1, <1>4 DEF FetchInv, IsPending, WaitIsPending, StepIsPending, CallbackIsPending, Terminal
<1>6. id \in pending' /\ Get(mark, id, Absent)'.status \notin Terminal
  BY <1>1, <1>4, <1>5 DEF Get
<1>7. phase' = "resolve" => \E k \in PendingNow' : fetched'[k].scheduled
  BY <1>1, <1>3
<1>8. ~completed'
  BY <1>1, <1>2
<1> QED
  BY <1>1, <1>6, <1>7, <1>8, FetchedStays DEF FetchInv

LEMMA PollFinds ==
  ASSUME OrchestratorInv, Poll
  PROVE  FetchInv'
<1> USE DEF OrchestratorInv
<1>1. /\ phase = "poll" /\ UNCHANGED <<server, handler, pending, mark>>
      /\ IF AllCallbacksDone THEN phase' = "reinvoke" ELSE UNCHANGED <<fetched, phase>>
  BY DEF Poll
<1>2. ~completed'
  BY <1>1 DEF FetchInv
<1>3. PICK id \in pending : Get(mark, id, Absent).status \notin Terminal /\ id \in DOMAIN operations
  BY <1>1 DEF FetchInv, PollInv
<1>4. CASE AllCallbacksDone
  <2>1. operations[id].status \in Terminal
    BY <1>3, <1>4 DEF AllCallbacksDone, Terminal
  <2>2. IsNews(id)' /\ id \in DOMAIN operations'
    BY <1>1, <1>3, <2>1 DEF IsNews, Get
  <2>3. phase' = "reinvoke"
    BY <1>1, <1>4
  <2> QED
    BY <1>2, <2>2, <2>3 DEF FetchInv
<1>5. CASE ~AllCallbacksDone
  <2>1. UNCHANGED <<fetched, phase>>
    BY <1>1, <1>5
  <2>2. Get(mark, id, Absent)'.status \notin Terminal /\ id \in pending'
    BY <1>1, <1>3 DEF Get
  <2> QED
    BY <1>1, <1>2, <2>1, <2>2, FetchedStays DEF FetchInv
<1> QED
  BY <1>4, <1>5

LEMMA FetchEnds ==
  ASSUME OrchestratorInv, ResolveWait \/ Answer
  PROVE  FetchInv'
<1> USE DEF OrchestratorInv
<1>1. PICK id \in DOMAIN operations : OneEnds(id)
  BY OneEndsIs
<1>2. /\ UNCHANGED <<completed, handler, phase, fetched, mark, pending>>
      /\ DOMAIN operations' = DOMAIN operations
  BY <1>1 DEF OneEnds
<1>3. PendingNow' = PendingNow
  BY <1>2 DEF PendingNow, IsPending, WaitIsPending, StepIsPending, CallbackIsPending
<1>4. ASSUME NEW k \in DOMAIN operations, IsNews(k)
      PROVE  IsNews(k)'
  <2>1. CASE k # id
    BY <1>1, <1>4, <2>1 DEF OneEnds, IsNews, Get
  <2>2. CASE k = id
    <3>1. operations[id].attempt > Get(mark, id, Absent).attempt
      BY <1>1, <1>4, <2>2 DEF OneEnds, IsNews, Terminal
    <3>2. operations'[id].attempt = operations[id].attempt
      BY <1>1 DEF OneEnds
    <3> QED
      BY <1>2, <2>2, <3>1, <3>2 DEF IsNews, Get
  <2> QED
    BY <2>1, <2>2
<1>5. ASSUME phase \in {"process", "resolve", "poll"}, NEW k \in DOMAIN fetched
      PROVE  /\ OpOK(k, fetched[k])' /\ Behind(fetched[k], operations[k])'
             /\ fetched'[k].scheduled = operations'[k].scheduled
             /\ Get(mark, k, Absent)'.status \in Terminal => fetched'[k].status \in Terminal
             /\ fetched'[k].status = "PENDING" => IsNews(k)'
             /\ fetched'[k].type = "STEP" => fetched'[k].status # "STARTED"
  <2>1. /\ OpOK(k, fetched[k]) /\ Behind(fetched[k], operations[k])
        /\ fetched[k].scheduled = operations[k].scheduled
        /\ Get(mark, k, Absent).status \in Terminal => fetched[k].status \in Terminal
        /\ fetched[k].status = "PENDING" => IsNews(k)
        /\ fetched[k].type = "STEP" => fetched[k].status # "STARTED"
        /\ k \in DOMAIN operations
    BY <1>5 DEF FetchInv
  <2>2. OpOK(k, fetched[k])'
    BY <1>2, <2>1 DEF OpOK, OpOfCall, IsOp
  <2>3. Behind(fetched[k], operations'[k]) /\ operations'[k].scheduled = operations[k].scheduled
    <3>1. CASE k = id
      BY <1>1, <2>1, <3>1 DEF OneEnds, Behind, Terminal
    <3>2. CASE k # id
      BY <1>1, <2>1, <3>2 DEF OneEnds
    <3> QED
      BY <3>1, <3>2
  <2>4. Behind(fetched[k], operations[k])'
    BY <1>2, <2>3 DEF Behind
  <2>5. Get(mark, k, Absent)' = Get(mark, k, Absent)
    BY <1>2 DEF Get
  <2>6. fetched[k].status = "PENDING" => IsNews(k)'
    BY <1>4, <2>1
  <2> QED
    BY <1>2, <2>1, <2>2, <2>3, <2>4, <2>5, <2>6
<1>6. phase' = "poll" => \E k \in pending' : Get(mark, k, Absent)'.status \notin Terminal
  BY <1>2 DEF FetchInv, Get
<1>7. phase' = "reinvoke" => \E k \in DOMAIN operations' : IsNews(k)'
  BY <1>2, <1>4 DEF FetchInv
<1>8. phase' = "process" => fetched'[Execution].status = operations'[Execution].status
  <2>1. operations'[Execution] = operations[Execution] \/ Execution \notin DOMAIN operations
    BY <1>1 DEF OneEnds
  <2> QED
    BY <1>2, <2>1 DEF FetchInv
<1>9. phase' \in {"resolve", "poll", "reinvoke"} => ~completed'
  BY <1>2 DEF FetchInv
<1>10. phase' = "resolve" => \E k \in PendingNow' : fetched'[k].scheduled
  BY <1>2, <1>3 DEF FetchInv
<1>11. phase' \in {"process", "resolve", "poll"} =>
         DOMAIN fetched' \subseteq DOMAIN operations' /\ Execution \in DOMAIN fetched'
  BY <1>2 DEF FetchInv
<1> QED
  BY <1>2, <1>5, <1>6, <1>7, <1>8, <1>9, <1>10, <1>11 DEF FetchInv

LEMMA FetchHolds ==
  ASSUME OrchestratorInv, [Next]_vars
  PROVE  FetchInv'
<1>1. CASE Moves
  BY <1>1, NothingFetched DEF Moves
<1>2. CASE Start
  BY <1>2, NothingFetched DEF Start
<1>3. CASE LoopIdles
  <2>1. CASE EndInvocation \/ FetchFirst \/ Finish \/ GiveUp \/ FinishRecorded \/ LeaveRunning
             \/ PollTimesOut
    BY <2>1, NothingFetched DEF EndInvocation, FetchFirst, Finish, GiveUp, FinishRecorded,
          LeaveRunning, PollTimesOut, End
  <2> QED
    BY <1>3, <2>1, FetchFinds, ProceedFinds, PollFinds DEF LoopIdles
<1>4. CASE ResolveWait \/ Answer
  BY <1>4, FetchEnds
<1>5. CASE Reinvoke
  BY <1>5, NothingFetched DEF Reinvoke
<1>6. CASE UNCHANGED vars
  <2>1. PendingNow' = PendingNow
    BY <1>6 DEF PendingNow, IsPending, WaitIsPending, StepIsPending, CallbackIsPending
  <2>2. phase \in {"process", "resolve", "poll"} => phase' = phase
    BY <1>6
  <2> QED
    BY <1>6, <2>1, FetchedStays DEF OrchestratorInv, FetchInv, IsNews, Get
<1> QED
  BY <1>1, <1>2, <1>3, <1>4, <1>5, <1>6, StepsAre

-----------------------------------------------------------------------------
(* PollInv.                                                                *)

\* Callbacks that have not all ended.
LEMMA PollLeaves ==
  ASSUME OrchestratorInv, Poll, phase' = "poll"
  PROVE  \E id \in pending' : shared'[id].type = "CALLBACK" => shared'[id].status = "STARTED"
<1> USE DEF OrchestratorInv
<1>1. phase = "poll" /\ pending' = pending /\ shared' = operations /\ ~AllCallbacksDone
  BY DEF Poll, PopulateHandles, GetState
<1>2. PICK id \in pending : ~(/\ operations[id].type = "CALLBACK"
                              /\ operations[id].status \in {"SUCCEEDED", "FAILED", "CANCELLED"})
  BY <1>1 DEF AllCallbacksDone
<1>3. id \in DOMAIN operations
  BY <1>2 DEF PollInv
<1>4. operations[id].type = "CALLBACK" => operations[id].status = "STARTED"
  <2> HAVE operations[id].type = "CALLBACK"
  <2>1. OpOfCall(id, operations[id])
    BY <1>3 DEF OperationsInv, OpOK
  <2>2. handler[id].kind = "callback"
    BY <2>1, CallIs DEF OpOfCall, Type, CourseInv
  <2> QED
    BY <1>2, <2>1, <2>2 DEF OpOfCall
<1> QED
  BY <1>1, <1>2, <1>4

LEMMA PollHolds ==
  ASSUME OrchestratorInv, [Next]_vars
  PROVE  PollInv'
<1> USE DEF OrchestratorInv
<1>1. DOMAIN operations \subseteq DOMAIN operations' \/ Start
  BY StepsAre, OneEndsIs DEF Moves, Writes, Completes, Idles, OneEnds, Reinvoke, StartInvocation
<1>2. CASE Moves \/ ResolveWait \/ Answer \/ UNCHANGED vars
  <2>1. UNCHANGED <<pending, phase, outcome, polls, shared>>
    BY <1>2 DEF Moves, ResolveWait, Answer
  <2>2. pending' \subseteq DOMAIN operations'
    <3>1. CASE Start
      BY <2>1, <3>1 DEF Start, PollInv, OperationsInv
    <3> QED
      BY <1>1, <2>1, <3>1 DEF PollInv
  <2> QED
    BY <2>1, <2>2 DEF PollInv
<1>3. CASE Start
  <2>1. phase = "start" /\ phase' = "handler" /\ pending' = pending /\ outcome' = outcome
    BY <1>3 DEF Start
  <2> QED
    BY <2>1 DEF PollInv, OperationsInv
<1>4. CASE Reinvoke
  <2>1. /\ phase \in {"reinvoke", "resolve"} /\ phase' = "handler"
        /\ UNCHANGED <<operations, pending, outcome>>
    BY <1>4 DEF Reinvoke, StartInvocation
  <2> QED
    BY <2>1 DEF PollInv
<1>5. CASE Idles /\ LoopIdles
  <2> SUFFICES ASSUME Idles, LoopIdles
               PROVE  PollInv'
    BY <1>5
  <2>1. outcome = "none" /\ operations' = operations
    BY DEF Idles, PollInv
  <2>2. CASE EndInvocation \/ FetchFirst \/ Fetch
    BY <2>1, <2>2 DEF PollInv, EndInvocation, FetchFirst, Fetch
  <2>3. CASE Finish \/ GiveUp \/ FinishRecorded
    BY <2>1, <2>3 DEF PollInv, Finish, GiveUp, FinishRecorded, End
  <2>4. CASE LeaveRunning
    <3>1. /\ phase = "process" /\ pending' = pending \cup PendingNow /\ outcome' = "running"
          /\ phase' = "end"
      BY <2>4 DEF LeaveRunning, End
    <3> QED
      BY <2>1, <3>1 DEF PollInv, PendingNow, FetchInv
  <2>5. CASE Proceed
    <3>1. /\ phase = "process" /\ pending' = pending \cup PendingNow /\ outcome' = outcome
          /\ phase' \in {"resolve", "poll"} /\ (phase' = "poll" => polls' = 0)
      BY <2>5 DEF Proceed
    <3> QED
      BY <2>1, <3>1 DEF PollInv, PendingNow, FetchInv
  <2>6. CASE Poll
    <3>1. phase' \in {"poll", "reinvoke"} /\ outcome' = outcome /\ pending' = pending
      BY <2>6 DEF Poll
    <3>2. phase' = "poll" =>
            \E id \in pending' : shared'[id].type = "CALLBACK" => shared'[id].status = "STARTED"
      BY <2>6, PollLeaves
    <3> QED
      BY <2>1, <3>1, <3>2 DEF PollInv
  <2>7. CASE PollTimesOut
    <3>1. /\ phase = "poll" /\ polls = MaxPolls /\ phase' = "end" /\ outcome' = "timeout"
          /\ UNCHANGED <<shared, pending>>
      BY <2>7 DEF PollTimesOut, End
    <3>2. polls > 0
      BY <3>1, LimitAssumption
    <3> QED
      BY <2>1, <3>1, <3>2 DEF PollInv
  <2> QED
    BY <2>2, <2>3, <2>4, <2>5, <2>6, <2>7 DEF LoopIdles
<1> QED
  BY <1>2, <1>3, <1>4, <1>5, StepsAre

-----------------------------------------------------------------------------
(* RecordedInv.                                                            *)

\* The execution has not been completed before.
LEMMA CompletesOnce ==
  ASSUME CourseInv, RecordedInv, phase = "handler", ~BodyOver(Frame), completed
  PROVE  ~Completes
<1>1. /\ Len(results) \in Nat /\ Turn \in 1..Len(handler) /\ Turn = Len(results) + 1
      /\ DOMAIN handler = 1..Len(handler)
  BY TurnIs, HandlerIs DEF CourseInv
<1>2. PICK n \in 1..Len(results) : handler[n].kind = "complete" /\ handler[n].big
  BY DEF RecordedInv, HasRecorded
<1>3. n \in DOMAIN handler /\ Turn \in DOMAIN handler /\ Turn > n
  BY <1>1, <1>2
<1>4. RecordsAtEnd(handler)
  BY HandlerAssumption DEF CourseInv
<1>5. handler[Turn].kind = "wait" \/ (handler[Turn].kind = "complete" /\ ~handler[Turn].big)
  BY <1>2, <1>3, <1>4 DEF RecordsAtEnd
<1> QED
  BY <1>5 DEF Completes

\* A wait or a callback that ends is not the execution.
LEMMA EndsElsewhere ==
  ASSUME OrchestratorInv, ResolveWait \/ Answer
  PROVE  /\ UNCHANGED <<completed, phase, outcome, invocations, fetched, handler, results>>
         /\ operations'[Execution] = operations[Execution]
<1>1. PICK id \in DOMAIN operations : OneEnds(id)
  BY OneEndsIs
<1>2. Execution \in DOMAIN operations
  BY <1>1 DEF OrchestratorInv, OperationsInv
<1> QED
  BY <1>1, <1>2 DEF OneEnds

LEMMA RecordedHolds ==
  ASSUME OrchestratorInv, [Next]_vars
  PROVE  RecordedInv'
<1> USE DEF OrchestratorInv
<1>1. CASE Moves
  <2>1. /\ phase = "handler" /\ ~BodyOver(Frame) /\ handler' = handler
        /\ RunsCode \/ \E o : Returns(o)
        /\ completed' = completed \/ Completes
        /\ operations'[Execution] = operations[Execution] \/ Completes
    <3>1. Turn # Execution /\ Execution \in DOMAIN operations
      BY <1>1, TurnIs, HandlerIs DEF Moves, CourseInv, OperationsInv, Execution
    <3> QED
      BY <1>1, <3>1 DEF Moves, Writes
  <2>2. /\ Len(results) \in Nat /\ Turn \in 1..Len(handler) /\ Turn = Len(results) + 1
        /\ Here = handler[Turn]
    BY <2>1, TurnIs
  <2>3. CASE RunsCode
    <3>1. results' = results /\ ~Completes
      BY <2>3 DEF RunsCode, Completes, StepKinds
    <3>2. phase' = phase
      BY <1>1 DEF Moves
    <3> QED
      BY <2>1, <3>1, <3>2 DEF RecordedInv, HasRecorded, ReturnOK, Suspended
  <2>4. ASSUME NEW o, Returns(o)
        PROVE  RecordedInv'
    <3>1. /\ Len(results') = Turn /\ results'[Turn] = o
          /\ \A n \in 1..Len(results) : results'[n] = results[n]
      BY <2>2, <2>4, AppendIs DEF CourseInv, Returns
    <3>2. ASSUME NEW n \in 1..Len(results')
          PROVE  ReturnOK(handler[n], results'[n])
      <4>1. CASE n = Turn
        BY <2>4, <3>1, <4>1 DEF Returns
      <4>2. CASE n \in 1..Len(results)
        BY <3>1, <4>2 DEF RecordedInv
      <4> QED
        BY <2>2, <3>1, <4>1, <4>2
    <3>3. completed' => \E n \in 1..Len(results') : HasRecorded(n)'
      <4>1. CASE Completes
        <5>1. ~completed
          BY <2>1, <4>1, CompletesOnce
        <5>2. o.ok
          BY <2>4, <4>1, <5>1 DEF Completes, Returns
        <5>3. PICK n : n = Turn
          OBVIOUS
        <5>4. HasRecorded(n)'
          BY <2>1, <3>1, <4>1, <5>2, <5>3 DEF Completes, HasRecorded
        <5> QED
          BY <2>2, <3>1, <5>3, <5>4
      <4>2. CASE completed' = completed /\ operations'[Execution] = operations[Execution]
        <5> HAVE completed'
        <5>1. PICK n \in 1..Len(results) : HasRecorded(n)
          BY <2>1, <4>2 DEF RecordedInv
        <5>2. HasRecorded(n)'
          BY <2>1, <3>1, <4>2, <5>1 DEF HasRecorded
        <5> QED
          BY <2>2, <3>1, <5>2
      <4> QED
        BY <2>1, <4>1, <4>2
    <3>4. \A n \in 1..Len(results') : ReturnOK(handler[n], results[n])'
      BY <2>1, <3>2 DEF ReturnOK, Suspended
    <3> QED
      BY <3>3, <3>4 DEF RecordedInv
  <2> QED
    BY <2>1, <2>3, <2>4
<1>2. CASE Start
  <2>1. phase = "start" /\ completed' = FALSE /\ results' = results
    BY <1>2 DEF Start, StartExecution
  <2>2. Len(results') = 0
    BY <2>1, EmptyIs DEF CourseInv
  <2> QED
    BY <2>1, <2>2 DEF RecordedInv
<1>3. CASE Idles
  <2>1. /\ completed' = completed \/ phase' = "end"
        /\ phase # "end" /\ UNCHANGED <<handler, results, operations>>
    BY <1>3 DEF Idles
  <2> QED
    BY <2>1 DEF RecordedInv, HasRecorded, ReturnOK, Suspended
<1>4. CASE ResolveWait \/ Answer
  <2>1. /\ UNCHANGED <<completed, phase, handler, results>>
        /\ operations'[Execution] = operations[Execution]
    BY <1>4, EndsElsewhere
  <2> QED
    BY <2>1 DEF RecordedInv, HasRecorded, ReturnOK, Suspended
<1>5. CASE Reinvoke
  <2>1. completed' = completed /\ ~completed /\ results' = <<>>
    BY <1>5 DEF Reinvoke, StartInvocation
  <2>2. Len(results') = 0
    BY <2>1, EmptyIs
  <2> QED
    BY <2>1, <2>2 DEF RecordedInv
<1>6. CASE UNCHANGED vars
  BY <1>6 DEF RecordedInv, HasRecorded, ReturnOK, Suspended
<1> QED
  BY <1>1, <1>2, <1>3, <1>4, <1>5, <1>6, StepsAre

-----------------------------------------------------------------------------
(* EventsInv.                                                              *)

\* What has succeeded stays so.
LEMMA SuccessLasts ==
  ASSUME OrchestratorInv, [Next]_vars, NEW id \in DOMAIN operations,
         operations[id].status = "SUCCEEDED", operations[id].type # "EXECUTION"
  PROVE  /\ id \in DOMAIN operations' /\ operations'[id].type = operations[id].type
         /\ operations'[id].status = "SUCCEEDED"
<1> USE DEF OrchestratorInv
<1>1. CASE Moves
  <2>1. CASE UNCHANGED <<server, cache>>
    BY <2>1
  <2>2. ASSUME NEW op, Writes(op)
        PROVE  id \in DOMAIN operations' /\ operations'[id] = operations[id]
    BY <2>2 DEF Writes
  <2>3. CASE Completes
    BY <2>3 DEF Completes, OperationsInv, OpOK
  <2> QED
    BY <1>1, <2>1, <2>2, <2>3 DEF Moves
<1>2. CASE Start
  BY <1>2 DEF Start, OperationsInv
<1>3. CASE Idles
  BY <1>3 DEF Idles
<1>4. CASE ResolveWait \/ Answer
  BY <1>4, OneEndsIs DEF OneEnds
<1>5. CASE Reinvoke
  BY <1>5 DEF Reinvoke, StartInvocation
<1> QED
  BY <1>1, <1>2, <1>3, <1>4, <1>5, StepsAre

LEMMA EventLasts ==
  ASSUME OrchestratorInv, [Next]_vars, NEW event, EventOK(event)
  PROVE  EventOK(event)'
BY SuccessLasts DEF EventOK

LEMMA EventsStay ==
  ASSUME OrchestratorInv, [Next]_vars, history' = history
  PROVE  EventsInv'
<1>1. \A i \in DOMAIN history : EventOK(history[i]) => EventOK(history[i])'
  <2> SUFFICES ASSUME NEW i \in DOMAIN history, EventOK(history[i])
               PROVE  EventOK(history[i])'
    OBVIOUS
  <2>1. PICK event : event = history[i]
    OBVIOUS
  <2>2. EventOK(event)'
    BY <2>1, EventLasts
  <2> QED
    BY <2>1, <2>2 DEF EventOK
<1> QED
  BY <1>1 DEF OrchestratorInv, EventsInv

LEMMA EventsGrow ==
  ASSUME OrchestratorInv, [Next]_vars, NEW e, history' = Append(history, e), EventOK(e)',
         \A i \in DOMAIN history : history[i].type \in Successes => history[i].id # e.id
  PROVE  EventsInv'
<1>0. PICK n : n = Len(history)
  OBVIOUS
<1>1. /\ n \in Nat /\ DOMAIN history = 1..n
      /\ IsSeq(history') /\ DOMAIN history' = 1..(n + 1)
      /\ \A i \in 1..n : history'[i] = history[i]
      /\ history'[n + 1] = e
  <2>1. IsSeq(history) /\ Len(history) = n
    BY <1>0 DEF OrchestratorInv, EventsInv
  <2>2. PICK after : after = Append(history, e)
    OBVIOUS
  <2>3. /\ IsSeq(after) /\ Len(after) = n + 1 /\ after[n + 1] = e
        /\ \A i \in 1..n : after[i] = history[i]
    BY <2>1, <2>2, AppendIs
  <2>4. n \in Nat /\ DOMAIN history = 1..n /\ DOMAIN after = 1..(n + 1)
    BY <2>1, <2>3, SeqIs
  <2> QED
    BY <2>2, <2>3, <2>4
<1>2. ASSUME NEW i \in DOMAIN history'
      PROVE  EventOK(history[i])'
  <2>1. PICK event : event = history'[i]
    OBVIOUS
  <2>2. CASE i \in 1..n
    <3>1. EventOK(event)
      BY <1>1, <2>1, <2>2 DEF OrchestratorInv, EventsInv
    <3>2. EventOK(event)'
      BY <3>1, EventLasts
    <3> QED
      BY <2>1, <3>2 DEF EventOK
  <2>3. CASE i = n + 1
    BY <1>1, <2>3 DEF EventOK
  <2> QED
    BY <1>1, <2>2, <2>3
<1>3. ASSUME NEW i \in DOMAIN history', NEW j \in DOMAIN history',
             history'[i].type \in Successes, i < j
      PROVE  history'[j].id # history'[i].id
  <2>1. i \in 1..n /\ history'[i] = history[i]
    BY <1>1, <1>3
  <2>2. CASE j \in 1..n
    BY <1>1, <1>3, <2>1, <2>2 DEF OrchestratorInv, EventsInv
  <2>3. CASE j = n + 1
    BY <1>1, <1>3, <2>1, <2>3
  <2> QED
    BY <1>1, <2>2, <2>3
<1> QED
  BY <1>1, <1>2, <1>3 DEF EventsInv

\* No success has been told of an operation that has not succeeded.
LEMMA NotTold ==
  ASSUME EventsInv, NEW id, id # Execution \/ Ends = {},
         id = Execution \/ id \notin DOMAIN operations \/ operations[id].status # "SUCCEEDED",
         Execution \in DOMAIN operations => operations[Execution].type = "EXECUTION",
         NEW i \in DOMAIN history, history[i].type \in Successes
  PROVE  history[i].id # id
<1>1. EventOK(history[i])
  BY DEF EventsInv
<1>2. history[i].type = "ExecutionSucceeded" => i \in Ends
  BY DEF Ends, Happened
<1> QED
  BY <1>1, <1>2 DEF EventOK, Successes

-----------------------------------------------------------------------------
(* HistoryInv.                                                             *)

EndTypes == {"ExecutionSucceeded", "ExecutionFailed"}

InvocationsTold == Cardinality(Happened({"InvocationCompleted"}))

LEMMA AppendHappens ==
  ASSUME IsSeq(history), NEW e, history' = Append(history, e), NEW types, NEW n, n = Len(history)
  PROVE  /\ n \in Nat /\ Happened(types) \subseteq 1..n
         /\ Happened(types)' = IF e.type \in types THEN Happened(types) \cup {n + 1}
                                                   ELSE Happened(types)
         /\ history'[n + 1] = e /\ n + 1 \in DOMAIN history'
         /\ DOMAIN history \subseteq DOMAIN history'
         /\ \A i \in 1..n : history'[i] = history[i]
<1>1. n \in Nat /\ DOMAIN history = 1..n
  BY SeqIs
<1>2. PICK after : after = Append(history, e)
  OBVIOUS
<1>3. /\ IsSeq(after) /\ Len(after) = n + 1 /\ after[n + 1] = e
      /\ \A i \in 1..n : after[i] = history[i]
  BY <1>2, AppendIs
<1>4. DOMAIN after = 1..(n + 1)
  BY <1>3, SeqIs
<1>5. history' = after
  BY <1>2
<1>6. DOMAIN history' = 1..n \cup {n + 1}
  BY <1>1, <1>4, <1>5
<1>7. Happened(types)' = {i \in 1..n \cup {n + 1} : after[i].type \in types}
  BY <1>5, <1>6 DEF Happened
<1>8. Happened(types) = {i \in 1..n : history[i].type \in types}
  BY <1>1 DEF Happened
<1>9. Happened(types)' = IF e.type \in types THEN Happened(types) \cup {n + 1} ELSE Happened(types)
  BY <1>3, <1>7, <1>8
<1> QED
  BY <1>1, <1>3, <1>5, <1>6, <1>8, <1>9

\* An event that does not end the execution.
LEMMA EndsStay ==
  ASSUME IsSeq(history), NEW e, history' = Append(history, e), e.type \notin EndTypes
  PROVE  Ends' = Ends /\ \A type : ToldOnce(type) => ToldOnce(type)'
<1>1. PICK n : n = Len(history)
  OBVIOUS
<1>2. /\ n \in Nat /\ Ends \subseteq 1..n /\ Ends' = Ends
      /\ DOMAIN history \subseteq DOMAIN history'
      /\ \A i \in 1..n : history'[i] = history[i]
  BY <1>1, AppendHappens DEF Ends, EndTypes
<1>3. ASSUME NEW type, ToldOnce(type)
      PROVE  ToldOnce(type)'
  <2>1. PICK i \in DOMAIN history : Ends = {i} /\ history[i] = Event(type, Execution)
    BY <1>3 DEF ToldOnce, Ends
  <2>2. history'[i] = history[i] /\ i \in DOMAIN history'
    BY <1>2, <2>1
  <2> QED
    BY <1>2, <2>1, <2>2 DEF ToldOnce, Ends, Event
<1> QED
  BY <1>2, <1>3

\* An event that ends the execution.
LEMMA EndIsTold ==
  ASSUME IsSeq(history), Ends = {}, NEW type \in EndTypes,
         history' = Append(history, Event(type, Execution))
  PROVE  ToldOnce(type)'
<1>1. PICK n, e : n = Len(history) /\ e = Event(type, Execution)
  OBVIOUS
<1>2. /\ n + 1 \in DOMAIN history' /\ history'[n + 1] = e
      /\ Happened(EndTypes)' = IF e.type \in EndTypes THEN Happened(EndTypes) \cup {n + 1}
                                                      ELSE Happened(EndTypes)
  <2>1. history' = Append(history, e)
    BY <1>1
  <2> QED
    BY <1>1, <2>1, AppendHappens
<1>3. Ends' = {n + 1}
  <2>1. e.type \in EndTypes
    BY <1>1 DEF Event
  <2> QED
    BY <1>2, <2>1 DEF Ends, EndTypes
<1> QED
  BY <1>1, <1>2, <1>3 DEF ToldOnce, Ends, Event

LEMMA InvocationsStay ==
  ASSUME IsSeq(history), NEW e, history' = Append(history, e), e.type # "InvocationCompleted"
  PROVE  InvocationsTold' = InvocationsTold
<1>1. PICK n, types : n = Len(history) /\ types = {"InvocationCompleted"}
  OBVIOUS
<1>2. Happened(types)' = Happened(types)
  BY <1>1, AppendHappens
<1>3. Happened({"InvocationCompleted"})' = Happened({"InvocationCompleted"})
  BY <1>1, <1>2 DEF Happened
<1> QED
  BY <1>3 DEF InvocationsTold

LEMMA InvocationIsTold ==
  ASSUME IsSeq(history), NEW e, history' = Append(history, e), e.type = "InvocationCompleted"
  PROVE  InvocationsTold' = InvocationsTold + 1
<1>1. PICK n, types : n = Len(history) /\ types = {"InvocationCompleted"}
  OBVIOUS
<1>2. n \in Nat /\ Happened(types) \subseteq 1..n /\ Happened(types)' = Happened(types) \cup {n + 1}
  <2>1. /\ n \in Nat /\ Happened(types) \subseteq 1..n
        /\ Happened(types)' = IF e.type \in types THEN Happened(types) \cup {n + 1}
                                                  ELSE Happened(types)
    BY <1>1, AppendHappens
  <2>2. e.type \in types
    BY <1>1
  <2> QED
    BY <2>1, <2>2
<1>3. PICK S : S = Happened(types)
  OBVIOUS
<1>4. IsFiniteSet(S) /\ n + 1 \notin S
  <2>1. IsFiniteSet(1..n)
    BY <1>2, FS_Interval
  <2>2. S \in SUBSET (1..n)
    BY <1>2, <1>3
  <2>3. IsFiniteSet(S)
    BY <2>1, <2>2, FS_Subset
  <2>4. n + 1 \notin 1..n
    BY <1>2
  <2> QED
    BY <2>2, <2>3, <2>4
<1>5. Cardinality(S \cup {n + 1}) = Cardinality(S) + 1
  BY <1>4, FS_AddElement
<1>6. Happened({"InvocationCompleted"})' = S \cup {n + 1} /\ Happened({"InvocationCompleted"}) = S
  BY <1>1, <1>2, <1>3 DEF Happened
<1> QED
  BY <1>5, <1>6 DEF InvocationsTold

LEMMA HistoryMoves ==
  ASSUME OrchestratorInv, [Next]_vars, Moves
  PROVE  EventsInv' /\ HistoryInv'
<1> USE DEF OrchestratorInv
<1>1. /\ phase = "handler" /\ ~BodyOver(Frame) /\ phase' = phase /\ invocations' = invocations
      /\ IsSeq(history) /\ InvocationsTold = invocations - 1
      /\ Execution \in DOMAIN operations
  BY DEF Moves, EventsInv, HistoryInv, InvocationsTold, OperationsInv
<1>2. Turn \in 1..Len(handler) /\ Turn # Execution
  BY <1>1, TurnIs, HandlerIs DEF CourseInv, Execution
<1>3. Execution \in DOMAIN operations => operations[Execution].type = "EXECUTION"
  BY DEF OperationsInv, OpOK
<1>4. CASE /\ history' = history /\ completed' = completed
           /\ operations'[Execution] = operations[Execution]
  <2>1. EventsInv'
    BY <1>4, EventsStay
  <2>2. \A type : ToldOnce(type)' <=> ToldOnce(type)
    BY <1>4 DEF ToldOnce, Happened, Event
  <2>3. Ends' = Ends /\ InvocationsTold' = InvocationsTold
    BY <1>4 DEF Ends, Happened, InvocationsTold
  <2> QED
    BY <1>1, <1>4, <2>1, <2>2, <2>3 DEF HistoryInv, ToldAs, InvocationsTold
<1>5. ASSUME NEW type \in {"StepStarted", "StepSucceeded", "StepFailed", "WaitStarted",
                           "CallbackStarted"},
             NEW op, Writes(op), history' = Append(history, Event(type, Turn)),
             type = "StepSucceeded" => op.type = "STEP" /\ op.status = "SUCCEEDED"
      PROVE  EventsInv' /\ HistoryInv'
  <2>1. PICK e : e = Event(type, Turn)
    OBVIOUS
  <2>2. e.type = type /\ e.id = Turn
    BY <2>1 DEF Event
  <2>3. EventOK(e)'
    BY <1>5, <2>2 DEF EventOK, Writes
  <2>4. \A i \in DOMAIN history : history[i].type \in Successes => history[i].id # e.id
    <3>1. Turn \notin DOMAIN operations \/ operations[Turn].status # "SUCCEEDED"
      BY <1>5 DEF Writes
    <3>2. PICK id : id = Turn
      OBVIOUS
    <3> QED
      BY <1>2, <1>3, <2>2, <3>1, <3>2, NotTold
  <2>5. EventsInv'
    BY <1>5, <2>1, <2>3, <2>4, EventsGrow
  <2>6. /\ Ends' = Ends /\ (\A told : ToldOnce(told) => ToldOnce(told)')
        /\ InvocationsTold' = InvocationsTold
    BY <1>1, <1>5, <2>1, <2>2, EndsStay, InvocationsStay DEF EndTypes
  <2>7. completed' = completed /\ operations'[Execution] = operations[Execution]
    BY <1>1, <1>2, <1>5 DEF Writes
  <2> QED
    BY <1>1, <2>5, <2>6, <2>7 DEF HistoryInv, ToldAs, InvocationsTold
<1>6. CASE Completes
  <2>1. PICK end \in handler[Turn].ends : /\ operations'[Execution].status = EndStatus(end)
                                          /\ history' = Append(history, EndEvent(end))
    BY <1>6 DEF Completes
  <2>2. ~completed /\ completed' = TRUE
    BY <1>1, <1>6, CompletesOnce DEF Completes
  <2>3. Ends = {}
    BY <2>2 DEF HistoryInv
  <2>4. PICK e, type : /\ e = Event(type, Execution)
                       /\ type = IF end.ok THEN "ExecutionSucceeded" ELSE "ExecutionFailed"
    OBVIOUS
  <2>5. e.type = type /\ e.id = Execution /\ type \in EndTypes /\ history' = Append(history, e)
    BY <2>1, <2>4 DEF Event, EndTypes, EndEvent
  <2>6. EventOK(e)'
    BY <2>5 DEF EventOK, EndTypes
  <2>7. \A i \in DOMAIN history : history[i].type \in Successes => history[i].id # e.id
    BY <1>3, <2>3, <2>5, NotTold
  <2>8. EventsInv'
    BY <2>5, <2>6, <2>7, EventsGrow
  <2>9. ToldOnce(type)' /\ InvocationsTold' = InvocationsTold
    BY <1>1, <2>3, <2>4, <2>5, EndIsTold, InvocationsStay DEF EndTypes
  <2>10. ToldAs(operations[Execution].status)'
    BY <2>1, <2>4, <2>9 DEF ToldOnce, ToldAs, EndStatus
  <2> QED
    BY <1>1, <2>2, <2>8, <2>9, <2>10 DEF HistoryInv, InvocationsTold
<1>7. ASSUME NEW op, Writes(op), Tells(op)
      PROVE  EventsInv' /\ HistoryInv'
  <2>1. CASE history' = history
    BY <1>1, <1>2, <1>4, <1>7, <2>1 DEF Writes
  <2> QED
    BY <1>5, <1>7, <2>1 DEF Tells
<1>8. CASE UNCHANGED <<server, cache>>
  BY <1>4, <1>8
<1> QED
  BY <1>6, <1>7, <1>8 DEF Moves

LEMMA HistoryStays ==
  ASSUME HistoryInv, history' = history, completed' = completed,
         operations'[Execution] = operations[Execution],
         \/ UNCHANGED <<phase, invocations, outcome, fetched>>
         \/ UNCHANGED invocations /\ {phase, phase'} \cap {"handler", "end"} = {}
  PROVE  HistoryInv'
<1>1. /\ Ends' = Ends
      /\ Happened({"InvocationCompleted"})' = Happened({"InvocationCompleted"})
      /\ \A type : ToldOnce(type)' <=> ToldOnce(type)
  BY DEF Happened, Ends, ToldOnce, Event
<1> QED
  BY <1>1 DEF HistoryInv, ToldAs

\* The run ends without a word.
LEMMA HistoryEnds ==
  ASSUME HistoryInv, history' = history, phase \notin {"handler", "end"}, phase' = "end",
         UNCHANGED invocations,
         \/ /\ completed /\ completed' = TRUE
            /\ \/ outcome' = "error"
               \/ operations[Execution].status = "FAILED" /\ outcome' = "failed"
               \/ /\ operations[Execution].status # "FAILED"
                  /\ outcome' = IF Parses(fetched'[Execution].value) THEN "succeeded" ELSE "running"
               \/ operations[Execution].status # "FAILED" /\ outcome' = "succeeded"
         \/ ~completed /\ ~completed' /\ outcome' \in {"running", "timeout", "error"}
  PROVE  HistoryInv'
<1>1. /\ Ends' = Ends
      /\ Happened({"InvocationCompleted"})' = Happened({"InvocationCompleted"})
      /\ \A type : ToldOnce(type)' <=> ToldOnce(type)
  BY DEF Happened, Ends, ToldOnce, Event
<1> QED
  BY <1>1 DEF HistoryInv, ToldAs

\* A handler that has recorded the end of the execution and is over has ended likewise.
LEMMA RecordedAgrees ==
  ASSUME CourseInv, RecordedInv, completed, phase = "outcome",
         BodyResult(Frame).error # "Suspend"
  PROVE  operations[Execution].status = EndStatus(BodyResult(Frame))
<1>1. Len(results) \in Nat /\ Len(handler) \in Nat /\ Len(results) <= Len(handler)
  BY SeqIs, HandlerIs DEF CourseInv
<1>2. PICK n \in 1..Len(results) : HasRecorded(n)
  BY DEF RecordedInv
<1>3. RecordsAtEnd(handler) /\ DOMAIN handler = 1..Len(handler)
  BY HandlerAssumption, HandlerIs DEF CourseInv
<1> DEFINE m      == Len(results)
           call   == handler[m]
           last   == results[m]
           values == [i \in 1..m |-> IF results[i].ok THEN results[i].value ELSE <<>>]
<1>4. m > 0 /\ m \in 1..Len(results) /\ m \in DOMAIN handler /\ n \in DOMAIN handler /\ m >= n
  BY <1>1, <1>2, <1>3
<1>5. BodyResult(Frame) =
          IF m > 0 /\ last \in call.fails THEN Failed("Execution")
          ELSE IF m > 0 /\ last \notin call.leaves /\ ~GoesOn(call, last) THEN last
          ELSE Success(<<"all">> \o values)
  BY DEF BodyResult, Frame
<1>6. handler[n].kind = "complete" /\ handler[n].big /\ results[n].ok
  BY <1>2 DEF HasRecorded
<1>7. last \in {Success(Nothing), Suspended}
  <2>1. ReturnOK(call, last)
    BY <1>4 DEF RecordedInv
  <2>2. CASE m = n
    BY <1>6, <2>1, <2>2 DEF ReturnOK
  <2>3. CASE m > n
    <3>1. call.kind = "wait" \/ (call.kind = "complete" /\ ~call.big)
      BY <1>3, <1>4, <1>6, <2>3 DEF RecordsAtEnd
    <3> QED
      BY <2>1, <3>1 DEF ReturnOK
  <2> QED
    BY <1>1, <1>4, <2>2, <2>3
<1>8. PICK end \in handler[n].ends : operations[Execution].status = EndStatus(end)
  BY <1>2 DEF HasRecorded
<1>9. BodyOver(Frame)
  BY DEF CourseInv, Phases
<1>10. \/ m = Len(handler)
       \/ ~GoesOn(call, last)
  BY <1>9, OverIs
<1>11. PICK all : all = Success(<<"all">> \o values)
  OBVIOUS
<1>12. all.ok = TRUE
  BY <1>11, SuccessIs
<1>13. BodyResult(Frame) = IF last \in call.fails THEN Failed("Execution")
                           ELSE IF last \notin call.leaves /\ ~GoesOn(call, last) THEN last
                           ELSE all
  BY <1>4, <1>5, <1>11
<1> HIDE DEF call, last, values, m
<1>14. Success(Nothing).ok = TRUE /\ Suspended.ok = FALSE /\ Suspended.error = "Suspend"
  BY SuccessIs, FailedIs DEF Suspended
<1>15. CASE end.ok
  <2>1. call.fails = {}
    BY <1>3, <1>4, <1>6, <1>8, <1>15 DEF RecordsAtEnd, call
  <2>2. CASE BodyResult(Frame) = all
    BY <1>8, <1>12, <1>15, <2>2 DEF EndStatus
  <2>3. CASE BodyResult(Frame) = last /\ last \notin call.leaves /\ ~GoesOn(call, last)
    <3>1. last = Suspended
      BY <1>7, <1>14, <2>1, <2>3 DEF GoesOn
    <3> QED
      BY <1>14, <2>3, <3>1
  <2> QED
    BY <1>13, <2>1, <2>2, <2>3
<1>16. CASE ~end.ok
  <2>1. /\ call.leaves = {}
        /\ m = Len(handler) => Success(Nothing) \in call.fails /\ call.caught = {}
    BY <1>3, <1>4, <1>6, <1>8, <1>16 DEF RecordsAtEnd, call
  <2>2. CASE last \in call.fails
    <3>1. BodyResult(Frame).ok = FALSE
      BY <1>13, <2>2, FailedIs
    <3> QED
      BY <1>8, <1>16, <3>1 DEF EndStatus
  <2>3. CASE last \notin call.fails
    <3>1. ~GoesOn(call, last)
      BY <1>7, <1>10, <1>14, <2>1, <2>3 DEF GoesOn
    <3>2. last = Suspended /\ BodyResult(Frame) = last
      BY <1>7, <1>13, <1>14, <2>1, <2>3, <3>1 DEF GoesOn
    <3> QED
      BY <1>14, <3>2
  <2> QED
    BY <2>2, <2>3
<1> QED
  BY <1>15, <1>16

LEMMA FinishHistory ==
  ASSUME OrchestratorInv, [Next]_vars, Finish
  PROVE  EventsInv' /\ HistoryInv'
<1> USE DEF OrchestratorInv
<1>1. PICK ok : ok = BodyResult(Frame).ok
  OBVIOUS
<1>2. /\ phase = "outcome" /\ BodyResult(Frame).error # "Suspend"
      /\ phase' = "end" /\ outcome' = (IF ok THEN "succeeded" ELSE "failed")
      /\ UNCHANGED invocations /\ completed' = TRUE
      /\ history' = IF completed THEN history
                    ELSE Append(history, Event(ExecutionEvents[IF ok THEN "SUCCEED" ELSE "FAIL"],
                                               Execution))
  BY <1>1 DEF Finish, End, HandleCompleteExecution, CompleteExecution
<1>3. CASE completed
  <2>1. operations[Execution].status = IF ok THEN "SUCCEEDED" ELSE "FAILED"
    BY <1>1, <1>2, <1>3, RecordedAgrees DEF EndStatus
  <2>2. history' = history
    BY <1>2, <1>3
  <2> QED
    BY <1>2, <1>3, <2>1, <2>2, EventsStay, HistoryEnds
<1>4. CASE ~completed
  <2>1. PICK type, e : /\ type = (IF ok THEN "ExecutionSucceeded" ELSE "ExecutionFailed")
                       /\ e = Event(type, Execution)
    OBVIOUS
  <2>2. history' = Append(history, e)
    BY <1>2, <1>4, <2>1 DEF ExecutionEvents
  <2>3. e.type = type /\ e.id = Execution /\ type \in EndTypes /\ Ends = {} /\ IsSeq(history)
    BY <1>4, <2>1 DEF Event, EndTypes, HistoryInv, EventsInv
  <2>4. EventOK(e)'
    BY <2>3 DEF EventOK, EndTypes
  <2>5. Execution \in DOMAIN operations => operations[Execution].type = "EXECUTION"
    BY DEF OperationsInv, OpOK
  <2>6. \A i \in DOMAIN history : history[i].type \in Successes => history[i].id # e.id
    BY <2>3, <2>5, NotTold
  <2>7. EventsInv'
    BY <2>2, <2>4, <2>6, EventsGrow
  <2>8. ToldOnce(type)' /\ InvocationsTold' = InvocationsTold
    BY <2>1, <2>2, <2>3, EndIsTold, InvocationsStay DEF EndTypes
  <2>9. \/ outcome' = "succeeded" /\ ToldOnce("ExecutionSucceeded")'
        \/ outcome' = "failed" /\ ToldOnce("ExecutionFailed")'
    BY <1>2, <2>1, <2>8 DEF ToldOnce
  <2>10. InvocationsTold = invocations
    BY <1>2 DEF HistoryInv, InvocationsTold
  <2> QED
    BY <1>2, <2>7, <2>8, <2>9, <2>10 DEF HistoryInv, InvocationsTold
<1> QED
  BY <1>3, <1>4

LEMMA EndInvocationHistory ==
  ASSUME OrchestratorInv, [Next]_vars, EndInvocation
  PROVE  EventsInv' /\ HistoryInv'
<1> USE DEF OrchestratorInv
<1>1. PICK e : e = Event("InvocationCompleted", NoOperation)
  OBVIOUS
<1>2. /\ phase = "handler" /\ phase' \in {"returned", "outcome"}
      /\ history' = Append(history, e) /\ completed' = completed
      /\ UNCHANGED <<invocations, outcome, operations>>
  BY <1>1 DEF EndInvocation, CompleteInvocation
<1>3. e.type = "InvocationCompleted" /\ e.id = -1 /\ IsSeq(history)
  BY <1>1 DEF Event, NoOperation, EventsInv
<1>4. EventOK(e)'
  BY <1>3 DEF EventOK
<1>5. Execution \in DOMAIN operations => operations[Execution].type = "EXECUTION"
  BY DEF OperationsInv, OpOK
<1>6. -1 \notin DOMAIN operations /\ -1 # Execution
  BY IdsAre DEF Execution
<1>7. \A i \in DOMAIN history : history[i].type \in Successes => history[i].id # e.id
  BY <1>3, <1>5, <1>6, NotTold
<1>8. EventsInv'
  BY <1>2, <1>4, <1>7, EventsGrow
<1>9. /\ Ends' = Ends /\ (\A told : ToldOnce(told) => ToldOnce(told)')
      /\ InvocationsTold' = InvocationsTold + 1
  BY <1>2, <1>3, EndsStay, InvocationIsTold DEF EndTypes
<1>10. InvocationsTold = invocations - 1 /\ invocations \in Nat
  BY <1>2 DEF HistoryInv, InvocationsTold, CourseInv
<1>11. InvocationsTold' = invocations'
  BY <1>2, <1>9, <1>10
<1> QED
  BY <1>2, <1>8, <1>9, <1>11 DEF HistoryInv, ToldAs, InvocationsTold

LEMMA StartHistory ==
  ASSUME OrchestratorInv, Start
  PROVE  EventsInv' /\ HistoryInv'
<1> USE DEF OrchestratorInv
<1>1. PICK e : e = Event("ExecutionStarted", Execution)
  OBVIOUS
<1>2. /\ phase' = "handler" /\ invocations' = 1 /\ completed' = FALSE /\ history' = <<e>>
  BY <1>1 DEF Start, StartExecution
<1>3. e.type = "ExecutionStarted"
  BY <1>1 DEF Event
<1>4. IsSeq(<<e>>) /\ DOMAIN <<e>> = {1} /\ <<e>>[1] = e
  <2>1. <<e>> \in Seq({e})
    OBVIOUS
  <2>2. Len(<<e>>) = 1 /\ <<e>>[1] = e
    OBVIOUS
  <2>3. PICK s : s = <<e>>
    OBVIOUS
  <2>4. IsSeq(s) /\ Len(s) = 1
    BY <2>1, <2>2, <2>3 DEF IsSeq
  <2>5. DOMAIN s = 1..1
    BY <2>4, SeqIs
  <2> QED
    BY <2>2, <2>3, <2>4, <2>5
<1>5. PICK after : after = <<e>>
  OBVIOUS
<1>6. IsSeq(after) /\ DOMAIN after = {1} /\ after[1].type = "ExecutionStarted" /\ history' = after
  BY <1>2, <1>3, <1>4, <1>5
<1>7. EventsInv'
  BY <1>6 DEF EventsInv, EventOK, Successes
<1>8. Happened({"InvocationCompleted"})' = {} /\ Ends' = {}
  BY <1>6 DEF Happened, Ends
<1> QED
  BY <1>2, <1>7, <1>8, FS_EmptySet DEF HistoryInv

LEMMA ResolveHistory ==
  ASSUME OrchestratorInv, [Next]_vars, ResolveWait \/ Answer
  PROVE  EventsInv' /\ HistoryInv'
<1> USE DEF OrchestratorInv
<1>1. PICK id \in DOMAIN operations :
        /\ OneEnds(id)
        /\ \/ /\ phase = "resolve" /\ operations[id].type = "WAIT"
              /\ history' = Append(history, Event("WaitSucceeded", id))
              /\ operations'[id].status = "SUCCEEDED"
           \/ UNCHANGED history
  BY OneEndsIs
<1>2. CASE UNCHANGED history
  BY <1>2, EventsStay, HistoryStays, EndsElsewhere
<1>3. CASE /\ phase = "resolve" /\ operations[id].type = "WAIT"
           /\ history' = Append(history, Event("WaitSucceeded", id))
           /\ operations'[id].status = "SUCCEEDED"
  <2>1. PICK e : e = Event("WaitSucceeded", id)
    OBVIOUS
  <2>2. e.type = "WaitSucceeded" /\ e.id = id /\ IsSeq(history) /\ history' = Append(history, e)
    BY <1>3, <2>1 DEF Event, EventsInv
  <2>3. EventOK(e)'
    BY <1>1, <1>3, <2>2 DEF EventOK, OneEnds
  <2>4. /\ Execution \in DOMAIN operations => operations[Execution].type = "EXECUTION"
        /\ operations[id].status = "STARTED" /\ id # Execution
    BY <1>1 DEF OperationsInv, OpOK, OneEnds
  <2>5. \A i \in DOMAIN history : history[i].type \in Successes => history[i].id # e.id
    BY <2>2, <2>4, NotTold
  <2>6. EventsInv'
    BY <2>2, <2>3, <2>5, EventsGrow
  <2>7. /\ Ends' = Ends /\ (\A told : ToldOnce(told) => ToldOnce(told)')
        /\ InvocationsTold' = InvocationsTold
    BY <2>2, EndsStay, InvocationsStay DEF EndTypes
  <2>8. /\ UNCHANGED <<phase, invocations, completed, outcome, fetched>>
        /\ operations'[Execution] = operations[Execution]
    BY EndsElsewhere
  <2> QED
    BY <1>3, <2>6, <2>7, <2>8 DEF HistoryInv, ToldAs, InvocationsTold
<1> QED
  BY <1>1, <1>2, <1>3

LEMMA HistoryHolds ==
  ASSUME OrchestratorInv, [Next]_vars
  PROVE  EventsInv' /\ HistoryInv'
<1> USE DEF OrchestratorInv
<1>1. CASE Moves
  BY <1>1, HistoryMoves
<1>2. CASE Start
  BY <1>2, StartHistory
<1>3. CASE Idles /\ LoopIdles
  <2>1. CASE EndInvocation
    BY <2>1, EndInvocationHistory
  <2>2. CASE Finish
    BY <2>2, FinishHistory
  <2>3. CASE FetchFirst \/ Fetch \/ Proceed \/ Poll
    <3>1. history' = history /\ completed' = completed /\ UNCHANGED <<invocations, operations>>
      BY <2>3 DEF FetchFirst, Fetch, Proceed, Poll
    <3>2. {phase, phase'} \cap {"handler", "end"} = {}
      BY <2>3 DEF FetchFirst, Fetch, Proceed, Poll
    <3> QED
      BY <3>1, <3>2, EventsStay, HistoryStays
  <2>4. CASE GiveUp
    <3>1. /\ history' = history /\ completed' = completed /\ UNCHANGED invocations
          /\ phase = "outcome" /\ phase' = "end" /\ outcome' = "error"
      BY <2>4 DEF GiveUp, End
    <3>2. completed \in BOOLEAN
      BY DEF OperationsInv
    <3> QED
      BY <3>1, <3>2, EventsStay, HistoryEnds
  <2>5. CASE FinishRecorded
    <3>1. /\ phase = "process" /\ completed' = TRUE /\ phase' = "end"
          /\ UNCHANGED <<invocations, fetched>>
          /\ completed => history' = history
          /\ \/ /\ fetched[Execution].status = "SUCCEEDED"
                /\ outcome' = IF Parses(fetched[Execution].value) THEN "succeeded" ELSE "running"
             \/ fetched[Execution].status = "FAILED" /\ outcome' = "failed"
      BY <2>5 DEF FinishRecorded, HandleCompleteExecution, CompleteExecution, End
    <3>2. fetched[Execution].status = operations[Execution].status
      BY <3>1 DEF FetchInv
    <3>3. completed
      BY <3>1, <3>2 DEF OperationsInv
    <3> QED
      BY <3>1, <3>2, <3>3, EventsStay, HistoryEnds
  <2>6. CASE LeaveRunning
    <3>1. /\ phase = "process" /\ fetched[Execution].status = "STARTED"
          /\ completed' = completed /\ phase' = "end" /\ outcome' = "running"
          /\ UNCHANGED invocations /\ history' = history
      BY <2>6 DEF LeaveRunning, End
    <3>2. ~completed
      BY <3>1 DEF FetchInv, OperationsInv
    <3> QED
      BY <3>1, <3>2, EventsStay, HistoryEnds
  <2>7. CASE PollTimesOut
    <3>1. /\ phase = "poll" /\ completed' = completed /\ phase' = "end" /\ outcome' = "timeout"
          /\ UNCHANGED invocations /\ history' = history
      BY <2>7 DEF PollTimesOut, End
    <3>2. ~completed
      BY <3>1 DEF FetchInv
    <3> QED
      BY <3>1, <3>2, EventsStay, HistoryEnds
  <2> QED
    BY <1>3, <2>1, <2>2, <2>3, <2>4, <2>5, <2>6, <2>7 DEF LoopIdles
<1>4. CASE ResolveWait \/ Answer
  BY <1>4, ResolveHistory
<1>5. CASE Reinvoke
  <2>1. /\ phase \in {"reinvoke", "resolve"} /\ phase' = "handler" /\ ~completed
        /\ completed' = completed /\ history' = history /\ invocations' = invocations + 1
    BY <1>5 DEF Reinvoke, StartInvocation
  <2>2. /\ Ends' = Ends /\ Ends = {}
        /\ Happened({"InvocationCompleted"})' = Happened({"InvocationCompleted"})
        /\ Cardinality(Happened({"InvocationCompleted"})) = invocations
        /\ invocations \in Nat
    BY <2>1 DEF Happened, Ends, HistoryInv, CourseInv
  <2>3. Cardinality(Happened({"InvocationCompleted"}))' = invocations' - 1
    BY <2>1, <2>2
  <2> QED
    BY <2>1, <2>2, <2>3, EventsStay DEF HistoryInv
<1>6. CASE UNCHANGED vars
  BY <1>6, EventsStay, HistoryStays
<1> QED
  BY <1>1, <1>2, <1>3, <1>4, <1>5, <1>6, StepsAre

-----------------------------------------------------------------------------
(* The theorems.                                                           *)

LEMMA InvStarts ==
  ASSUME Init
  PROVE  OrchestratorInv
<1> USE DEF Init, ServerInit
<1>1. IsSeq(<<>>) /\ Len(<<>>) = 0 /\ DOMAIN <<>> = {}
  BY EmptyIs
<1>2. CourseInv
  <2>1. Len(handler) \in Nat
    BY HandlerIs
  <2> QED
    BY <1>1, <2>1, LimitAssumption DEF CourseInv, Phases
<1>3. OperationsInv
  BY <1>1 DEF OperationsInv
<1>4. CacheInv /\ ReachedInv /\ MarkInv
  BY <1>1 DEF CacheInv, ReachedInv, MarkInv
<1>5. FetchInv /\ PollInv /\ RecordedInv
  BY <1>1 DEF FetchInv, PollInv, RecordedInv
<1>6. EventsInv /\ HistoryInv
  <2>1. Happened({"InvocationCompleted"}) = {} /\ Ends = {}
    BY <1>1 DEF Happened, Ends
  <2> QED
    BY <1>1, <2>1, FS_EmptySet DEF EventsInv, HistoryInv
<1> QED
  BY <1>2, <1>3, <1>4, <1>5, <1>6 DEF OrchestratorInv

LEMMA InvHolds ==
  ASSUME OrchestratorInv, [Next]_vars
  PROVE  OrchestratorInv'
BY CourseHolds, OperationsHold, CacheHolds, ReachedHolds, MarkHolds, FetchHolds, PollHolds,
   RecordedHolds, HistoryHolds DEF OrchestratorInv

\* What a run of the orchestrator tells of itself has happened in it, whatever the handler
\* leaves pending or records as the end, whether or not the test answers and however small
\* the limits: polling is given up only while something is not answered, nothing is told of
\* an operation after its success, and the history tells of at most one end.  It is the end
\* of the run - a success or a failure, returned or recorded - but in two cases: a run that
\* exceeds the iterations may have ended in the last, and one that cannot read the recorded
\* result is left as Running after a success.
THEOREM RunsAreTold == Spec => []RunIsTold
<1>1. OrchestratorInv => RunIsTold
  BY DEF OrchestratorInv, PollInv, EventsInv, HistoryInv, Ends, Successes, RunIsTold,
         PollingIsForCallbacks, HistoryIsWellFormed
<1> QED
  BY <1>1, InvStarts, InvHolds, PTL DEF Spec

\* The orchestrator never invokes a handler again that would find what it has found before:
\* since the last invocation some operation has ended or a condition has been given another
\* attempt.
THEOREM InvocationsHaveNews == Spec => InvocationsProgress
<1>1. ASSUME OrchestratorInv, Next, invocations' > invocations, invocations > 0
      PROVE  \E id \in DOMAIN operations : IsNews(id)
  <2> USE DEF OrchestratorInv
  <2>1. Reinvoke
    <3>1. invocations \in Nat
      BY <1>1 DEF CourseInv
    <3>2. ~UNCHANGED invocations
      BY <1>1, <3>1
    <3>3. ~Start
      BY <1>1, <3>1 DEF Start, CourseInv
    <3>4. CASE Moves
      BY <3>2, <3>4 DEF Moves
    <3>5. CASE Idles
      BY <3>2, <3>5 DEF Idles
    <3>6. CASE ResolveWait \/ Answer
      BY <3>2, <3>6 DEF ResolveWait, Answer
    <3> QED
      BY <1>1, <3>2, <3>3, <3>4, <3>5, <3>6, StepsAre
  <2>2. CASE phase = "reinvoke"
    BY <1>1, <2>2 DEF FetchInv
  <2>3. CASE phase = "resolve"
    <3>1. Unresolved = {}
      BY <2>1, <2>3 DEF Reinvoke
    <3>2. PICK id \in PendingNow : fetched[id].scheduled
      BY <1>1, <2>3 DEF FetchInv
    <3>3. /\ id \in DOMAIN fetched /\ IsPending(fetched[id]) /\ id \in DOMAIN operations
          /\ OpOK(id, fetched[id]) /\ Behind(fetched[id], operations[id])
          /\ Get(mark, id, Absent).status \in Terminal => fetched[id].status \in Terminal
          /\ fetched[id].status = "PENDING" => IsNews(id)
          /\ fetched[id].type = "STEP" => fetched[id].status # "STARTED"
      BY <1>1, <2>3, <3>2 DEF PendingNow, FetchInv
    <3>4. CASE WaitIsPending(fetched[id])
      <4>1. operations[id].status \in Terminal
        BY <3>1, <3>3, <3>4 DEF Unresolved, WaitIsPending, Behind
      <4>2. Get(mark, id, Absent).status \notin Terminal
        BY <3>3, <3>4 DEF WaitIsPending, Terminal
      <4> QED
        BY <3>3, <4>1, <4>2 DEF IsNews
    <3>5. CASE StepIsPending(fetched[id])
      BY <3>3, <3>5 DEF StepIsPending
    <3>6. ~CallbackIsPending(fetched[id])
      <4> SUFFICES ASSUME CallbackIsPending(fetched[id])
                   PROVE  FALSE
        OBVIOUS
      <4>1. fetched[id].type = "CALLBACK"
        BY DEF CallbackIsPending
      <4>2. OpOfCall(id, fetched[id])
        BY <3>3, <4>1 DEF OpOK
      <4>3. handler[id].kind = "callback"
        BY <1>1, <4>1, <4>2, CallIs DEF OpOfCall, Type, CourseInv
      <4> QED
        BY <3>2, <4>2, <4>3 DEF OpOfCall
    <3> QED
      BY <3>3, <3>4, <3>5, <3>6 DEF IsPending
  <2> QED
    BY <2>1, <2>2, <2>3 DEF Reinvoke
<1>2. OrchestratorInv /\ [Next]_vars =>
        [invocations' > invocations /\ invocations > 0 =>
           \E id \in DOMAIN operations : IsNews(id)]_vars
  BY <1>1
<1> QED
  BY <1>2, InvStarts, InvHolds, PTL DEF Spec, InvocationsProgress

=============================================================================
