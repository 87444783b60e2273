------------------------- MODULE DurableReplayProofs -------------------------
(***************************************************************************)
(* Theorems about DurableReplay for every deterministic handler, any       *)
(* number of operations, and any number of crashes and deadlines: what an  *)
(* invocation finds, that the invocations agree, and that all of them      *)
(* together are one run of the handler.  Those about replay take the       *)
(* history of the execution to fit into the page that                      *)
(* InitialExecutionState brings: FirstPage = OpId.                         *)
(***************************************************************************)
EXTENDS DurableReplay, SequenceTheorems, TLAPS

USE DEF vars, handler, history

-----------------------------------------------------------------------------
(* The calls of a handler.                                                 *)

\* The results before the k-th call, and the k-th call.
Prior(r, k) == [i \in 1..(k - 1) |-> r[i]]

CallAt(r, k) == Code(Prior(r, k))

LEMMA OutcomeType ==
  ASSUME NEW o \in Outcome
  PROVE  o \in [ok : BOOLEAN, value : Value \cup {NoValue}, error : Error \cup {"none"}]
<1>1. CASE \E v \in Value \cup {NoValue} : o = Success(v)
  BY <1>1 DEF Success
<1>2. CASE \E e \in Error : o = Failed(e)
  BY <1>2 DEF Failed
<1> QED
  BY <1>1, <1>2 DEF Outcome

\* What a call with these results may be.
LEMMA CodeOfResults ==
  ASSUME NEW r \in Seq(Outcome), Len(r) <= MaxCalls
  PROVE  /\ Code(r) \in Call
         /\ Code(r).kind # "return" => Len(r) < MaxCalls
<1>1. Len(r) \in 0..MaxCalls /\ r \in [1..Len(r) -> Outcome]
  BY ReplayAssumption
<1> QED
  BY <1>1, HandlerAssumption, ReplayAssumption

LEMMA PriorType ==
  ASSUME NEW r \in Seq(Outcome), NEW k \in 1..(Len(r) + 1)
  PROVE  /\ k - 1 \in Nat /\ k - 1 <= Len(r)
         /\ Prior(r, k) \in [1..(k - 1) -> Outcome]
         /\ Prior(r, k) \in Seq(Outcome)
         /\ Len(Prior(r, k)) = k - 1
<1>1. k - 1 \in Nat /\ k - 1 <= Len(r)
  OBVIOUS
<1>2. \A i \in 1..(k - 1) : r[i] \in Outcome
  BY <1>1
<1>3. Prior(r, k) \in [1..(k - 1) -> Outcome]
  BY <1>2 DEF Prior
<1> QED
  BY <1>1, <1>3

\* All the results are those before the next call.
LEMMA PriorOfAll ==
  ASSUME NEW r \in Seq(Outcome)
  PROVE  Prior(r, Len(r) + 1) = r
BY DEF Prior

LEMMA CallAtType ==
  ASSUME NEW r \in Seq(Outcome), Len(r) <= MaxCalls, NEW k \in 1..(Len(r) + 1)
  PROVE  CallAt(r, k) \in Call
BY PriorType, CodeOfResults, ReplayAssumption DEF CallAt

\* A result more changes no call before it.
LEMMA CallAtAppend ==
  ASSUME NEW r \in Seq(Outcome), NEW o \in Outcome, NEW k \in 1..(Len(r) + 1)
  PROVE  CallAt(Append(r, o), k) = CallAt(r, k)
<1>1. \A i \in 1..(k - 1) : Append(r, o)[i] = r[i]
  BY DEF Outcome
<1>2. Prior(Append(r, o), k) = Prior(r, k)
  BY <1>1 DEF Prior
<1> QED
  BY <1>2 DEF CallAt

\* SubSeq and Prior say the same.
LEMMA PriorIsSubSeq ==
  ASSUME NEW r, NEW n \in Nat, r \in [1..n -> Outcome], NEW k \in 1..(n + 1)
  PROVE  SubSeq(r, 1, k - 1) = Prior(r, k)
<1>1. r \in Seq(Outcome) /\ Len(r) = n
  OBVIOUS
<1>2. /\ SubSeq(r, 1, k - 1) \in Seq(Outcome)
      /\ Len(SubSeq(r, 1, k - 1)) = k - 1
      /\ \A i \in 1..(k - 1) : SubSeq(r, 1, k - 1)[i] = r[i]
  BY <1>1
<1>3. /\ Prior(r, k) \in Seq(Outcome) /\ Len(Prior(r, k)) = k - 1
      /\ \A i \in 1..(k - 1) : Prior(r, k)[i] = r[i]
  BY <1>1, PriorType DEF Prior
<1> QED
  BY <1>2, <1>3

\* A handler cannot tell results apart that differ in the variants of errors alone.
LEMMA CallAgrees ==
  ASSUME NEW r \in Seq(Outcome), NEW s \in Seq(Outcome),
         Len(r) <= MaxCalls, Len(s) <= MaxCalls,
         NEW k \in 1..(Len(r) + 1), k <= Len(s) + 1,
         \A i \in 1..(k - 1) : r[i].ok = s[i].ok /\ r[i].value = s[i].value
  PROVE  CallAt(r, k) = CallAt(s, k)
<1>0. k \in 1..(Len(s) + 1)
  OBVIOUS
<1>1. /\ k - 1 \in 0..MaxCalls
      /\ Prior(r, k) \in [1..(k - 1) -> Outcome]
      /\ Prior(s, k) \in [1..(k - 1) -> Outcome]
  <2>1. k - 1 \in Nat /\ k - 1 <= Len(r) /\ Prior(r, k) \in [1..(k - 1) -> Outcome]
    BY PriorType
  <2>2. Prior(s, k) \in [1..(k - 1) -> Outcome]
    BY <1>0, PriorType
  <2> QED
    BY <2>1, <2>2, ReplayAssumption
<1>2. Plain(Prior(r, k)) = Plain(Prior(s, k))
  <2>1. ASSUME NEW i \in 1..(k - 1)
        PROVE  [r[i] EXCEPT !.error = "any"] = [s[i] EXCEPT !.error = "any"]
    <3>1. r[i] \in Outcome /\ s[i] \in Outcome
      BY <1>0
    <3> QED
      BY <3>1, OutcomeType
  <2>2. DOMAIN Prior(r, k) = 1..(k - 1) /\ DOMAIN Prior(s, k) = 1..(k - 1)
    BY DEF Prior
  <2> QED
    BY <2>1, <2>2 DEF Plain, Prior
<1>3. /\ Code(Prior(r, k)) = Code(Plain(Prior(r, k)))
      /\ Code(Prior(s, k)) = Code(Plain(Prior(s, k)))
  BY <1>1, HandlerAssumption
<1> QED
  BY <1>2, <1>3 DEF CallAt

\* Only the result of a callback shares an id with an earlier call.
LEMMA OwnIds ==
  ASSUME NEW r \in Seq(Outcome), Len(r) <= MaxCalls,
         NEW k \in 1..(Len(r) + 1), NEW j \in 1..(k - 1),
         CallAt(r, k).kind \notin {"return", "result"}
  PROVE  CallAt(r, j).id # CallAt(r, k).id
<1>1. k - 1 \in 0..MaxCalls /\ Prior(r, k) \in [1..(k - 1) -> Outcome]
  BY PriorType, ReplayAssumption
<1>2. SubSeq(Prior(r, k), 1, j - 1) = Prior(Prior(r, k), j)
  <2>1. k - 1 \in Nat /\ j \in 1..((k - 1) + 1)
    BY <1>1
  <2> QED
    BY <1>1, <2>1, PriorIsSubSeq
<1>3. Prior(Prior(r, k), j) = Prior(r, j)
  BY DEF Prior
<1> QED
  BY <1>1, <1>2, <1>3, IdAssumption DEF CallAt

LEMMA CallbackFirst ==
  ASSUME NEW r \in Seq(Outcome), Len(r) <= MaxCalls,
         NEW k \in 1..(Len(r) + 1), CallAt(r, k).kind = "result"
  PROVE  \E j \in 1..(k - 1) :
           CallAt(r, j) = [kind |-> "callback", id |-> CallAt(r, k).id]
<1>1. k - 1 \in 0..MaxCalls /\ Prior(r, k) \in [1..(k - 1) -> Outcome]
  BY PriorType, ReplayAssumption
<1>2. PICK j \in 1..(k - 1) : Code(SubSeq(Prior(r, k), 1, j - 1)) =
                                [kind |-> "callback", id |-> CallAt(r, k).id]
  BY <1>1, IdAssumption DEF CallAt
<1>3. SubSeq(Prior(r, k), 1, j - 1) = Prior(Prior(r, k), j)
  <2>1. k - 1 \in Nat /\ j \in 1..((k - 1) + 1)
    BY <1>1
  <2> QED
    BY <1>1, <2>1, PriorIsSubSeq
<1>4. Prior(Prior(r, k), j) = Prior(r, j)
  BY DEF Prior
<1> QED
  BY <1>2, <1>3, <1>4 DEF CallAt

-----------------------------------------------------------------------------
(* Types.                                                                  *)

\* While an operation is at work the handler has called one.
TypeInv == TypeOK /\ (pc # "call" => Current.kind # "return")

LEMMA AbsentType == Absent \in Operation
BY ReplayAssumption DEF Absent, Operation

LEMMA ApplyType ==
  ASSUME NEW op \in Operation, NEW u \in Update
  PROVE  Apply(op, u) \in Operation
<1> USE DEF Operation, Update, Terminal
<1>1. CASE u.action = "START"
  BY <1>1, AbsentType DEF Apply, Absent
<1>2. CASE u.action = "SUCCEED"
  BY <1>2 DEF Apply
<1>3. CASE u.action = "FAIL"
  BY <1>3 DEF Apply
<1>4. CASE u.action = "RETRY"
  BY <1>4 DEF Apply
<1> QED
  BY <1>1, <1>2, <1>3, <1>4

LEMMA ReplayedOutcome ==
  ASSUME NEW kind \in Kind, NEW op \in Operation
  PROVE  Replayed(kind, op) \in Outcomes(kind)
<1>1. CASE kind \in {"wait", "callback"}
  BY <1>1 DEF Replayed, Outcomes
<1>2. CASE kind \notin {"wait", "callback"} /\ HasResult(op)
  <2>1. op.value \in Value
    BY <1>2 DEF HasResult, Operation
  <2> QED
    BY <1>2, <2>1 DEF Replayed, Outcomes
<1>3. CASE kind \notin {"wait", "callback"} /\ ~HasResult(op)
  BY <1>3 DEF Replayed, Outcomes, Kind
<1> QED
  BY <1>1, <1>2, <1>3

LEMMA OutcomesType ==
  ASSUME NEW kind \in Kind
  PROVE  Outcomes(kind) \subseteq Outcome
BY DEF Kind, Outcomes, Outcome, Error

LEMMA ReturnedType ==
  ASSUME NEW kind, NEW u \in Update
  PROVE  Returned(kind, u) \in Outcome
BY DEF Returned, Update, Outcome, Error

LEMMA CallType ==
  ASSUME TypeOK
  PROVE  /\ Current \in Call
         /\ Current.kind \in Kind \cup {"return"} /\ Current.id \in OpId
         /\ Current.kind # "return" => Len(results) < MaxCalls
<1>1. results \in Seq(Outcome) /\ Len(results) <= MaxCalls
  BY DEF TypeOK
<1> QED
  BY <1>1, CodeOfResults DEF Current, Call

LEMMA RecordingType ==
  ASSUME TypeOK
  PROVE  /\ Recording \in [OpId -> Operation]
         /\ Refreshed \in [OpId -> Operation]
<1>1. /\ ops \in [OpId -> Operation] /\ cache \in [OpId -> Operation]
      /\ update \in Update /\ update.id \in OpId
  BY DEF TypeOK, Update
<1>2. /\ Apply(ops[update.id], update) \in Operation
      /\ Apply(cache[update.id], update) \in Operation
  BY <1>1, ApplyType
<1> QED
  BY <1>1, <1>2 DEF Recording, Refreshed

LEMMA CompletionsType ==
  ASSUME NEW op \in Operation, IsPending(op)
  PROVE  Completions(op) \subseteq Operation
<1> USE DEF Operation, Terminal
<1>1. ASSUME NEW errors \in SUBSET Terminal
      PROVE  Endings(op, errors) \subseteq Operation
  BY ZenonT(60) DEF Endings
<1>2. {"FAILED", "TIMED_OUT"} \in SUBSET Terminal
      /\ {"FAILED", "TIMED_OUT", "STOPPED"} \in SUBSET Terminal
  OBVIOUS
<1>3. CASE op.type \in {"CALLBACK", "INVOKE"}
  <2>1. Endings(op, {"FAILED", "TIMED_OUT"}) \subseteq Operation
        /\ Endings(op, {"FAILED", "TIMED_OUT", "STOPPED"}) \subseteq Operation
    BY <1>1, <1>2
  <2> QED
    BY <1>3, <2>1 DEF Completions
<1>4. CASE op.type \in {"STEP", "WAIT"}
  BY <1>4 DEF Completions
<1> QED
  BY <1>3, <1>4 DEF IsPending

LEMMA TypeInit == Init => TypeInv
<1> SUFFICES ASSUME Init
             PROVE  TypeInv
  OBVIOUS
<1>1. NoUpdate \in Update
  BY ReplayAssumption DEF NoUpdate, Update
<1>2. Idle \in [OpId -> Operation]
  BY AbsentType DEF Idle
<1> QED
  BY <1>1, <1>2, ReplayAssumption DEF Init, TypeInv, TypeOK

\* The end of an invocation, in whatever way.
LEMMA ForgetType ==
  ASSUME TypeInv, Forget, ops' \in [OpId -> Operation],
         invocation' \in {"due", "running", "suspended", "over"},
         output' \in {"none", "succeeded", "failed", "rejected"},
         interruptions' \in 0..MaxInterruptions, UNCHANGED history
  PROVE  TypeInv'
<1>1. NoUpdate \in Update
  BY ReplayAssumption DEF NoUpdate, Update
<1>2. Idle \in [OpId -> Operation]
  BY AbsentType DEF Idle
<1> QED
  BY <1>1, <1>2, ReplayAssumption DEF Forget, TypeInv, TypeOK

\* An operation returns to the handler.
LEMMA ReturnType ==
  ASSUME TypeInv, Current.kind # "return", NEW o \in Outcome, Return(o),
         UNCHANGED <<ops, invocation, cache, output, interruptions, runs>>
  PROVE  TypeInv'
<1>1. NoUpdate \in Update
  BY ReplayAssumption DEF NoUpdate, Update
<1>2. Len(results) < MaxCalls
  BY CallType DEF TypeInv
<1>3. results' \in Seq(Outcome) /\ Len(results') <= MaxCalls
  BY <1>2, ReplayAssumption DEF TypeInv, TypeOK, Return
<1>4. observed' \in Seq(Outcome) /\ Len(observed') <= MaxCalls
  BY <1>2, ReplayAssumption DEF TypeInv, TypeOK, Return
<1> QED
  BY <1>1, <1>3, <1>4 DEF TypeInv, TypeOK, Return

\* An operation sends an update.
LEMMA SendType ==
  ASSUME TypeInv, Current.kind \in Kind,
         NEW action \in {"START", "SUCCEED", "FAIL", "RETRY"},
         NEW value \in Value \cup {NoValue}, NEW attempt \in 0..MaxAttempts,
         Send(action, value, attempt)
  PROVE  TypeInv'
<1>1. Type(Current.kind) \in {"STEP", "WAIT", "CALLBACK", "INVOKE"} /\ Current.id \in OpId
  BY CallType DEF Kind, Type, TypeInv
<1>2. update' \in Update
  BY <1>1 DEF Send, Update
<1>3. Current' = Current
  BY DEF Send, Current
<1> QED
  BY <1>2, <1>3 DEF Send, TypeInv, TypeOK, Kind

LEMMA TypeStep == TypeInv /\ [Next]_vars => TypeInv'
<1> SUFFICES ASSUME TypeInv, [Next]_vars
             PROVE  TypeInv'
  OBVIOUS
<1>a. /\ Current.kind \in Kind \cup {"return"} /\ Current.id \in OpId
      /\ cache[Current.id] \in Operation
  BY CallType DEF TypeInv, TypeOK
<1>b. Decided = "replay" \/ Decided = "start" \/ Decided = "run" => Current.kind # "return"
  BY DEF Decided, Decision
<1>1. CASE UNCHANGED vars
  BY <1>1 DEF TypeInv, TypeOK, Current
<1>2. CASE Invoke
  <2>1. cache' \in [OpId -> Operation]
    BY <1>2, AbsentType DEF Invoke, TypeInv, TypeOK
  <2> QED
    BY <1>2, <2>1 DEF Invoke, TypeInv, TypeOK, Current
<1>3. CASE Crash \/ Deadline
  <2>1. ops' \in [OpId -> Operation] /\ interruptions' \in 0..MaxInterruptions
    BY <1>3, RecordingType, ReplayAssumption DEF Crash, Deadline, Interrupt, TypeInv, TypeOK
  <2> QED
    BY <1>3, <2>1, ForgetType DEF Crash, Deadline, Interrupt, EndPending, TypeInv, TypeOK
<1>4. CASE Suspend \/ StartedToSuspend \/ Fail \/ Succeed
  BY <1>4, ForgetType DEF Suspend, StartedToSuspend, Acknowledged, EndPending, Fail,
     Succeed, EndWith, TypeInv, TypeOK
<1>5. CASE Replay
  <2>1. Replayed(Current.kind, cache[Current.id]) \in Outcome
    BY <1>5, <1>a, <1>b, ReplayedOutcome, OutcomesType DEF Replay
  <2> QED
    BY <1>5, <1>b, <2>1, ReturnType DEF Replay
<1>6. CASE Completed
  <2>1. Returned(Current.kind, update) \in Outcome /\ Current.kind # "return"
    BY <1>6, ReturnedType DEF Completed, Acknowledged, At, TypeInv, TypeOK
  <2> QED
    BY <1>6, <2>1, ReturnType DEF Completed, Acknowledged
<1>7. CASE CheckpointStart
  BY <1>7, <1>a, <1>b, SendType, ReplayAssumption DEF CheckpointStart
<1>8. CASE StepEnds \/ ConditionMet
  BY <1>8, <1>a, SendType, ReplayAssumption DEF StepEnds, ConditionMet, Kind
<1>9. CASE ConditionNotMet
  <2> DEFINE attempt == CurrentAttempt(cache[Current.id])
  <2>1. attempt \in 1..MaxAttempts
    BY <1>a, ReplayAssumption DEF CurrentAttempt, Operation
  <2>2. CASE attempt >= MaxAttempts
    BY <1>9, <1>a, <2>2, SendType, ReplayAssumption DEF ConditionNotMet, Kind
  <2>3. CASE ~(attempt >= MaxAttempts)
    <3>1. attempt + 1 \in 0..MaxAttempts /\ Send("RETRY", NoValue, attempt + 1)
      BY <1>9, <2>1, <2>3, ReplayAssumption DEF ConditionNotMet
    <3> QED
      BY <1>9, <1>a, <3>1, SendType DEF ConditionNotMet, Kind
  <2> QED
    BY <2>2, <2>3
<1>10. CASE Run \/ StartedToRun
  <2>1. NoUpdate \in Update
    BY ReplayAssumption DEF NoUpdate, Update
  <2>2. Current' = Current /\ Current.kind # "return"
    BY <1>10, <1>b DEF Run, StartedToRun, Acknowledged, At, BeginUserCode, Current, TypeInv
  <2>3. /\ BeginUserCode
        /\ UNCHANGED <<ops, invocation, cache, results, output, interruptions, observed>>
    BY <1>10 DEF Run, StartedToRun, Acknowledged
  <2>4. runs' \in [OpId -> Nat]
    BY <1>a, <2>3 DEF BeginUserCode, TypeInv, TypeOK
  <2> QED
    BY <2>1, <2>2, <2>3, <2>4 DEF BeginUserCode, TypeInv, TypeOK
<1>11. CASE Record
  <2>1. Current' = Current /\ Current.kind # "return"
    BY <1>11 DEF Record, At, Current, TypeInv
  <2> QED
    BY <1>11, <2>1, RecordingType DEF Record, TypeInv, TypeOK
<1>12. ASSUME NEW id \in OpId, Complete(id)
       PROVE  TypeInv'
  <2>1. ops[id] \in Operation /\ IsPending(ops[id])
    BY <1>12 DEF Complete, TypeInv, TypeOK
  <2>2. Completions(ops[id]) \subseteq Operation
    BY <2>1, CompletionsType
  <2> QED
    BY <1>12, <2>2 DEF Complete, TypeInv, TypeOK, Current
<1> QED
  BY <1>1, <1>2, <1>3, <1>4, <1>5, <1>6, <1>7, <1>8, <1>9, <1>10, <1>11, <1>12
     DEF Next, HandlerStep

LEMMA TypeInvariance == Spec => []TypeInv
BY TypeInit, TypeStep, PTL DEF Spec

\* Whatever the handler does and whenever it is interrupted, its operations, updates and
\* results keep their types, and no more attempts are recorded than the strategy allows.
THEOREM ReplayTypes == Spec => []TypeOK
<1>1. TypeInv => TypeOK
  BY DEF TypeInv
<1> QED
  BY <1>1, TypeInvariance, PTL

-----------------------------------------------------------------------------
(* The inductive invariant.                                                *)

Coded == {"atMostOnce", "atLeastOnce", "condition"}

\* The statuses that the operation of a call goes through.
Statuses(kind) ==
  CASE kind = "atMostOnce"  -> {"STARTED", "SUCCEEDED", "FAILED"}
    [] kind = "atLeastOnce" -> {"SUCCEEDED", "FAILED"}
    [] kind = "condition"   -> {"STARTED", "PENDING", "READY", "SUCCEEDED", "FAILED"}
    [] kind = "wait"        -> {"STARTED", "SUCCEEDED"}
    [] kind = "callback"    -> {"STARTED", "SUCCEEDED", "FAILED", "TIMED_OUT"}
    [] kind = "invoke"      -> {"STARTED", "SUCCEEDED", "FAILED", "TIMED_OUT", "STOPPED"}
    [] OTHER                -> {}

Legal(kind, op) == op.type = Type(kind) /\ op.status \in Statuses(kind)

\* Only a condition that has failed may give another error when it is replayed.
Same(kind, a, b) ==
  /\ a.ok = b.ok
  /\ a.value = b.value
  /\ kind # "condition" => a = b

\* Who finds this operation is given this outcome.
Settled(kind, op, outcome) ==
  /\ Decision(kind, op) = "replay"
  /\ Same(kind, Replayed(kind, op), outcome)

\* What is known of an operation, and what it is: the service may have ended it since.
Behind(seen, op) == op = seen \/ (IsPending(seen) /\ op \in Completions(seen))

\* Every operation belongs to a call that has returned or is the next to return.
HistoryOf(r, map) ==
  \A id \in OpId :
    IF map[id].status = "NONE" THEN map[id] = Absent
    ELSE \E k \in 1..(Len(r) + 1) :
           CallAt(r, k).id = id /\ Legal(CallAt(r, k).kind, map[id])

\* Every call that has ever returned would return the same from these operations.
SettledIn(r, map) ==
  \A k \in 1..Len(r) :
    /\ CallAt(r, k).kind # "return"
    /\ Settled(CallAt(r, k).kind, map[CallAt(r, k).id], r[k])

Agree(r, s) ==
  /\ Len(r) <= Len(s)
  /\ \A k \in 1..Len(r) : Same(CallAt(s, k).kind, r[k], s[k])

Running == invocation = "running"

\* The operation that the handler has called, as it is known.
Seen == cache[Current.id]

CacheInv ==
  IF Running
  THEN SettledIn(observed, cache) /\ \A id \in OpId : Behind(cache[id], ops[id])
  ELSE results = <<>> /\ pc = "call"

\* An update that suits the call.
Applies(kind, u) ==
  /\ u.id = Current.id
  /\ u.type = Type(kind)
  /\ u.action = "START" => kind \in Kind \ {"atLeastOnce", "result"}
  /\ u.action # "START" => kind \in Coded
  /\ u.action = "SUCCEED" => u.value \in Value
  /\ u.action = "RETRY" => kind = "condition"

\* User code runs, and updates are sent, for a call that no invocation has seen return.
RunInv ==
  Running /\ pc = "run" =>
    /\ Current.kind \in Coded
    /\ Seen.status \notin Terminal
    /\ Current.kind # "atLeastOnce" => Seen.status \in {"STARTED", "PENDING", "READY"}

CheckpointInv ==
  Running /\ pc = "checkpoint" =>
    /\ Current.kind \in Kind /\ Applies(Current.kind, update)
    /\ update.type = "STEP" => Seen.status \notin Terminal
    /\ update.type \in {"WAIT", "CALLBACK"} => Seen.status = "NONE"

RecordedInv ==
  Running /\ pc = "recorded" =>
    /\ Current.kind \in Kind /\ Applies(Current.kind, update)
    /\ Seen.type = update.type
    /\ Seen.status = Apply(Absent, update).status
    /\ update.action = "SUCCEED" => Seen.value = update.value

FrontierInv == Running /\ pc # "call" => Len(results) = Len(observed)

OutputInv == output = "none" <=> invocation # "over"

ReplayInv ==
  /\ TypeInv
  /\ HistoryOf(observed, ops)
  /\ SettledIn(observed, ops)
  /\ Agree(results, observed)
  /\ CacheInv
  /\ RunInv /\ CheckpointInv /\ RecordedInv /\ FrontierInv
  /\ OutputInv

-----------------------------------------------------------------------------
(* What the service may do to an operation.                                *)

LEMMA BehindKeepsType ==
  ASSUME NEW seen \in Operation, NEW op \in Operation, Behind(seen, op)
  PROVE  /\ op.type = seen.type
         /\ op.status = "NONE" <=> seen.status = "NONE"
         /\ seen.status \in Terminal \cup {"NONE", "READY"} => op = seen
         /\ IsPending(op) => op = seen
         /\ seen.type = "STEP" => \/ op = seen
                                  \/ op = [seen EXCEPT !.status = "READY"]
BY DEF Behind, IsPending, Completions, Endings, Operation, Terminal

LEMMA BehindIsLegal ==
  ASSUME NEW kind \in Kind, NEW seen \in Operation, NEW op \in Operation,
         Behind(seen, op), Legal(kind, op)
  PROVE  Legal(kind, seen)
BY ZenonT(60) DEF Behind, Legal, IsPending, Completions, Endings, Operation, Kind, Type, Statuses,
       Terminal

\* What the service adds to an operation that a call has returned for, the call would
\* not have told: a callback may be answered after its handle is returned.
LEMMA BehindIsSettled ==
  ASSUME NEW kind \in Kind, NEW seen \in Operation, NEW op \in Operation,
         NEW outcome, Behind(seen, op), Settled(kind, seen, outcome)
  PROVE  Settled(kind, op, outcome)
<1>1. CASE op = seen
  BY <1>1
<1>2. CASE IsPending(seen) /\ op \in Completions(seen)
  <2>1. seen.type = Type(kind) /\ seen.status \in {"STARTED", "PENDING"}
    BY <1>2 DEF Settled, Decision, IsPending, Kind
  <2>2. kind = "callback"
    BY <1>2, <2>1 DEF Settled, Decision, StepDecision, ConditionDecision, WaitDecision,
       ResultDecision, InvokeDecision, HasResult, IsPending, Kind, Type, Terminal
  <2>3. op.type = seen.type /\ op.status # "NONE"
    BY <2>1, BehindKeepsType
  <2> QED
    BY <2>1, <2>2, <2>3 DEF Settled, Decision, CallbackDecision, Replayed, Type
<1> QED
  BY <1>1, <1>2 DEF Behind

\* The service and the cache make the same of an update, whatever has happened to the
\* operation in between.
LEMMA ApplyAgrees ==
  ASSUME NEW seen \in Operation, NEW op \in Operation, NEW u \in Update,
         Behind(seen, op), u.action = "START" \/ seen.type = "STEP" \/ op = seen
  PROVE  Apply(op, u) = Apply(seen, u)
<1>1. CASE u.action = "START"
  BY <1>1 DEF Apply
<1>2. CASE op = [seen EXCEPT !.status = "READY"] /\ u.action # "START"
  BY <1>2 DEF Apply, Operation, Update
<1> QED
  BY <1>1, <1>2, BehindKeepsType

LEMMA ApplyIsLegal ==
  ASSUME NEW kind \in Kind, NEW op \in Operation, NEW u \in Update, Applies(kind, u)
  PROVE  /\ Legal(kind, Apply(op, u))
         /\ Apply(op, u).type = u.type
         /\ Apply(op, u).status = Apply(Absent, u).status
         /\ u.action = "SUCCEED" => Apply(op, u).value = u.value
         /\ Apply(op, u).status # "NONE"
<1> USE DEF Update, Operation, Legal, Statuses, Applies, Coded
<1>1. CASE u.action = "START"
  BY <1>1 DEF Apply, Absent, Kind
<1>2. CASE u.action = "SUCCEED"
  BY <1>2, AbsentType DEF Apply
<1>3. CASE u.action = "FAIL"
  BY <1>3, AbsentType DEF Apply
<1>4. CASE u.action = "RETRY"
  BY <1>4, AbsentType DEF Apply
<1> QED
  BY <1>1, <1>2, <1>3, <1>4

-----------------------------------------------------------------------------
(* Where the handler stands.                                               *)

LEMMA Standing ==
  ASSUME ReplayInv
  PROVE  /\ results \in Seq(Outcome) /\ Len(results) <= MaxCalls
         /\ observed \in Seq(Outcome) /\ Len(observed) <= MaxCalls
         /\ Len(results) <= Len(observed)
         /\ Len(results) + 1 \in 1..(Len(observed) + 1)
         /\ ops \in [OpId -> Operation] /\ cache \in [OpId -> Operation]
         /\ update \in Update
         /\ Current.kind \in Kind \cup {"return"} /\ Current.id \in OpId
         /\ Seen \in Operation
BY CallType DEF ReplayInv, TypeInv, TypeOK, Agree, Seen

\* The handler makes the calls that it has made in every invocation before.
LEMMA CurrentIsNext ==
  ASSUME ReplayInv
  PROVE  Current = CallAt(observed, Len(results) + 1)
<1>1. Current = CallAt(results, Len(results) + 1)
  BY Standing, PriorOfAll DEF Current, CallAt
<1>2. \A i \in 1..Len(results) : results[i].ok = observed[i].ok
                                /\ results[i].value = observed[i].value
  BY DEF ReplayInv, Agree, Same
<1>3. CallAt(results, Len(results) + 1) = CallAt(observed, Len(results) + 1)
  BY <1>2, Standing, CallAgrees
<1> QED
  BY <1>1, <1>3

\* An operation that is there belongs to the call that asks for it.
LEMMA CurrentIsLegal ==
  ASSUME ReplayInv, Running, Current.kind \in Kind \ {"result"}
  PROVE  /\ ops[Current.id].status # "NONE" => Legal(Current.kind, ops[Current.id])
         /\ Seen.status # "NONE" => Legal(Current.kind, Seen)
<1> DEFINE p == Len(results) + 1
           op == ops[Current.id]
<1>1. Current = CallAt(observed, p) /\ p \in 1..(Len(observed) + 1)
  BY CurrentIsNext, Standing
<1>2. op \in Operation /\ Behind(Seen, op)
  BY Standing DEF ReplayInv, CacheInv, Seen
<1>3. ASSUME op.status # "NONE"
      PROVE  Legal(Current.kind, op)
  <2>1. PICK k \in 1..(Len(observed) + 1) :
          CallAt(observed, k).id = Current.id /\ Legal(CallAt(observed, k).kind, op)
    BY <1>3, Standing DEF ReplayInv, HistoryOf
  <2>2. CallAt(observed, k).kind \notin {"return", "result"}
    BY <2>1 DEF Legal, Statuses
  <2>3. Current.kind \notin {"return", "result"}
    BY DEF Kind
  <2>4. ~(k < p)
    <3> SUFFICES ASSUME k < p PROVE FALSE
      OBVIOUS
    <3>1. k \in 1..(p - 1)
      BY Standing
    <3> QED
      BY <1>1, <2>1, <2>3, <3>1, Standing, OwnIds
  <2>5. ~(p < k)
    <3> SUFFICES ASSUME p < k PROVE FALSE
      OBVIOUS
    <3>1. p \in 1..(k - 1)
      BY <1>1, Standing
    <3> QED
      BY <1>1, <2>1, <2>2, <3>1, Standing, OwnIds
  <2>6. k = p
    BY <1>1, <2>4, <2>5, Standing
  <2> QED
    BY <1>1, <2>1, <2>6
<1>4. Seen.status # "NONE" => op.status # "NONE"
  BY <1>2, Standing, BehindKeepsType
<1> HIDE DEF op
<1> QED
  BY <1>2, <1>3, <1>4, Standing, BehindIsLegal DEF op

\* A call that is not answered from the cache is one that no invocation has seen return.
LEMMA NewCall ==
  ASSUME ReplayInv, Running, Decided # "replay"
  PROVE  Len(results) = Len(observed)
<1> SUFFICES ASSUME Len(results) # Len(observed)
             PROVE  FALSE
  OBVIOUS
<1>1. Len(results) + 1 \in 1..Len(observed)
  BY Standing
<1>2. Decision(Current.kind, Seen) = "replay"
  BY <1>1, CurrentIsNext DEF ReplayInv, CacheInv, SettledIn, Settled, Seen
<1> QED
  BY <1>2 DEF Decided, Seen

\* An invocation that ends leaves what is recorded, and what has been seen of it.
LEMMA ForgetAgreement ==
  ASSUME ReplayInv, TypeInv', Forget, ~Running', OutputInv', UNCHANGED observed,
         HistoryOf(observed, ops'), SettledIn(observed, ops')
  PROVE  ReplayInv'
<1>1. results' = <<>> /\ pc' = "call"
  BY DEF Forget
<1>2. Agree(results', observed')
  BY <1>1, Standing DEF Agree
<1> QED
  BY <1>1, <1>2 DEF ReplayInv, CacheInv, RunInv, CheckpointInv, RecordedInv, FrontierInv,
     Running

\* The update that is under way is for a call that nobody has seen return.
LEMMA RecordingKeeps ==
  ASSUME ReplayInv, Running, pc = "checkpoint"
  PROVE  /\ HistoryOf(observed, Recording)
         /\ SettledIn(observed, Recording)
         /\ \A k \in 1..Len(observed) : CallAt(observed, k).id # update.id
<1>1. /\ update.id = Current.id /\ Current.kind \in Kind /\ Applies(Current.kind, update)
      /\ Len(results) = Len(observed)
  BY DEF ReplayInv, CheckpointInv, FrontierInv, Applies
<1>2. Current = CallAt(observed, Len(observed) + 1)
  BY <1>1, CurrentIsNext
<1>3. Current.kind \notin {"return", "result"}
  BY <1>1 DEF Applies, Coded, Kind
<1>4. \A k \in 1..Len(observed) : CallAt(observed, k).id # update.id
  <2>1. Len(observed) + 1 \in 1..(Len(observed) + 1)
        /\ \A k \in 1..Len(observed) : k \in 1..((Len(observed) + 1) - 1)
    BY Standing
  <2> QED
    BY <1>1, <1>2, <1>3, <2>1, Standing, OwnIds
<1>5. Legal(Current.kind, Apply(ops[update.id], update))
  BY <1>1, Standing, ApplyIsLegal
<1>6. \A id \in OpId : Recording[id] = IF id = update.id THEN Apply(ops[update.id], update)
                                      ELSE ops[id]
  BY Standing DEF Recording
<1>7. HistoryOf(observed, Recording)
  <2>1. Apply(ops[update.id], update).status # "NONE"
    BY <1>1, Standing, ApplyIsLegal
  <2>2. Len(observed) + 1 \in 1..(Len(observed) + 1)
    BY Standing
  <2> QED
    BY <1>1, <1>2, <1>5, <1>6, <2>1, <2>2 DEF ReplayInv, HistoryOf
<1>8. SettledIn(observed, Recording)
  <2>1. \A k \in 1..Len(observed) : CallAt(observed, k).id \in OpId
    BY Standing, CallAtType DEF Call
  <2> QED
    BY <1>4, <1>6, <2>1 DEF ReplayInv, SettledIn
<1> QED
  BY <1>4, <1>7, <1>8

-----------------------------------------------------------------------------
(* The invariant is inductive.                                             *)

LEMMA ReplayInit == Init => ReplayInv
<1> SUFFICES ASSUME Init
             PROVE  ReplayInv
  OBVIOUS
<1>1. Len(results) = 0 /\ Len(observed) = 0 /\ ~Running
  BY DEF Init, Running
<1>2. HistoryOf(observed, ops)
  BY DEF Init, Idle, HistoryOf, Absent
<1>3. SettledIn(observed, ops) /\ Agree(results, observed)
  BY <1>1 DEF SettledIn, Agree
<1> QED
  BY <1>1, <1>2, <1>3, TypeInit DEF Init, ReplayInv, CacheInv, RunInv, CheckpointInv,
     RecordedInv, FrontierInv, OutputInv

\* An invocation that knows the whole history finds every call settled.
LEMMA InvokeAgreement ==
  ASSUME ReplayInv, TypeInv', Invoke, FirstPage = OpId
  PROVE  ReplayInv'
<1>1. cache' = ops /\ results = <<>> /\ pc = "call" /\ Running'
  BY Standing DEF Invoke, ReplayInv, CacheInv, Running
<1>2. CacheInv'
  BY <1>1 DEF Invoke, ReplayInv, CacheInv, Behind
<1> QED
  BY <1>1, <1>2 DEF Invoke, ReplayInv, RunInv, CheckpointInv, RecordedInv, FrontierInv,
     OutputInv

LEMMA EndAgreement ==
  ASSUME ReplayInv, TypeInv',
         Crash \/ Deadline \/ Suspend \/ StartedToSuspend \/ Fail \/ Succeed
  PROVE  ReplayInv'
<1>1. HistoryOf(observed, ops') /\ SettledIn(observed, ops')
  BY RecordingKeeps DEF ReplayInv, Running, Crash, Deadline, Interrupt, Suspend,
     StartedToSuspend, Acknowledged, Fail, Succeed
<1>2. OutputInv' /\ ~Running' /\ Forget /\ observed' = observed
  BY DEF ReplayInv, OutputInv, Running, Crash, Deadline, Interrupt, Suspend,
     StartedToSuspend, Acknowledged, Fail, Succeed, EndPending, EndWith, At
<1> QED
  BY <1>1, <1>2, ForgetAgreement

\* A new update suits the call that sends it.
LEMMA SendAgreement ==
  ASSUME ReplayInv, TypeInv', CheckpointStart \/ StepEnds \/ ConditionMet \/ ConditionNotMet
  PROVE  ReplayInv'
<1>1. PICK action \in {"START", "SUCCEED", "FAIL", "RETRY"},
           value \in Value \cup {NoValue}, attempt \in Int :
        /\ Send(action, value, attempt)
        /\ action = "START" => Decided = "start" /\ pc = "call"
        /\ action # "START" => pc = "run" /\ Current.kind \in Coded
        /\ action = "SUCCEED" => value \in Value
        /\ action = "RETRY" => Current.kind = "condition"
  <2>1. CurrentAttempt(Seen) + 1 \in Int
    BY Standing, ReplayAssumption DEF CurrentAttempt, Operation
  <2>2. CASE CheckpointStart
    BY <2>2 DEF CheckpointStart, At
  <2>3. CASE StepEnds \/ ConditionMet
    BY <2>3 DEF StepEnds, ConditionMet, At, Coded
  <2>4. CASE ConditionNotMet
    <3>1. CASE Send("FAIL", NoValue, 0)
      BY <2>4, <3>1 DEF ConditionNotMet, At, Coded
    <3>2. CASE Send("RETRY", NoValue, CurrentAttempt(Seen) + 1)
      BY <2>1, <2>4, <3>2 DEF ConditionNotMet, At, Coded
    <3> QED
      BY <2>4, <3>1, <3>2 DEF ConditionNotMet, Seen
  <2> QED
    BY <2>2, <2>3, <2>4
<1>2. Running /\ pc' = "checkpoint" /\ Current' = Current /\ Seen' = Seen
  BY <1>1 DEF Send, Current, Seen, Running, CheckpointStart, StepEnds, ConditionMet,
     ConditionNotMet, At
<1>3. Len(results) = Len(observed)
  BY <1>1, <1>2, NewCall DEF ReplayInv, FrontierInv
<1>4. action = "START" => /\ Current.kind \in Kind \ {"atLeastOnce", "result"}
                          /\ Type(Current.kind) = "STEP" => Seen.status \notin Terminal
                          /\ Type(Current.kind) \in {"WAIT", "CALLBACK"} => Seen.status = "NONE"
  <2> SUFFICES ASSUME action = "START"
               PROVE  /\ Current.kind \in Kind \ {"atLeastOnce", "result"}
                      /\ Type(Current.kind) = "STEP" => Seen.status \notin Terminal
                      /\ Type(Current.kind) \in {"WAIT", "CALLBACK"} => Seen.status = "NONE"
    OBVIOUS
  <2>1. Decision(Current.kind, Seen) = "start"
    BY <1>1 DEF Decided, Seen
  <2>2. Current.kind \in Kind \ {"atLeastOnce", "result"}
    BY <2>1, Standing DEF Decision, StepDecision, ResultDecision, Kind
  <2>3. Seen.status # "NONE" => Legal(Current.kind, Seen)
    BY <1>2, <2>2, CurrentIsLegal
  <2>4. Type(Current.kind) = "STEP" => Seen.status \notin Terminal
    BY <2>1, <2>2 DEF Decision, StepDecision, ConditionDecision, Kind, Type, Terminal
  <2>5. Type(Current.kind) \in {"WAIT", "CALLBACK"} => Seen.status = "NONE"
    BY <2>1, <2>2, <2>3 DEF Decision, WaitDecision, CallbackDecision, Kind, Type, Legal,
       Statuses
  <2> QED
    BY <2>2, <2>4, <2>5
<1>5. action # "START" => /\ Current.kind \in Coded /\ Type(Current.kind) = "STEP"
                          /\ Seen.status \notin Terminal
  BY <1>1, <1>2 DEF ReplayInv, RunInv, Coded, Type
<1>6. CheckpointInv'
  <2>1. update'.id = Current.id /\ update'.type = Type(Current.kind)
        /\ update'.action = action /\ update'.value = value
    BY <1>1 DEF Send
  <2>2. Current.kind \in Kind
    BY <1>4, <1>5 DEF Coded, Kind
  <2>3. Applies(Current.kind, update)'
    BY <1>1, <1>2, <1>4, <1>5, <2>1 DEF Applies
  <2> QED
    BY <1>2, <1>4, <1>5, <2>1, <2>2, <2>3 DEF CheckpointInv
<1> QED
  BY <1>1, <1>2, <1>3, <1>6 DEF Send, ReplayInv, CacheInv, RunInv, RecordedInv, FrontierInv,
     OutputInv, Running

\* User code begins.
LEMMA RunAgreement ==
  ASSUME ReplayInv, TypeInv', Run \/ StartedToRun
  PROVE  ReplayInv'
<1>1. /\ Running /\ BeginUserCode /\ pc' = "run"
      /\ UNCHANGED <<ops, invocation, cache, results, output, observed>>
  BY DEF Run, StartedToRun, Acknowledged, At, Running, BeginUserCode
<1>2. Current' = Current /\ Seen' = Seen /\ Running'
  BY <1>1 DEF Current, Seen, Running
<1>3. Len(results) = Len(observed)
  BY <1>1, NewCall DEF Run, StartedToRun, Acknowledged, At, ReplayInv, FrontierInv
<1>4. RunInv'
  <2>1. CASE Run
    <3>1. Decision(Current.kind, Seen) = "run"
      BY <2>1 DEF Run, Decided, Seen
    <3>2. Current.kind \in Coded
      BY <3>1, Standing DEF Decision, WaitDecision, CallbackDecision, ResultDecision,
         InvokeDecision, Kind, Coded
    <3>3. Seen.status # "NONE" => Legal(Current.kind, Seen)
      BY <1>1, <3>2, CurrentIsLegal DEF Coded, Kind
    <3>4. /\ Seen.status \notin Terminal
          /\ Current.kind # "atLeastOnce" => Seen.status \in {"STARTED", "PENDING", "READY"}
      BY <3>1, <3>2, <3>3 DEF Decision, StepDecision, ConditionDecision, Coded, Legal,
         Statuses, Terminal
    <3> QED
      BY <1>2, <3>2, <3>4 DEF RunInv
  <2>2. CASE StartedToRun
    <3>1. /\ Current.kind \in Kind /\ Applies(Current.kind, update)
          /\ Seen.status = "STARTED" /\ update.type = "STEP"
      BY <1>1, <2>2 DEF StartedToRun, Acknowledged, At, ReplayInv, RecordedInv, Apply, Absent
    <3>2. Current.kind \in Coded
      BY <3>1 DEF Applies, Kind, Type, Coded
    <3> QED
      BY <1>2, <3>1, <3>2 DEF RunInv, Terminal
  <2> QED
    BY <2>1, <2>2
<1> QED
  BY <1>1, <1>2, <1>3, <1>4 DEF ReplayInv, CacheInv, CheckpointInv, RecordedInv,
     FrontierInv, OutputInv

\* An update is recorded, and the cache makes the same of it as the service.
LEMMA RecordAgreement ==
  ASSUME ReplayInv, TypeInv', Record
  PROVE  ReplayInv'
<1>1. /\ Running /\ pc = "checkpoint" /\ Running' /\ pc' = "recorded"
      /\ ops' = Recording /\ cache' = Refreshed
      /\ UNCHANGED <<results, update, output, observed>> /\ Current' = Current
  BY DEF Record, At, Running, Current
<1>2. /\ Current.kind \in Kind /\ Applies(Current.kind, update) /\ update.id = Current.id
      /\ update.type = "STEP" => Seen.status \notin Terminal
  BY <1>1 DEF ReplayInv, CheckpointInv, Applies
<1> DEFINE id == update.id
<1>3. /\ id \in OpId /\ cache[id] \in Operation /\ ops[id] \in Operation
      /\ Behind(cache[id], ops[id])
  BY <1>1, <1>2, Standing DEF ReplayInv, CacheInv, Seen
<1>4. Apply(ops[id], update) = Apply(cache[id], update)
  <2>1. CASE update.action = "START"
    BY <1>3, <2>1, Standing, ApplyAgrees
  <2>2. CASE update.action # "START"
    <3>1. Current.kind \in Coded
      BY <1>2, <2>2 DEF Applies
    <3>2. cache[id].status # "NONE" => cache[id].type = "STEP"
      BY <1>1, <1>2, <3>1, CurrentIsLegal DEF Seen, Legal, Coded, Kind, Type
    <3>3. cache[id].status = "NONE" => ops[id] = cache[id]
      BY <1>3, BehindKeepsType
    <3> QED
      BY <1>3, <3>2, <3>3, Standing, ApplyAgrees
  <2> QED
    BY <2>1, <2>2
<1>5. \A j \in OpId : /\ ops'[j] = IF j = id THEN Apply(ops[id], update) ELSE ops[j]
                      /\ cache'[j] = ops'[j] \/ (j # id /\ cache'[j] = cache[j])
  <2>1. \A j \in OpId : Recording[j] = IF j = id THEN Apply(ops[id], update) ELSE ops[j]
    BY Standing DEF Recording
  <2>2. \A j \in OpId : Refreshed[j] = Recording[j] \/ (j # id /\ Refreshed[j] = cache[j])
    <3>1. CASE Current.kind = "callback"
      BY <1>3, <2>1, <3>1 DEF Refreshed
    <3>2. CASE Current.kind # "callback"
      BY <1>4, <2>1, <3>2, Standing DEF Refreshed
    <3> QED
      BY <3>1, <3>2
  <2> QED
    BY <1>1, <2>1, <2>2
<1>6. \A j \in OpId : Behind(cache'[j], ops'[j])
  BY <1>1, <1>5 DEF ReplayInv, CacheInv, Behind
<1>7. HistoryOf(observed, ops') /\ SettledIn(observed, ops')
  BY <1>1, RecordingKeeps
<1>8. SettledIn(observed, cache')
  <2> SUFFICES ASSUME NEW k \in 1..Len(observed)
               PROVE  /\ CallAt(observed, k).kind # "return"
                      /\ Settled(CallAt(observed, k).kind, cache'[CallAt(observed, k).id],
                                 observed[k])
    BY DEF SettledIn
  <2>1. CallAt(observed, k).id \in OpId
    BY Standing, CallAtType DEF Call
  <2> QED
    BY <1>1, <1>5, <1>7, <2>1 DEF ReplayInv, CacheInv, SettledIn
<1>9. RecordedInv'
  <2>1. Seen' = Apply(ops[id], update)
    BY <1>1, <1>2, <1>3, <1>5 DEF Seen
  <2>2. Applies(Current.kind, update)'
    BY <1>1, <1>2 DEF Applies
  <2> QED
    BY <1>1, <1>2, <1>3, <2>1, <2>2, Standing, ApplyIsLegal DEF RecordedInv
<1> QED
  BY <1>1, <1>6, <1>7, <1>8, <1>9 DEF Record, ReplayInv, CacheInv, RunInv, CheckpointInv,
     FrontierInv, OutputInv

\* An operation returns what the next invocation will find.
LEMMA ReturnAgreement ==
  ASSUME ReplayInv, TypeInv', Running, Current.kind \in Kind, NEW outcome \in Outcome,
         Return(outcome), UNCHANGED <<ops, invocation, cache, output>>,
         Settled(Current.kind, Seen, outcome),
         Len(results) < Len(observed) =>
           Same(Current.kind, outcome, observed[Len(results) + 1])
  PROVE  ReplayInv'
<1> DEFINE p == Len(results) + 1
<1>1. /\ results' = Append(results, outcome) /\ pc' = "call" /\ Running'
      /\ Len(results') = p /\ results'[p] = outcome
      /\ \A k \in 1..Len(results) : results'[k] = results[k]
  BY Standing DEF Return, Running
<1>2. Current = CallAt(observed, p) /\ p \in 1..(Len(observed) + 1)
  BY CurrentIsNext, Standing
<1>3. CASE Len(results) < Len(observed)
  <2>1. observed' = observed
    BY <1>3 DEF Return
  <2>2. Agree(results', observed')
    <3>1. p <= Len(observed)
      BY <1>3, Standing
    <3>2. ASSUME NEW k \in 1..p
          PROVE  Same(CallAt(observed, k).kind, results'[k], observed[k])
      <4>1. CASE k = p
        BY <1>1, <1>2, <1>3, <4>1
      <4>2. CASE k # p
        BY <1>1, <4>2, Standing DEF ReplayInv, Agree
      <4> QED
        BY <4>1, <4>2
    <3> QED
      BY <1>1, <2>1, <3>1, <3>2 DEF Agree
  <2> QED
    BY <1>1, <2>1, <2>2 DEF ReplayInv, CacheInv, RunInv, CheckpointInv, RecordedInv,
       FrontierInv, OutputInv
<1>4. CASE Len(results) = Len(observed)
  <2>1. /\ observed' = Append(observed, outcome) /\ observed' \in Seq(Outcome)
        /\ Len(observed') = p /\ observed'[p] = outcome
        /\ \A k \in 1..Len(observed) : observed'[k] = observed[k]
    BY <1>4, Standing DEF Return
  <2>2. \A k \in 1..p : CallAt(observed', k) = CallAt(observed, k)
    BY <1>4, <2>1, Standing, CallAtAppend
  <2>3. HistoryOf(observed', ops)
    BY <1>4, <2>1, <2>2, Standing DEF ReplayInv, HistoryOf
  <2>4. Settled(Current.kind, ops[Current.id], outcome)
    BY Standing, BehindIsSettled DEF ReplayInv, CacheInv, Seen
  <2>5. SettledIn(observed', ops) /\ SettledIn(observed', cache)
    <3> SUFFICES ASSUME NEW k \in 1..p
                 PROVE  /\ CallAt(observed', k).kind # "return"
                        /\ Settled(CallAt(observed', k).kind, ops[CallAt(observed', k).id],
                                   observed'[k])
                        /\ Settled(CallAt(observed', k).kind, cache[CallAt(observed', k).id],
                                   observed'[k])
      BY <2>1 DEF SettledIn
    <3>1. CASE k = p
      BY <1>2, <2>1, <2>2, <2>4, <3>1 DEF Kind, Seen
    <3>2. CASE k # p
      <4>1. k \in 1..Len(observed)
        BY <1>4, <3>2, Standing
      <4> QED
        BY <2>1, <2>2, <4>1 DEF ReplayInv, CacheInv, SettledIn
    <3> QED
      BY <3>1, <3>2
  <2>6. Agree(results', observed')
    <3> SUFFICES ASSUME NEW k \in 1..p
                 PROVE  Same(CallAt(observed', k).kind, results'[k], observed'[k])
      BY <1>1, <2>1, Standing DEF Agree
    <3>1. CASE k = p
      BY <1>1, <2>1, <3>1 DEF Same
    <3>2. CASE k # p
      <4>1. k \in 1..Len(observed) /\ k \in 1..Len(results)
        BY <1>4, <3>2, Standing
      <4> QED
        BY <1>1, <2>1, <2>2, <4>1 DEF ReplayInv, Agree
    <3> QED
      BY <3>1, <3>2
  <2> QED
    BY <1>1, <2>3, <2>5, <2>6 DEF ReplayInv, CacheInv, RunInv, CheckpointInv, RecordedInv,
       FrontierInv, OutputInv
<1> QED
  BY <1>3, <1>4, Standing

LEMMA ReplayAgreement ==
  ASSUME ReplayInv, TypeInv', Replay
  PROVE  ReplayInv'
<1> DEFINE outcome == Replayed(Current.kind, Seen)
<1>1. /\ Running /\ Return(outcome) /\ Decision(Current.kind, Seen) = "replay"
      /\ UNCHANGED <<ops, invocation, cache, output>>
  BY DEF Replay, At, Running, Decided, Seen
<1>2. Current.kind \in Kind
  BY <1>1, Standing DEF Decision
<1>3. outcome \in Outcome
  BY <1>2, Standing, ReplayedOutcome, OutcomesType
<1>4. Settled(Current.kind, Seen, outcome)
  BY <1>1 DEF Settled, Same
<1>5. Len(results) < Len(observed) => Same(Current.kind, outcome, observed[Len(results) + 1])
  BY <1>1, CurrentIsNext, Standing DEF ReplayInv, CacheInv, SettledIn, Settled, Seen
<1> HIDE DEF outcome
<1> QED
  BY <1>1, <1>2, <1>3, <1>4, <1>5, ReturnAgreement

LEMMA CompletedAgreement ==
  ASSUME ReplayInv, TypeInv', Completed
  PROVE  ReplayInv'
<1> DEFINE outcome == Returned(Current.kind, update)
<1>1. /\ Running /\ Return(outcome) /\ pc = "recorded"
      /\ UNCHANGED <<ops, invocation, cache, output>>
      /\ update.action \in {"SUCCEED", "FAIL"} \/ update.type = "CALLBACK"
  BY DEF Completed, Acknowledged, At, Running
<1>2. /\ Current.kind \in Kind /\ Applies(Current.kind, update)
      /\ Seen.type = update.type
      /\ Seen.status = Apply(Absent, update).status
      /\ update.action = "SUCCEED" => Seen.value = update.value
      /\ Len(results) = Len(observed)
  BY <1>1 DEF ReplayInv, RecordedInv, FrontierInv
<1>3. outcome \in Outcome
  BY Standing, ReturnedType
<1>4. Settled(Current.kind, Seen, outcome)
  <2>1. CASE update.action = "SUCCEED"
    <3>1. /\ Current.kind \in Coded /\ Seen.type = "STEP" /\ Seen.status = "SUCCEEDED"
          /\ Seen.value = update.value /\ update.value \in Value
      BY <1>2, <2>1, AbsentType DEF Applies, Apply, Type, Coded, Operation
    <3>2. HasResult(Seen)
      BY <3>1, ReplayAssumption DEF HasResult
    <3> QED
      BY <2>1, <3>1, <3>2 DEF Settled, Same, Decision, StepDecision, ConditionDecision,
         Replayed, Returned, Coded, Type, Terminal
  <2>2. CASE update.action = "FAIL"
    <3>1. Current.kind \in Coded /\ Seen.type = "STEP" /\ Seen.status = "FAILED"
      BY <1>2, <2>2, AbsentType DEF Applies, Apply, Type, Coded, Operation
    <3> QED
      BY <2>2, <3>1 DEF Settled, Same, Decision, StepDecision, ConditionDecision,
         Replayed, Returned, HasResult, Coded, Type, Terminal, Failed
  <2>3. CASE update.type = "CALLBACK"
    <3>1. Current.kind = "callback"
      BY <1>2, <2>3 DEF Applies, Kind, Type, Coded
    <3>2. update.action = "START"
      BY <1>2, <3>1 DEF Applies, Coded
    <3>3. Seen.type = "CALLBACK" /\ Seen.status = "STARTED"
      BY <1>2, <2>3, <3>2 DEF Apply, Absent
    <3> QED
      BY <3>1, <3>3 DEF Settled, Same, Decision, CallbackDecision, Replayed, Returned, Type
  <2> QED
    BY <1>1, <2>1, <2>2, <2>3
<1> HIDE DEF outcome
<1> QED
  BY <1>1, <1>2, <1>3, <1>4, ReturnAgreement

\* The service ends an operation: no call that has returned would tell.
LEMMA CompleteAgreement ==
  ASSUME ReplayInv, TypeInv', NEW id \in OpId, Complete(id)
  PROVE  ReplayInv'
<1>1. PICK op \in Completions(ops[id]) : ops' = [ops EXCEPT ![id] = op]
  BY DEF Complete
<1>2. /\ IsPending(ops[id]) /\ ops[id] \in Operation /\ Behind(ops[id], op)
      /\ op \in Operation
  BY <1>1, Standing, CompletionsType DEF Complete, Behind
<1>3. \A j \in OpId : ops'[j] = IF j = id THEN op ELSE ops[j]
  BY <1>1, Standing
<1>4. /\ UNCHANGED <<handler, output, observed>> /\ Running' = Running /\ Current' = Current
      /\ OutputInv'
  BY DEF Complete, Running, Current, ReplayInv, OutputInv
<1>5. HistoryOf(observed, ops')
  <2>1. ASSUME NEW kind, Legal(kind, ops[id])
        PROVE  Legal(kind, op)
    BY <1>1, <1>2, <2>1, ZenonT(60) DEF Legal, IsPending, Completions, Endings, Operation, Type,
       Statuses
  <2>2. op.status # "NONE" /\ ops[id].status # "NONE"
    BY <1>2, BehindKeepsType DEF IsPending
  <2> QED
    BY <1>3, <2>1, <2>2 DEF ReplayInv, HistoryOf
<1>6. SettledIn(observed, ops')
  <2> SUFFICES ASSUME NEW k \in 1..Len(observed)
               PROVE  /\ CallAt(observed, k).kind # "return"
                      /\ Settled(CallAt(observed, k).kind, ops'[CallAt(observed, k).id],
                                 observed[k])
    BY DEF SettledIn
  <2>1. CallAt(observed, k).id \in OpId /\ CallAt(observed, k).kind \in Kind \cup {"return"}
    BY Standing, CallAtType DEF Call
  <2>2. /\ CallAt(observed, k).kind # "return"
        /\ Settled(CallAt(observed, k).kind, ops[CallAt(observed, k).id], observed[k])
    BY DEF ReplayInv, SettledIn
  <2> QED
    BY <1>2, <1>3, <2>1, <2>2, BehindIsSettled
<1>7. CacheInv'
  <2>1. CASE Running
    <3>1. Behind(cache[id], ops[id]) /\ cache[id] \in Operation
      BY <2>1, Standing DEF ReplayInv, CacheInv
    <3>2. ops[id] = cache[id]
      BY <1>2, <3>1, BehindKeepsType
    <3>3. Behind(cache[id], op)
      BY <1>2, <3>2
    <3> QED
      BY <1>3, <1>4, <2>1, <3>3 DEF ReplayInv, CacheInv
  <2>2. CASE ~Running
    BY <1>4, <2>2 DEF ReplayInv, CacheInv
  <2> QED
    BY <2>1, <2>2
<1>8. RunInv' /\ CheckpointInv' /\ RecordedInv' /\ FrontierInv' /\ Agree(results', observed')
  BY <1>4 DEF ReplayInv, RunInv, CheckpointInv, RecordedInv, FrontierInv, Seen, Applies
<1> QED
  BY <1>4, <1>5, <1>6, <1>7, <1>8 DEF ReplayInv

LEMMA ReplayStep ==
  ASSUME FirstPage = OpId
  PROVE  ReplayInv /\ [Next]_vars => ReplayInv'
<1> SUFFICES ASSUME ReplayInv, [Next]_vars
             PROVE  ReplayInv'
  OBVIOUS
<1>1. TypeInv'
  BY TypeStep DEF ReplayInv
<1>2. CASE UNCHANGED vars
  BY <1>1, <1>2 DEF ReplayInv, CacheInv, RunInv, CheckpointInv, RecordedInv, FrontierInv,
     OutputInv, Running, Seen, Current, Applies
<1> QED
  BY <1>1, <1>2, InvokeAgreement, EndAgreement, SendAgreement, RunAgreement, RecordAgreement,
     ReplayAgreement, CompletedAgreement, CompleteAgreement DEF Next, HandlerStep

LEMMA ReplayInvariance ==
  ASSUME FirstPage = OpId
  PROVE  Spec => []ReplayInv
BY ReplayInit, ReplayStep, PTL DEF Spec

-----------------------------------------------------------------------------
(* What the handler sees.                                                  *)

\* The results without the variants of their errors are as many.
LEMMA PlainType ==
  ASSUME NEW r \in Seq(Outcome)
  PROVE  /\ Plain(r) \in Seq([ok : BOOLEAN, value : Value \cup {NoValue}, error : {"any"}])
         /\ Len(Plain(r)) = Len(r)
         /\ \A i \in 1..Len(r) : Plain(r)[i] = [r[i] EXCEPT !.error = "any"]
<1>1. DOMAIN r = 1..Len(r) /\ Len(r) \in Nat
  OBVIOUS
<1>2. ASSUME NEW i \in 1..Len(r)
      PROVE  [r[i] EXCEPT !.error = "any"] \in
               [ok : BOOLEAN, value : Value \cup {NoValue}, error : {"any"}]
  <2>1. r[i] \in Outcome
    OBVIOUS
  <2> QED
    BY <2>1, OutcomeType
<1> QED
  BY <1>1, <1>2 DEF Plain

\* Every invocation repeats the results of those before it, however often and wherever
\* they were interrupted.
THEOREM ReplaysAgree ==
  ASSUME FirstPage = OpId
  PROVE  Spec => []ReplayAgrees
<1>1. ReplayInv => ReplayAgrees
  <2> SUFFICES ASSUME ReplayInv
               PROVE  ReplayAgrees
    OBVIOUS
  <2> DEFINE n == Len(results)
  <2>1. \A i \in 1..n : Plain(results)[i] = Plain(observed)[i]
    <3> SUFFICES ASSUME NEW i \in 1..n
                 PROVE  Plain(results)[i] = Plain(observed)[i]
      OBVIOUS
    <3>1. results[i] \in Outcome /\ observed[i] \in Outcome /\ i \in 1..Len(observed)
      BY Standing
    <3>2. results[i].ok = observed[i].ok /\ results[i].value = observed[i].value
      BY DEF ReplayInv, Agree, Same
    <3>3. [results[i] EXCEPT !.error = "any"] = [observed[i] EXCEPT !.error = "any"]
      BY <3>1, <3>2, OutcomeType
    <3> QED
      BY <3>1, <3>3, Standing, PlainType, SMTT(60)
  <2>2. IsPrefix(Plain(results), Plain(observed))
    <3> DEFINE S == [ok : BOOLEAN, value : Value \cup {NoValue}, error : {"any"}]
               a == Plain(results)
               b == Plain(observed)
    <3>1. /\ a \in Seq(S) /\ Len(a) = n /\ b \in Seq(S) /\ Len(b) = Len(observed)
          /\ n <= Len(observed)
      BY Standing, PlainType
    <3>2. \A i \in 1..n : a[i] = b[i]
      BY <2>1
    <3> HIDE DEF S, a, b
    <3>3. SubSeq(a, 1, n) = SubSeq(b, 1, n)
      BY <3>1, <3>2
    <3> QED
      BY <3>1, <3>3 DEF IsPrefix, a, b
  <2>3. ASSUME NEW i \in DOMAIN results, results[i] # observed[i]
        PROVE  Code(SubSeq(results, 1, i - 1)).kind = "condition"
    <3>1. i \in 1..n /\ n \in Nat /\ results \in [1..n -> Outcome] /\ i \in 1..(n + 1)
      BY Standing
    <3>2. SubSeq(results, 1, i - 1) = Prior(results, i)
      BY <3>1, PriorIsSubSeq
    <3>3. CallAt(results, i) = CallAt(observed, i)
      <4>1. \A j \in 1..(i - 1) : results[j].ok = observed[j].ok
                                 /\ results[j].value = observed[j].value
        BY <3>1 DEF ReplayInv, Agree, Same
      <4>2. i <= Len(observed) + 1 /\ Len(results) <= MaxCalls /\ Len(observed) <= MaxCalls
        BY <3>1, Standing
      <4> QED
        BY <3>1, <4>1, <4>2, Standing, CallAgrees
    <3>4. CallAt(observed, i).kind = "condition"
      BY <2>3, <3>1 DEF ReplayInv, Agree, Same
    <3> QED
      BY <3>2, <3>3, <3>4 DEF CallAt
  <2> QED
    BY <2>2, <2>3 DEF ReplayAgrees
<1> QED
  BY <1>1, ReplayInvariance, PTL

-----------------------------------------------------------------------------
(* When an operation is replayed, run and recorded.                        *)

\* A deterministic handler is never told that it is not, and the handlers of the
\* operations replay what check_replay would replay.
THEOREM DeterminismIsRecognized ==
  ASSUME FirstPage = OpId
  PROVE  Spec => []NoFalseAlarm
<1>1. ReplayInv => NoFalseAlarm
  <2> SUFFICES ASSUME ReplayInv, Running, pc = "call"
               PROVE  /\ Decided # "error"
                      /\ Current.kind \in {"atMostOnce", "atLeastOnce", "condition", "wait",
                                           "invoke"} =>
                           (Decided = "replay") <=> (CheckReplay(Current.kind, Seen) = "over")
    BY DEF NoFalseAlarm, Running, Seen
  <2>1. Decided = Decision(Current.kind, Seen)
    BY DEF Decided, Seen
  <2>2. CASE Current.kind \in Kind \ {"result"}
    <3>1. Seen.status # "NONE" => Legal(Current.kind, Seen)
      BY <2>2, CurrentIsLegal
    <3>2. Decided # "error"
      BY <2>1, <2>2, <3>1 DEF Decision, StepDecision, ConditionDecision, WaitDecision,
         CallbackDecision, InvokeDecision, Legal, Kind
    <3>3. Current.kind # "callback" =>
            ((Decided = "replay") <=> (CheckReplay(Current.kind, Seen) = "over"))
      BY <2>1, <2>2, <3>1 DEF Decision, StepDecision, ConditionDecision, WaitDecision,
         InvokeDecision, CheckReplay, Legal, Statuses, Kind, Terminal
    <3> QED
      BY <2>2, <3>2, <3>3
  <2>3. CASE Current.kind = "result"
    <3>1. Current = CallAt(observed, Len(results) + 1)
      BY CurrentIsNext
    <3>2. PICK j \in 1..Len(results) :
            CallAt(observed, j) = [kind |-> "callback", id |-> Current.id]
      <4>1. \E j \in 1..((Len(results) + 1) - 1) :
              CallAt(observed, j) = [kind |-> "callback", id |-> Current.id]
        BY <2>3, <3>1, Standing, CallbackFirst
      <4> QED
        BY <4>1, Standing
    <3>3. Settled("callback", Seen, observed[j])
      BY <3>2, Standing DEF ReplayInv, CacheInv, SettledIn, Seen
    <3>4. Seen.status # "NONE" /\ Seen.type = "CALLBACK"
      BY <3>3 DEF Settled, Decision, CallbackDecision, Type
    <3> QED
      BY <2>1, <2>3, <3>4 DEF Decision, ResultDecision, Type
  <2>4. CASE Current.kind = "return"
    BY <2>1, <2>4 DEF Decision
  <2> QED
    BY <2>2, <2>3, <2>4, Standing
<1> QED
  BY <1>1, ReplayInvariance, PTL

\* No update is sent for an operation that is over, except the START of an invoke.
THEOREM LiveUpdates ==
  ASSUME FirstPage = OpId
  PROVE  Spec => []UpdatesAreLive
<1>1. ReplayInv => UpdatesAreLive
  <2> SUFFICES ASSUME ReplayInv, Running, pc = "checkpoint", update.type # "INVOKE"
               PROVE  ops[update.id].status \notin Terminal
    BY DEF UpdatesAreLive, Running
  <2>1. /\ update.id = Current.id
        /\ update.type = "STEP" => Seen.status \notin Terminal
        /\ update.type \in {"WAIT", "CALLBACK"} => Seen.status = "NONE"
        /\ update.type = "STEP" => Current.kind \in Coded
    BY DEF ReplayInv, CheckpointInv, Applies, Kind, Type, Coded
  <2>2. Behind(Seen, ops[Current.id]) /\ ops[Current.id] \in Operation
    BY Standing DEF ReplayInv, CacheInv, Seen
  <2>3. CASE update.type = "STEP"
    <3>1. Seen.status # "NONE" => Seen.type = "STEP"
      BY <2>1, <2>3, CurrentIsLegal DEF Legal, Coded, Kind, Type
    <3>2. ops[Current.id] = Seen \/ ops[Current.id].status = "READY"
      BY <2>2, <3>1, Standing, BehindKeepsType DEF Operation
    <3> QED
      BY <2>1, <2>3, <3>2 DEF Terminal
  <2>4. CASE update.type \in {"WAIT", "CALLBACK"}
    BY <2>1, <2>2, <2>4, Standing, BehindKeepsType DEF Terminal
  <2> QED
    BY <2>3, <2>4, Standing DEF Update
<1> QED
  BY <1>1, ReplayInvariance, PTL

\* When the code of an at-most-once step or of a condition runs, its START is recorded.
THEOREM StartsComeFirst ==
  ASSUME FirstPage = OpId
  PROVE  Spec => []StartedBeforeRun
<1>1. ReplayInv => StartedBeforeRun
  <2> SUFFICES ASSUME ReplayInv, Running, pc = "run",
                      Current.kind \in {"atMostOnce", "condition"}
               PROVE  ops[Current.id].status \in {"STARTED", "PENDING", "READY"}
    BY DEF StartedBeforeRun, Running
  <2>1. Seen.status \in {"STARTED", "PENDING", "READY"}
    BY DEF ReplayInv, RunInv
  <2>2. Behind(Seen, ops[Current.id]) /\ ops[Current.id] \in Operation
    BY Standing DEF ReplayInv, CacheInv, Seen
  <2>3. Seen.type = "STEP"
    BY <2>1, CurrentIsLegal DEF Legal, Kind, Type
  <2> QED
    BY <2>1, <2>2, <2>3, Standing, BehindKeepsType DEF Operation
<1> QED
  BY <1>1, ReplayInvariance, PTL

\* No user code begins for an operation that has ended, in this invocation or before it.
THEOREM EndedStaysEnded ==
  ASSUME FirstPage = OpId
  PROVE  Spec => EndedIsNotRerun
<1> DEFINE Ended == \A id \in OpId : runs'[id] # runs[id] => ops[id].status \notin Terminal
<1>1. ReplayInv /\ [Next]_vars => [Ended]_vars
  <2> SUFFICES ASSUME ReplayInv, Next, NEW id \in OpId, runs'[id] # runs[id]
               PROVE  ops[id].status \notin Terminal
    OBVIOUS
  <2>1. CASE Run \/ StartedToRun
    <3>1. ReplayInv' /\ Running' /\ pc' = "run" /\ Current' = Current /\ Seen' = Seen
          /\ ops' = ops
      BY <2>1, TypeStep, RunAgreement DEF ReplayInv, Run, StartedToRun, Acknowledged, At,
         BeginUserCode, Running, Current, Seen
    <3>2. Seen.status \notin Terminal /\ Current.kind \in Coded
      BY <3>1 DEF ReplayInv, RunInv
    <3>3. id = Current.id /\ Running
      BY <2>1 DEF Run, StartedToRun, Acknowledged, At, BeginUserCode, ReplayInv, TypeInv,
         TypeOK, Running
    <3>4. Behind(Seen, ops[id]) /\ ops[id] \in Operation
      BY <3>3, Standing DEF ReplayInv, CacheInv, Seen
    <3>5. Seen.status # "NONE" => Seen.type = "STEP"
      BY <3>2, <3>3, CurrentIsLegal DEF Legal, Coded, Kind, Type
    <3>6. ops[id] = Seen \/ ops[id].status = "READY"
      BY <3>4, <3>5, Standing, BehindKeepsType DEF Operation
    <3> QED
      BY <3>2, <3>6 DEF Terminal
  <2>2. CASE ~(Run \/ StartedToRun)
    <3>1. runs' = runs
      BY <2>2 DEF Next, HandlerStep, Invoke, Replay, CheckpointStart, Suspend, StepEnds,
         ConditionMet, ConditionNotMet, Send, Record, StartedToSuspend, Completed, Fail,
         Succeed, Crash, Deadline, Interrupt, Complete
    <3> QED
      BY <3>1
  <2> QED
    BY <2>1, <2>2
<1> QED
  BY <1>1, ReplayInvariance, PTL DEF Spec, EndedIsNotRerun

-----------------------------------------------------------------------------
(* One run of the handler.                                                 *)

\* A call that nobody has seen return is the next one of the abstract run.
LEMMA NextOfRun ==
  ASSUME ReplayInv, Len(results) = Len(observed)
  PROVE  Code(observed) = Current
BY CurrentIsNext, Standing, PriorOfAll DEF CallAt

LEMMA ReturnedOutcome ==
  ASSUME ReplayInv, Completed
  PROVE  Returned(Current.kind, update) \in Outcomes(Current.kind)
<1>1. /\ Current.kind \in Kind /\ Applies(Current.kind, update)
      /\ update.action \in {"SUCCEED", "FAIL"} \/ update.type = "CALLBACK"
  BY DEF Completed, Acknowledged, At, ReplayInv, RecordedInv, Running
<1>2. CASE update.action = "SUCCEED"
  <2>1. Current.kind \in Coded /\ update.value \in Value
    BY <1>1, <1>2 DEF Applies
  <2> QED
    BY <1>2, <2>1 DEF Returned, Outcomes, Coded
<1>3. CASE update.action = "FAIL"
  <2>1. Current.kind \in Coded
    BY <1>1, <1>3 DEF Applies
  <2> QED
    BY <1>3, <2>1 DEF Returned, Outcomes, Coded
<1>4. CASE update.type = "CALLBACK"
  <2>1. Current.kind = "callback"
    BY <1>1, <1>4 DEF Applies, Kind, Type, Coded
  <2> QED
    BY <2>1 DEF Returned, Outcomes
<1> QED
  BY <1>1, <1>2, <1>3, <1>4

\* A result that is new is the result of the next operation of the run.
LEMMA ReturnPerforms ==
  ASSUME ReplayInv, Running, Current.kind \in Kind,
         NEW outcome \in Outcomes(Current.kind), Return(outcome), output' = output
  PROVE  Abstract!Perform \/ UNCHANGED <<observed, output>>
<1>1. CASE Len(results) = Len(observed)
  <2>1. observed' = Append(observed, outcome) /\ Code(observed) = Current
    BY <1>1, NextOfRun DEF Return
  <2>2. output = "none"
    BY DEF ReplayInv, OutputInv, Running
  <2> QED
    BY <2>1, <2>2 DEF Abstract!Perform, Kind
<1>2. CASE Len(results) # Len(observed)
  BY <1>2 DEF Return
<1> QED
  BY <1>1, <1>2

\* The execution that is interrupted and replayed is one uninterrupted run of its
\* handler: each operation has one result, and the output follows the last of them.
THEOREM OneRunOnly ==
  ASSUME FirstPage = OpId
  PROVE  Spec => ImplementsOneRun
<1>1. Init => Abstract!Start
  BY DEF Init, Abstract!Start
<1>2. ReplayInv /\ [Next]_vars =>
        [Abstract!Perform \/ Abstract!Succeed \/ Abstract!Abort]_(Abstract!visible)
  <2> SUFFICES ASSUME ReplayInv, [Next]_vars
               PROVE  \/ Abstract!Perform \/ Abstract!Succeed \/ Abstract!Abort
                      \/ UNCHANGED <<observed, output>>
    BY DEF Abstract!visible
  <2>1. CASE Replay
    <3>1. Running /\ Current.kind \in Kind /\ output' = output
      BY <2>1, Standing DEF Replay, At, Decided, Decision, Running
    <3>2. Replayed(Current.kind, Seen) \in Outcomes(Current.kind)
      BY <3>1, Standing, ReplayedOutcome
    <3> QED
      BY <2>1, <3>1, <3>2, ReturnPerforms DEF Replay, Seen
  <2>2. CASE Completed
    <3>1. Running /\ Current.kind \in Kind /\ output' = output
      BY <2>2 DEF Completed, Acknowledged, At, ReplayInv, RecordedInv, Running
    <3> QED
      BY <2>2, <3>1, ReturnedOutcome, ReturnPerforms DEF Completed
  <2>3. CASE Succeed
    <3>1. Running /\ Decided = "return" /\ output' = "succeeded" /\ observed' = observed
      BY <2>3 DEF Succeed, At, EndWith, Running
    <3>2. Current.kind = "return"
      BY <3>1, Standing DEF Decided, Decision, StepDecision, ConditionDecision, WaitDecision,
         CallbackDecision, ResultDecision, InvokeDecision, Kind
    <3>3. Code(observed) = Current
      BY <3>1, NewCall, NextOfRun
    <3> QED
      BY <3>1, <3>2, <3>3 DEF Abstract!Succeed, ReplayInv, OutputInv, Running
  <2>4. CASE Fail \/ Suspend \/ StartedToSuspend \/ Deadline
    <3>1. /\ Running /\ observed' = observed
          /\ output' = output \/ output' \in {"failed", "rejected"}
      BY <2>4 DEF Fail, Suspend, StartedToSuspend, Acknowledged, At, Deadline, Interrupt,
         EndPending, EndWith, Running
    <3> QED
      BY <3>1 DEF Abstract!Abort, ReplayInv, OutputInv, Running
  <2>5. CASE Crash \/ Invoke \/ CheckpointStart \/ Run \/ StepEnds \/ ConditionMet
             \/ ConditionNotMet \/ Record \/ StartedToRun
    BY <2>5 DEF Crash, Interrupt, Invoke, CheckpointStart, Run, StepEnds, ConditionMet,
       ConditionNotMet, Send, Record, StartedToRun, Acknowledged, BeginUserCode
  <2>6. ASSUME NEW id \in OpId, Complete(id)
        PROVE  UNCHANGED <<observed, output>>
    BY <2>6 DEF Complete
  <2>7. CASE UNCHANGED vars
    BY <2>7
  <2> QED
    BY <2>1, <2>2, <2>3, <2>4, <2>5, <2>6, <2>7 DEF Next, HandlerStep
<1> QED
  BY <1>1, <1>2, ReplayInvariance, PTL DEF Spec, ImplementsOneRun, Abstract!OneRun

=============================================================================
