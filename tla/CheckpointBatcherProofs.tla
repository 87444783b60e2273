----------------------- MODULE CheckpointBatcherProofs -----------------------
(***************************************************************************)
(* Theorems about CheckpointBatcher for all requests, program orders and   *)
(* bounds that its assumptions allow: its types, its token and its end,    *)
(* and its log: what an Ok promises of it, how often it holds an update,   *)
(* and in which order.                                                     *)
(***************************************************************************)
EXTENDS CheckpointBatcher, CheckpointOrderProofs

USE DEF vars, sdk, batching, direct, service, process

-----------------------------------------------------------------------------
(* Facts about the operators.                                              *)

Distinct(s) == \A i, j \in DOMAIN s : s[i] = s[j] => i = j

\* Sorting a batch gives a batch of the same requests, each as often as before.
LEMMA SortKeepsRequests ==
  ASSUME NEW b \in Seq(Request), Len(b) \in 1..MaxBatchOps
  PROVE  /\ SortCheckpointBatch(b) \in Seq(Request)
         /\ Len(SortCheckpointBatch(b)) = Len(b)
         /\ ToSet(SortCheckpointBatch(b)) = ToSet(b)
         /\ Distinct(b) => Distinct(SortCheckpointBatch(b))
<1> DEFINE order == SortedOrder(b)
           sorted == [k \in 1..Len(b) |-> b[order[k]]]
<1>1. b \in [1..Len(b) -> Request]
  OBVIOUS
<1>0. IsSorting(b, order)
  BY <1>1, BatchesAreSorted
<1>2. /\ order \in [1..Len(b) -> 1..Len(b)]
      /\ \A k \in 1..Len(b) : \E m \in 1..Len(b) : order[m] = k
      /\ \A k, m \in 1..Len(b) : order[k] = order[m] => k = m
  <2> HIDE DEF order
  <2> QED
    BY <1>0, <1>1 DEF IsSorting
<1>3. SortCheckpointBatch(b) = sorted
  BY DEF SortCheckpointBatch
<1>4. sorted \in Seq(Request) /\ Len(sorted) = Len(b)
  <2>1. Len(b) \in Nat
    OBVIOUS
  <2>2. sorted \in [1..Len(b) -> Request]
    BY <1>1, <1>2
  <2> QED
    BY <2>1, <2>2
<1>5. ToSet(sorted) = ToSet(b)
  <2>1. DOMAIN sorted = 1..Len(b) /\ DOMAIN b = 1..Len(b)
    OBVIOUS
  <2>2. \A k \in 1..Len(b) : sorted[k] = b[order[k]] /\ order[k] \in DOMAIN b
    BY <1>2, <2>1
  <2>3. \A k \in DOMAIN b : \E m \in DOMAIN sorted : sorted[m] = b[k]
    BY <1>2, <2>1, <2>2
  <2>4. \A m \in DOMAIN sorted : \E k \in DOMAIN b : sorted[m] = b[k]
    BY <2>1, <2>2
  <2> HIDE DEF order, sorted
  <2> QED
    BY <2>3, <2>4 DEF ToSet
<1>6. Distinct(b) => Distinct(sorted)
  <2>0. DOMAIN sorted = 1..Len(b)
    OBVIOUS
  <2> SUFFICES ASSUME Distinct(b), NEW i \in 1..Len(b), NEW j \in 1..Len(b),
                      sorted[i] = sorted[j]
               PROVE  i = j
    BY <2>0 DEF Distinct
  <2>1. order[i] \in DOMAIN b /\ order[j] \in DOMAIN b
    BY <1>1, <1>2
  <2>2. b[order[i]] = b[order[j]]
    OBVIOUS
  <2>3. order[i] = order[j]
    BY <2>1, <2>2 DEF Distinct
  <2> QED
    BY <1>2, <2>3
<1> QED
  BY <1>3, <1>4, <1>5, <1>6

-----------------------------------------------------------------------------
(* Type correctness.                                                       *)

\* A batch that is being collected or sent has at least one request, and there is
\* no batch at any other time.
BatchPresent == batcher \in {"collect", "send"} <=> batch # <<>>

\* process_batch starts with a fresh attempt and without an answer, and has retries
\* left while it waits for one.
BatchAttempts ==
  /\ batcher # "send" => attempt = 0 /\ batchReply = NoReply
  /\ BatchSent => attempt <= MaxRetries

TypeInv == TypeOK /\ BatchPresent /\ BatchAttempts

LEMMA TypeInit == Init => TypeInv
BY BoundAssumption
   DEF Init, TypeInv, TypeOK, BatchPresent, BatchAttempts, BatchSent, CallState, Status, NoReply,
       Reply, Results

LEMMA CallerType ==
  ASSUME TypeInv, NEW r \in Request, CallerStep(r)
  PROVE  TypeInv'
<1> USE DEF TypeInv, TypeOK, BatchPresent, BatchAttempts, BatchSent, CallState, Active, Failed
<1>1. CASE Issue(r)
  BY <1>1 DEF Issue
<1>2. CASE Enqueue(r)
  <2>1. queue' \in Seq(Request) /\ Len(queue') <= QueueCap
    BY <1>2, BoundAssumption DEF Enqueue
  <2> QED
    BY <1>2, <2>1 DEF Enqueue
<1>3. CASE SendDirect(r)
  BY <1>3 DEF SendDirect
<1>4. CASE ReceiveDirect(r)
  BY <1>4 DEF ReceiveDirect, NoReply, Reply, Results
<1>5. CASE Return(r)
  <2>1. StatusAfter(Update[r].action) \in Status
    BY UpdateAssumption DEF OperationUpdate, OperationAction, StatusAfter, Status
  <2> QED
    BY <1>5, <2>1 DEF Return
<1>6. CASE MarkParentDone(r)
  BY <1>6, UpdateAssumption DEF MarkParentDone, OperationUpdate
<1> QED
  BY <1>1, <1>2, <1>3, <1>4, <1>5, <1>6 DEF CallerStep

LEMMA BatcherType == TypeInv /\ BatcherStep => TypeInv'
<1> SUFFICES ASSUME TypeInv, BatcherStep
             PROVE  TypeInv'
  OBVIOUS
<1> USE BoundAssumption DEF TypeInv, TypeOK, BatchPresent, BatchAttempts, BatchSent
<1>1. CASE ReceiveFirst
  BY <1>1 DEF ReceiveFirst
<1>2. CASE ReceiveMore
  <2>1. Head(queue) \in Request /\ Tail(queue) \in Seq(Request)
    BY <1>2 DEF ReceiveMore
  <2>2. Len(queue') <= QueueCap
    BY <1>2 DEF ReceiveMore
  <2>3. /\ batch' \in Seq(Request)
        /\ Len(batch') <= MaxBatchOps
        /\ batch' # <<>>
    BY <1>2, <2>1, SMTT(60) DEF ReceiveMore
  <2> QED
    BY <1>2, <2>1, <2>2, <2>3 DEF ReceiveMore
<1>3. CASE SendBatch
  <2>1. /\ SortCheckpointBatch(batch) \in Seq(Request)
        /\ Len(SortCheckpointBatch(batch)) = Len(batch)
    BY <1>3, SortKeepsRequests DEF SendBatch
  <2> QED
    BY <1>3, <2>1 DEF SendBatch
<1>4. CASE BatchSucceeded
  BY <1>4 DEF BatchSucceeded, CallState, Active, NoReply, Reply, Results
<1>5. CASE BatchFailed
  BY <1>5 DEF BatchFailed, CallState, Failed, NoReply, Reply, Results
<1>6. CASE StopBatcher
  BY <1>6 DEF StopBatcher
<1> QED
  BY <1>1, <1>2, <1>3, <1>4, <1>5, <1>6 DEF BatcherStep

LEMMA ServiceType ==
  TypeInv /\ (AnswerBatch \/ \E r \in Request : AnswerDirect(r)) => TypeInv'
<1> SUFFICES ASSUME TypeInv, AnswerBatch \/ \E r \in Request : AnswerDirect(r)
             PROVE  TypeInv'
  OBVIOUS
<1> USE BoundAssumption, RequestAssumption
    DEF TypeInv, TypeOK, BatchPresent, BatchAttempts, BatchSent, NoReply, Reply, Results
<1>1. CASE AcceptBatch
  BY <1>1, SMTT(60) DEF AcceptBatch
<1>2. CASE RefuseBatch
  BY <1>2 DEF RefuseBatch
<1>3. CASE ThrottleBatch
  BY <1>3 DEF ThrottleBatch
<1>4. ASSUME NEW r \in Request, AcceptDirect(r)
      PROVE  TypeInv'
  BY <1>4, SMTT(60) DEF AcceptDirect
<1>5. ASSUME NEW r \in Request, RefuseDirect(r)
      PROVE  TypeInv'
  BY <1>5 DEF RefuseDirect
<1> QED
  BY <1>1, <1>2, <1>3, <1>4, <1>5 DEF AnswerBatch, AnswerDirect

LEMMA RuntimeType == TypeInv /\ RuntimeStep => TypeInv'
BY DEF TypeInv, TypeOK, BatchPresent, BatchAttempts, BatchSent, RuntimeStep, HandlerSucceeds,
       HandlerFails, HandlerPending, EndInvocation, DropHandler, CallState, Active

LEMMA TypeStep == TypeInv /\ [Next]_vars => TypeInv'
<1> SUFFICES ASSUME TypeInv, [Next]_vars
             PROVE  TypeInv'
  OBVIOUS
<1>1. CASE UNCHANGED vars
  BY <1>1 DEF TypeInv, TypeOK, BatchPresent, BatchAttempts, BatchSent
<1> QED
  BY <1>1, CallerType, BatcherType, ServiceType, RuntimeType DEF Next

LEMMA TypeInvariant == Spec => []TypeInv
BY TypeInit, TypeStep, PTL DEF Spec

\* Every step keeps the state of the checkpointing system within its types: the
\* queue and the batch within their bounds, the retries within MAX_RETRIES.
THEOREM TypeCorrectness == Spec => []TypeOK
<1>1. TypeInv => TypeOK
  BY DEF TypeInv
<1> QED
  BY <1>1, TypeInvariant, PTL

-----------------------------------------------------------------------------
(* The token.                                                              *)

\* A direct request is on the wire at most once and has no answer before that.
WireInv ==
  /\ \A r \in Request : call[r] \in {"idle", "checked"} =>
       r \notin onWire /\ directReply[r].result = "none"
  /\ \A r \in onWire : call[r] \in {"inflight", "dropped"}
                        /\ directReply[r].result = "none"

\* The answer to r carries a new token that the SDK has not stored yet.
Pending(r) == call[r] = "inflight" /\ directReply[r].result = "ok"

\* A request is accepted only with the newest token, which the SDK can only know
\* once the previous writer has stored it: so at most one new token is on its way,
\* it is the service's, and the SDK's is older.
TokenInv ==
  /\ token <= serviceToken
  /\ batchToken <= token
  /\ \A r \in onWire : directToken[r] <= token
  /\ batchReply.result = "ok" => /\ batchReply.token = serviceToken
                                 /\ token < serviceToken
                                 /\ \A r \in Request : ~Pending(r)
  /\ \A r \in Request : Pending(r) => /\ directReply[r].token = serviceToken
                                       /\ token < serviceToken
  /\ \A r, s \in Request : Pending(r) /\ Pending(s) => r = s

LEMMA TokenInit == Init => WireInv /\ TokenInv
BY DEF Init, WireInv, TokenInv, Pending, NoReply, Reply

LEMMA CallerToken ==
  ASSUME TypeInv, WireInv, TokenInv, NEW r \in Request, CallerStep(r)
  PROVE  WireInv' /\ TokenInv' /\ token' >= token
<1> USE RequestAssumption DEF TypeInv, TypeOK, WireInv, TokenInv, Pending
<1>1. CASE Issue(r)
  BY <1>1 DEF Issue
<1>2. CASE Enqueue(r)
  BY <1>2 DEF Enqueue
<1>3. CASE SendDirect(r)
  BY <1>3 DEF SendDirect
<1>4. CASE ReceiveDirect(r)
  BY <1>4 DEF ReceiveDirect, NoReply, Reply, Results
<1>5. CASE Return(r)
  BY <1>5 DEF Return
<1>6. CASE MarkParentDone(r)
  BY <1>6 DEF MarkParentDone
<1> QED
  BY <1>1, <1>2, <1>3, <1>4, <1>5, <1>6 DEF CallerStep

LEMMA BatcherToken ==
  ASSUME TypeInv, WireInv, TokenInv, BatcherStep
  PROVE  WireInv' /\ TokenInv' /\ token' >= token
<1> USE RequestAssumption DEF TypeInv, TypeOK, WireInv, TokenInv, Pending
<1>1. CASE ReceiveFirst
  BY <1>1 DEF ReceiveFirst
<1>2. CASE ReceiveMore
  BY <1>2 DEF ReceiveMore
<1>3. CASE SendBatch
  BY <1>3 DEF SendBatch
<1>4. CASE BatchSucceeded
  BY <1>4 DEF BatchSucceeded, NoReply, Reply
<1>5. CASE BatchFailed
  BY <1>5 DEF BatchFailed, NoReply, Reply
<1>6. CASE StopBatcher
  BY <1>6 DEF StopBatcher
<1> QED
  BY <1>1, <1>2, <1>3, <1>4, <1>5, <1>6 DEF BatcherStep

LEMMA ServiceToken ==
  ASSUME TypeInv, WireInv, TokenInv,
         AnswerBatch \/ \E r \in Request : AnswerDirect(r)
  PROVE  WireInv' /\ TokenInv' /\ token' = token
<1> USE RequestAssumption
    DEF TypeInv, TypeOK, WireInv, TokenInv, Pending, BatchSent, NoReply, Reply
<1>1. CASE AcceptBatch
  BY <1>1 DEF AcceptBatch
<1>2. CASE RefuseBatch
  BY <1>2 DEF RefuseBatch
<1>3. CASE ThrottleBatch
  BY <1>3 DEF ThrottleBatch
<1>4. ASSUME NEW r \in Request, AcceptDirect(r)
      PROVE  WireInv' /\ TokenInv' /\ token' = token
  BY <1>4 DEF AcceptDirect
<1>5. ASSUME NEW r \in Request, RefuseDirect(r)
      PROVE  WireInv' /\ TokenInv' /\ token' = token
  BY <1>5 DEF RefuseDirect
<1> QED
  BY <1>1, <1>2, <1>3, <1>4, <1>5 DEF AnswerBatch, AnswerDirect

LEMMA RuntimeToken ==
  ASSUME TypeInv, WireInv, TokenInv, RuntimeStep
  PROVE  WireInv' /\ TokenInv' /\ token' = token
<1> USE RequestAssumption DEF TypeInv, TypeOK, WireInv, TokenInv, Pending
<1>1. CASE HandlerSucceeds
  BY <1>1, SMTT(60) DEF HandlerSucceeds
<1>2. CASE HandlerFails
  BY <1>2, SMTT(60) DEF HandlerFails, DropHandler, Active
<1>3. CASE HandlerPending
  BY <1>3, SMTT(60) DEF HandlerPending, DropHandler, Active
<1>4. CASE EndInvocation
  BY <1>4, SMTT(60) DEF EndInvocation
<1> QED
  BY <1>1, <1>2, <1>3, <1>4 DEF RuntimeStep

LEMMA TokenStep ==
  TypeInv /\ WireInv /\ TokenInv /\ [Next]_vars
    => WireInv' /\ TokenInv' /\ [token' >= token]_vars
<1> SUFFICES ASSUME TypeInv, WireInv, TokenInv, [Next]_vars
             PROVE  WireInv' /\ TokenInv' /\ token' >= token
  OBVIOUS
<1>1. token \in Nat
  BY DEF TypeInv, TypeOK
<1>2. CASE UNCHANGED vars
  BY <1>1, <1>2 DEF WireInv, TokenInv, Pending
<1>3. CASE Next
  BY <1>1, <1>3, CallerToken, BatcherToken, ServiceToken, RuntimeToken DEF Next
<1> QED
  BY <1>2, <1>3

LEMMA TokenInvariant == Spec => [](TypeInv /\ WireInv /\ TokenInv)
BY TypeInit, TypeStep, TokenInit, TokenStep, PTL DEF Spec

\* However the batcher's and the direct calls' answers interleave, no late writer
\* puts an older checkpoint token back.
THEOREM TokenMonotonicity == Spec => TokenNeverRegresses
<1>1. TypeInv /\ WireInv /\ TokenInv /\ [Next]_vars => [token' >= token]_vars
  BY TokenStep
<1> QED
  BY <1>1, TokenInvariant, PTL DEF Spec, TokenNeverRegresses

-----------------------------------------------------------------------------
(* The end of the batcher.                                                 *)

\* Once the runtime has dropped the handler, only spawned tasks still have calls
\* open, and once the batcher has stopped those tasks have none either.
StopInv ==
  /\ runtime # "running" =>
       \A r \in Request \ Spawned : call[r] \notin Active \cup {"idle"}
  /\ batcher = "done" => queue = <<>> /\ Closed

LEMMA StopInit == Init => StopInv
BY DEF Init, StopInv

\* A spawned request that is no longer live never becomes live again: what ended
\* its task, or kept it from starting, is final.
LEMMA CallerStop ==
  ASSUME TypeInv, StopInv, NEW r \in Request, CallerStep(r)
  PROVE  StopInv'
<1> USE RequestAssumption DEF TypeInv, TypeOK, StopInv, Closed, Live, Runs, Active, Failed
<1>1. CASE Issue(r)
  BY <1>1 DEF Issue
<1>2. CASE Enqueue(r)
  BY <1>2 DEF Enqueue
<1>3. CASE SendDirect(r)
  BY <1>3 DEF SendDirect
<1>4. CASE ReceiveDirect(r)
  BY <1>4 DEF ReceiveDirect, Results
<1>5. CASE Return(r)
  BY <1>5 DEF Return
<1>6. CASE MarkParentDone(r)
  BY <1>6 DEF MarkParentDone
<1> QED
  BY <1>1, <1>2, <1>3, <1>4, <1>5, <1>6 DEF CallerStep

LEMMA BatcherStop == TypeInv /\ StopInv /\ BatcherStep => StopInv'
BY RequestAssumption, SMTT(60)
   DEF TypeInv, TypeOK, StopInv, Closed, Live, Active, Failed, BatcherStep, ReceiveFirst,
       ReceiveMore, SendBatch, BatchSucceeded, BatchFailed, StopBatcher

LEMMA ServiceStop ==
  StopInv /\ (AnswerBatch \/ \E r \in Request : AnswerDirect(r)) => StopInv'
BY DEF StopInv, Closed, Live, AnswerBatch, AnswerDirect, AcceptBatch, RefuseBatch,
       ThrottleBatch, AcceptDirect, RefuseDirect

LEMMA RuntimeStop == TypeInv /\ StopInv /\ RuntimeStep => StopInv'
BY RequestAssumption
   DEF TypeInv, TypeOK, StopInv, Closed, Live, Active, RuntimeStep, HandlerSucceeds,
       HandlerFails, HandlerPending, EndInvocation, DropHandler

LEMMA StopStep == TypeInv /\ StopInv /\ [Next]_vars => StopInv'
<1> SUFFICES ASSUME TypeInv, StopInv, [Next]_vars
             PROVE  StopInv'
  OBVIOUS
<1>1. CASE UNCHANGED vars
  BY <1>1 DEF StopInv, Closed, Live
<1> QED
  BY <1>1, CallerStop, BatcherStop, ServiceStop, RuntimeStop DEF Next

\* The batcher never exits while a caller still has a request in the queue, in a
\* batch or on its way to the queue, spawned tasks included.
THEOREM StopIsSafe == Spec => []StopStrandsNobody
<1>1. TypeInv /\ StopInv => StopStrandsNobody
  <2> SUFFICES ASSUME TypeInv, StopInv, batcher = "done"
               PROVE  /\ queue = <<>>
                      /\ batch = <<>>
                      /\ \A r \in Request \ Direct : call[r] \notin {"checked", "waiting"}
    BY DEF StopStrandsNobody
  <2>1. queue = <<>> /\ batch = <<>>
    BY DEF StopInv, TypeInv, BatchPresent
  <2>2. \A r \in Request : call[r] \notin {"checked", "waiting"}
    BY DEF StopInv, Closed, Live, Active
  <2> QED
    BY <2>1, <2>2
<1>2. Spec => [](TypeInv /\ StopInv)
  BY TypeInit, TypeStep, StopInit, StopStep, PTL DEF Spec
<1> QED
  BY <1>1, <1>2, PTL

-----------------------------------------------------------------------------
(* What the service has recorded.                                          *)

LEMMA RecordedByAppend ==
  ASSUME TypeInv, NEW b \in Seq(Request), log' = Append(log, b), NEW r \in Request
  PROVE  Recorded(r)' <=> Recorded(r) \/ r \in ToSet(b)
<1>1. log \in Seq(Seq(Request))
  BY DEF TypeInv, TypeOK
<1>2. /\ DOMAIN log' = DOMAIN log \cup {Len(log) + 1}
      /\ \A n \in DOMAIN log : log'[n] = log[n]
      /\ log'[Len(log) + 1] = b
  BY <1>1
<1> QED
  BY <1>2 DEF Recorded

\* What is recorded stays recorded.
LEMMA RecordedStable ==
  TypeInv /\ [Next]_vars => \A r \in Request : Recorded(r) => Recorded(r)'
<1> SUFFICES ASSUME TypeInv, [Next]_vars, NEW r \in Request, Recorded(r)
             PROVE  Recorded(r)'
  OBVIOUS
<1>1. CASE log' = log
  BY <1>1 DEF Recorded
<1>2. CASE AcceptBatch
  BY <1>2, RecordedByAppend DEF AcceptBatch, TypeInv, TypeOK
<1>3. CASE \E d \in Request : AcceptDirect(d)
  <2>1. PICK d \in Request : log' = Append(log, <<d>>)
    BY <1>3 DEF AcceptDirect
  <2>2. <<d>> \in Seq(Request)
    OBVIOUS
  <2> QED
    BY <2>1, <2>2, RecordedByAppend
<1>4. log' = log \/ AcceptBatch \/ \E d \in Request : AcceptDirect(d)
  BY DEF Next, CallerStep, BatcherStep, AnswerBatch, AnswerDirect, RuntimeStep, Issue,
     Enqueue, SendDirect, ReceiveDirect, Return, MarkParentDone, ReceiveFirst,
     ReceiveMore, SendBatch, BatchSucceeded, BatchFailed, StopBatcher, RefuseBatch,
     ThrottleBatch, RefuseDirect, HandlerSucceeds, HandlerFails, HandlerPending,
     EndInvocation
<1> QED
  BY <1>1, <1>2, <1>3, <1>4

\* Behind every Ok on its way to a caller there is a recorded update.
AckInv ==
  /\ AckImpliesRecorded
  /\ batchReply.result = "ok" => \A r \in ToSet(batch) : Recorded(r)
  /\ \A r \in Request : directReply[r].result = "ok" => Recorded(r)

LEMMA AckInit == Init => AckInv
BY RequestAssumption DEF Init, AckInv, AckImpliesRecorded, NoReply, Reply

LEMMA AckStep == TypeInv /\ AckInv /\ [Next]_vars => AckInv'
<1> SUFFICES ASSUME TypeInv, AckInv, [Next]_vars
             PROVE  AckInv'
  OBVIOUS
<1>1. \A r \in Request : Recorded(r) => Recorded(r)'
  BY RecordedStable
<1>2. ToSet(batch) \subseteq Request
  BY DEF TypeInv, TypeOK, ToSet
<1> USE <1>1, <1>2, RequestAssumption
    DEF TypeInv, TypeOK, BatchAttempts, AckInv, AckImpliesRecorded, NoReply, Reply
<1>3. CASE UNCHANGED vars
  BY <1>3 DEF Recorded
<1>4. ASSUME NEW r \in Request, CallerStep(r)
      PROVE  AckInv'
  <2>1. CASE Issue(r)
    BY <2>1 DEF Issue
  <2>2. CASE Enqueue(r)
    BY <2>2 DEF Enqueue
  <2>3. CASE SendDirect(r)
    BY <2>3 DEF SendDirect
  <2>4. CASE ReceiveDirect(r)
    BY <2>4 DEF ReceiveDirect, Results
  <2>5. CASE Return(r)
    BY <2>5 DEF Return
  <2>6. CASE MarkParentDone(r)
    BY <2>6 DEF MarkParentDone
  <2> QED
    BY <1>4, <2>1, <2>2, <2>3, <2>4, <2>5, <2>6 DEF CallerStep
<1>5. CASE BatcherStep
  <2>1. CASE ReceiveFirst
    BY <2>1 DEF ReceiveFirst
  <2>2. CASE ReceiveMore
    BY <2>2 DEF ReceiveMore
  <2>3. CASE SendBatch
    BY <2>3 DEF SendBatch
  <2>4. CASE BatchSucceeded
    BY <2>4 DEF BatchSucceeded
  <2>5. CASE BatchFailed
    BY <2>5 DEF BatchFailed
  <2>6. CASE StopBatcher
    BY <2>6 DEF StopBatcher
  <2> QED
    BY <1>5, <2>1, <2>2, <2>3, <2>4, <2>5, <2>6 DEF BatcherStep
<1>6. CASE AnswerBatch
  <2>1. CASE AcceptBatch
    <3>1. \A r \in Request : r \in ToSet(batch) => Recorded(r)'
      BY <2>1, RecordedByAppend DEF AcceptBatch
    <3> QED
      BY <2>1, <3>1 DEF AcceptBatch
  <2>2. CASE RefuseBatch
    BY <2>2 DEF RefuseBatch
  <2>3. CASE ThrottleBatch
    BY <2>3 DEF ThrottleBatch
  <2> QED
    BY <1>6, <2>1, <2>2, <2>3 DEF AnswerBatch
<1>7. ASSUME NEW r \in Request, AnswerDirect(r)
      PROVE  AckInv'
  <2>1. CASE AcceptDirect(r)
    <3>1. <<r>> \in Seq(Request) /\ r \in ToSet(<<r>>)
      BY DEF ToSet
    <3>2. Recorded(r)'
      BY <2>1, <3>1, RecordedByAppend DEF AcceptDirect
    <3> QED
      BY <2>1, <3>2 DEF AcceptDirect
  <2>2. CASE RefuseDirect(r)
    BY <2>2 DEF RefuseDirect
  <2> QED
    BY <1>7, <2>1, <2>2 DEF AnswerDirect
<1>8. CASE RuntimeStep
  BY <1>8 DEF RuntimeStep, HandlerSucceeds, HandlerFails, HandlerPending,
     EndInvocation, DropHandler, Active
<1> QED
  BY <1>3, <1>4, <1>5, <1>6, <1>7, <1>8 DEF Next

LEMMA AckInvariant == Spec => [](TypeInv /\ AckInv)
BY TypeInit, TypeStep, AckInit, AckStep, PTL DEF Spec

\* No caller of a synchronous checkpoint is told Ok before its update is recorded.
THEOREM AcknowledgedIsDurable == Spec => []AckImpliesRecorded
<1>1. TypeInv /\ AckInv => AckImpliesRecorded
  BY DEF AckInv
<1> QED
  BY <1>1, AckInvariant, PTL

\* The local cache holds nothing but recorded updates and fire-and-forget ones.
THEOREM CacheIsDurable == Spec => []CacheIsRecorded
<1>1. Init => CacheIsRecorded
  BY DEF Init, CacheIsRecorded
<1>2. TypeInv /\ AckInv /\ CacheIsRecorded /\ [Next]_vars => CacheIsRecorded'
  <2> SUFFICES ASSUME TypeInv, AckInv, CacheIsRecorded, [Next]_vars
               PROVE  CacheIsRecorded'
    OBVIOUS
  <2>1. \A r \in Request : Recorded(r) => Recorded(r)'
    BY RecordedStable
  <2>2. CASE cache' = cache
    BY <2>1, <2>2 DEF CacheIsRecorded
  <2>3. ASSUME NEW r \in Request, Return(r)
        PROVE  CacheIsRecorded'
    <3>1. Recorded(r)' \/ r \notin Sync
      BY <2>1, <2>3 DEF AckInv, AckImpliesRecorded, Return
    <3>2. /\ cache \in [OpId -> Status]
          /\ cache' = [cache EXCEPT ![Update[r].id] = StatusAfter(Update[r].action)]
      BY <2>3 DEF Return, TypeInv, TypeOK
    <3> SUFFICES ASSUME NEW o \in OpId, cache'[o] # "NONE"
                 PROVE  \E s \in Request : /\ Update[s].id = o
                                           /\ cache'[o] = StatusAfter(Update[s].action)
                                           /\ Recorded(s)' \/ s \notin Sync
      BY DEF CacheIsRecorded
    <3>3. CASE o = Update[r].id
      BY <3>1, <3>2, <3>3
    <3>4. CASE o # Update[r].id
      BY <2>1, <3>2, <3>4 DEF CacheIsRecorded
    <3> QED
      BY <3>3, <3>4
  <2>4. cache' = cache \/ \E r \in Request : Return(r)
    BY DEF Next, CallerStep, BatcherStep, AnswerBatch, AnswerDirect, RuntimeStep, Issue,
       Enqueue, SendDirect, ReceiveDirect, MarkParentDone, ReceiveFirst, ReceiveMore,
       SendBatch, BatchSucceeded, BatchFailed, StopBatcher, AcceptBatch, RefuseBatch,
       ThrottleBatch, AcceptDirect, RefuseDirect, HandlerSucceeds, HandlerFails,
       HandlerPending, EndInvocation
  <2> QED
    BY <2>2, <2>3, <2>4
<1> QED
  BY <1>1, <1>2, AckInvariant, PTL DEF Spec

-----------------------------------------------------------------------------
(* How often an update is recorded.                                        *)

\* A request is in one place at a time: with its caller, in the queue, in the batch
\* or on the wire of the direct path, and in none of them once it is recorded,
\* until the answer to the batch has been dealt with.
PlaceInv ==
  /\ Distinct(queue)
  /\ Distinct(batch)
  /\ \A r \in ToSet(queue) : r \notin ToSet(batch) /\ r \notin Direct /\ ~Recorded(r)
  /\ \A r \in ToSet(batch) : r \notin Direct
  /\ batchReply.result = "none" => \A r \in ToSet(batch) : ~Recorded(r)
  /\ \A r \in onWire : ~Recorded(r)
  /\ \A r \in Request : call[r] \in {"idle", "checked"} =>
       r \notin ToSet(queue) /\ r \notin ToSet(batch) /\ ~Recorded(r)

OnceInv == PlaceInv /\ RecordedOnce

LEMMA OnceInit == Init => OnceInv
BY RequestAssumption DEF Init, OnceInv, PlaceInv, RecordedOnce, Recorded, Distinct, ToSet

LEMMA HeadAndTail ==
  ASSUME NEW s \in Seq(Request), s # <<>>, Distinct(s)
  PROVE  /\ Head(s) \in Request
         /\ Tail(s) \in Seq(Request)
         /\ Distinct(Tail(s))
         /\ \A r : r \in ToSet(Tail(s)) => r \in ToSet(s) /\ r # Head(s)
         /\ Head(s) \in ToSet(s)
<1>1. /\ DOMAIN s = 1..Len(s) /\ Len(s) \in Nat \ {0}
      /\ DOMAIN Tail(s) = 1..(Len(s) - 1)
      /\ \A k \in DOMAIN Tail(s) : Tail(s)[k] = s[k + 1] /\ k + 1 \in DOMAIN s /\ k + 1 # 1
      /\ Head(s) = s[1] /\ 1 \in DOMAIN s
  OBVIOUS
<1>2. \A k, m \in DOMAIN Tail(s) : k + 1 = m + 1 => k = m
  BY <1>1
<1>3. Distinct(Tail(s))
  BY <1>1, <1>2 DEF Distinct
<1>4. \A r : r \in ToSet(Tail(s)) => r \in ToSet(s) /\ r # Head(s)
  BY <1>1 DEF ToSet, Distinct
<1> QED
  BY <1>1, <1>3, <1>4 DEF ToSet

LEMMA Appended ==
  ASSUME NEW s \in Seq(Request), NEW e \in Request
  PROVE  /\ \A r : r \in ToSet(Append(s, e)) <=> r \in ToSet(s) \/ r = e
         /\ Distinct(s) /\ e \notin ToSet(s) => Distinct(Append(s, e))
<1>1. /\ DOMAIN s = 1..Len(s) /\ Len(s) \in Nat
      /\ DOMAIN Append(s, e) = DOMAIN s \cup {Len(s) + 1}
      /\ \A k \in DOMAIN s : Append(s, e)[k] = s[k]
      /\ Append(s, e)[Len(s) + 1] = e
  OBVIOUS
<1>2. \A r : r \in ToSet(Append(s, e)) <=> r \in ToSet(s) \/ r = e
  BY <1>1 DEF ToSet
<1>3. ASSUME Distinct(s), e \notin ToSet(s)
      PROVE  Distinct(Append(s, e))
  <2>1. \A k \in DOMAIN s : s[k] # e
    BY <1>3 DEF ToSet
  <2> QED
    BY <1>1, <1>3, <2>1 DEF Distinct
<1> QED
  BY <1>2, <1>3

\* A batch of distinct requests, none of them recorded, extends a log without
\* repetitions to one without repetitions.
LEMMA RecordFresh ==
  ASSUME TypeInv, RecordedOnce, NEW b \in Seq(Request), Distinct(b),
         \A r \in ToSet(b) : ~Recorded(r), log' = Append(log, b)
  PROVE  RecordedOnce'
<1>1. log \in Seq(Seq(Request))
  BY DEF TypeInv, TypeOK
<1>2. /\ DOMAIN log' = DOMAIN log \cup {Len(log) + 1}
      /\ \A n \in DOMAIN log : log'[n] = log[n]
      /\ log'[Len(log) + 1] = b
  BY <1>1
<1>3. \A n \in DOMAIN log : \A i \in DOMAIN log[n] : \A j \in DOMAIN b : log[n][i] # b[j]
  BY DEF Recorded, ToSet
<1> QED
  BY <1>2, <1>3 DEF RecordedOnce, Distinct

LEMMA OnceUnlogged ==
  ASSUME OnceInv, log' = log
  PROVE  RecordedOnce' /\ \A r \in Request : Recorded(r)' <=> Recorded(r)
BY DEF OnceInv, RecordedOnce, Recorded

LEMMA CallerOnce ==
  ASSUME TypeInv, OnceInv, NEW r \in Request, CallerStep(r)
  PROVE  OnceInv'
<1>1. log' = log
  BY DEF CallerStep, Issue, Enqueue, SendDirect, ReceiveDirect, Return, MarkParentDone
<1>2. /\ \A q \in ToSet(queue) \cup ToSet(batch) \cup onWire : q \in Request
      /\ call \in [Request -> CallState]
  BY RequestAssumption DEF TypeInv, TypeOK, ToSet
<1>0. RecordedOnce' /\ \A q \in Request : Recorded(q)' <=> Recorded(q)
  BY <1>1, OnceUnlogged
<1> USE <1>0, <1>2, RequestAssumption DEF OnceInv, PlaceInv
<1>3. CASE Issue(r)
  BY <1>3 DEF Issue
<1>4. CASE Enqueue(r)
  <2>1. /\ \A q : q \in ToSet(queue') <=> q \in ToSet(queue) \/ q = r
        /\ Distinct(queue')
    BY <1>4, Appended DEF Enqueue, TypeInv, TypeOK
  <2> QED
    BY <1>4, <2>1 DEF Enqueue
<1>5. CASE SendDirect(r)
  BY <1>5 DEF SendDirect
<1>6. CASE ReceiveDirect(r)
  <2>1. directReply[r].result \in Results
    BY DEF TypeInv, TypeOK
  <2>2. \A q \in Request : call'[q] \in {"idle", "checked"} => call'[q] = call[q]
    BY <1>6, <2>1 DEF ReceiveDirect, Results
  <2> QED
    BY <1>6, <2>2 DEF ReceiveDirect
<1>7. CASE Return(r)
  BY <1>7 DEF Return
<1>8. CASE MarkParentDone(r)
  BY <1>8 DEF MarkParentDone
<1> QED
  BY <1>3, <1>4, <1>5, <1>6, <1>7, <1>8 DEF CallerStep

LEMMA BatcherOnce ==
  ASSUME TypeInv, OnceInv, BatcherStep
  PROVE  OnceInv'
<1>1. log' = log
  BY DEF BatcherStep, ReceiveFirst, ReceiveMore, SendBatch, BatchSucceeded, BatchFailed,
     StopBatcher
<1>2. /\ queue \in Seq(Request) /\ batch \in Seq(Request)
      /\ Distinct(queue) /\ Distinct(batch)
      /\ call \in [Request -> CallState]
  BY DEF TypeInv, TypeOK, OnceInv, PlaceInv
<1>3. ToSet(<<>>) = {} /\ Distinct(<<>>)
  BY DEF ToSet, Distinct
<1>0. /\ RecordedOnce' /\ \A r \in Request : Recorded(r)' <=> Recorded(r)
      /\ \A r \in ToSet(queue) \cup ToSet(batch) \cup onWire : r \in Request
  BY <1>1, OnceUnlogged, RequestAssumption DEF TypeInv, TypeOK, ToSet
<1> USE <1>0, <1>2, RequestAssumption DEF OnceInv, PlaceInv
<1>4. CASE ReceiveFirst
  <2>1. batchReply.result = "none"
    BY <1>4 DEF ReceiveFirst, TypeInv, BatchAttempts, NoReply, Reply
  <2>2. ToSet(batch') = {Head(queue)} /\ Distinct(batch')
    BY <1>4 DEF ReceiveFirst, ToSet, Distinct
  <2> QED
    BY <1>4, <2>1, <2>2, HeadAndTail DEF ReceiveFirst
<1>5. CASE ReceiveMore
  <2>1. batchReply.result = "none"
    BY <1>5 DEF ReceiveMore, TypeInv, BatchAttempts, NoReply, Reply
  <2>2. Head(queue) \in Request /\ Head(queue) \in ToSet(queue)
    BY <1>5, HeadAndTail DEF ReceiveMore
  <2>3. /\ \A r : r \in ToSet(batch') <=> r \in ToSet(batch) \/ r = Head(queue)
        /\ Distinct(batch')
    BY <1>5, <2>2, Appended DEF ReceiveMore
  <2>4. /\ Distinct(queue')
        /\ \A r \in ToSet(queue') : r \in ToSet(queue) /\ r # Head(queue)
    BY <1>5, HeadAndTail DEF ReceiveMore
  <2> QED
    BY <1>5, <2>1, <2>2, <2>3, <2>4 DEF ReceiveMore
<1>6. CASE SendBatch
  <2>1. Len(batch) \in 1..MaxBatchOps
    BY <1>6 DEF SendBatch, TypeInv, TypeOK, BatchPresent
  <2>2. ToSet(batch') = ToSet(batch) /\ Distinct(batch')
    BY <1>6, <2>1, SortKeepsRequests DEF SendBatch
  <2> QED
    BY <1>6, <2>2 DEF SendBatch
<1>7. CASE BatchSucceeded
  BY <1>3, <1>7 DEF BatchSucceeded
<1>8. CASE BatchFailed
  BY <1>3, <1>8 DEF BatchFailed
<1>9. CASE StopBatcher
  BY <1>9 DEF StopBatcher
<1> QED
  BY <1>4, <1>5, <1>6, <1>7, <1>8, <1>9 DEF BatcherStep

LEMMA ServiceOnce ==
  ASSUME TypeInv, WireInv, OnceInv,
         AnswerBatch \/ \E r \in Request : AnswerDirect(r)
  PROVE  OnceInv'
<1>1. /\ \A q \in ToSet(queue) \cup ToSet(batch) \cup onWire : q \in Request
      /\ batch \in Seq(Request)
  BY RequestAssumption DEF TypeInv, TypeOK, ToSet
<1>2. CASE AcceptBatch
  <2>1. /\ \A r \in ToSet(batch) : ~Recorded(r)
        /\ log' = Append(log, batch)
        /\ UNCHANGED <<queue, batch, onWire, call>>
        /\ batchReply'.result # "none"
    BY <1>2 DEF AcceptBatch, BatchSent, OnceInv, PlaceInv, Reply
  <2>2. RecordedOnce'
    BY <1>1, <2>1, RecordFresh DEF OnceInv, PlaceInv
  <2>3. \A r \in Request : Recorded(r)' <=> Recorded(r) \/ r \in ToSet(batch)
    BY <1>1, <2>1, RecordedByAppend
  <2>4. \A r \in onWire : r \in Direct
    BY DEF TypeInv, TypeOK
  <2> QED
    BY <1>1, <2>1, <2>2, <2>3, <2>4 DEF OnceInv, PlaceInv
<1>3. ASSUME NEW r \in Request, AcceptDirect(r)
      PROVE  OnceInv'
  <2>1. /\ ~Recorded(r)
        /\ r \in Direct
        /\ call[r] \notin {"idle", "checked"}
        /\ log' = Append(log, <<r>>)
        /\ onWire' = onWire \ {r}
        /\ UNCHANGED <<queue, batch, call, batchReply>>
    BY <1>3 DEF AcceptDirect, OnceInv, PlaceInv, TypeInv, TypeOK, WireInv
  <2>2. <<r>> \in Seq(Request) /\ ToSet(<<r>>) = {r} /\ Distinct(<<r>>)
    BY DEF ToSet, Distinct
  <2>3. RecordedOnce'
    BY <2>1, <2>2, RecordFresh DEF OnceInv
  <2>4. \A q \in Request : Recorded(q)' <=> Recorded(q) \/ q = r
    BY <2>1, <2>2, RecordedByAppend
  <2> QED
    BY <1>1, <2>1, <2>3, <2>4 DEF OnceInv, PlaceInv
<1>4. ASSUME log' = log,
             RefuseBatch \/ ThrottleBatch \/ \E r \in Request : RefuseDirect(r)
      PROVE  OnceInv'
  BY <1>1, <1>4, OnceUnlogged
     DEF RefuseBatch, ThrottleBatch, RefuseDirect, BatchSent, OnceInv, PlaceInv
<1> QED
  BY <1>2, <1>3, <1>4 DEF AnswerBatch, AnswerDirect, RefuseBatch, ThrottleBatch, RefuseDirect

LEMMA RuntimeOnce ==
  ASSUME TypeInv, OnceInv, RuntimeStep
  PROVE  OnceInv'
<1>1. log' = log /\ UNCHANGED <<queue, batch, onWire, batchReply>>
  BY DEF RuntimeStep, HandlerSucceeds, HandlerFails, HandlerPending, EndInvocation
<1>2. \A r \in Request : call'[r] \in {"idle", "checked"} => call[r] = call'[r]
  BY DEF RuntimeStep, HandlerSucceeds, HandlerFails, HandlerPending, EndInvocation,
     DropHandler, TypeInv, TypeOK
<1>3. \A q \in ToSet(queue) \cup ToSet(batch) \cup onWire : q \in Request
  BY RequestAssumption DEF TypeInv, TypeOK, ToSet
<1> QED
  BY <1>1, <1>2, <1>3, OnceUnlogged DEF OnceInv, PlaceInv

LEMMA OnceStep == TypeInv /\ WireInv /\ OnceInv /\ [Next]_vars => OnceInv'
<1> SUFFICES ASSUME TypeInv, WireInv, OnceInv, [Next]_vars
             PROVE  OnceInv'
  OBVIOUS
<1>1. CASE UNCHANGED vars
  BY <1>1 DEF OnceInv, PlaceInv, RecordedOnce, Recorded
<1> QED
  BY <1>1, CallerOnce, BatcherOnce, ServiceOnce, RuntimeOnce DEF Next

\* Throttling, the two paths to the service and lost answers together never record
\* an update twice within an invocation.
THEOREM ExactlyOnce == Spec => []RecordedOnce
<1>1. OnceInv => RecordedOnce
  BY DEF OnceInv
<1>2. Spec => []OnceInv
  BY TokenInvariant, OnceInit, OnceStep, PTL DEF Spec
<1> QED
  BY <1>1, <1>2, PTL


-----------------------------------------------------------------------------
(* The order of the log.                                                   *)

InOrder(s) == \A i, j \in DOMAIN s : s[i] \in Before[s[j]] => i < j

Sent(r) == r \in ToSet(queue) \/ r \in ToSet(batch) \/ r \in onWire \/ Recorded(r)

\* Whatever has been sent was issued after the calls before it had returned.
IssuedInv ==
  \A r \in Request : Sent(r) \/ call[r] \notin {"idle", "dropped"} =>
    \A p \in Before[r] : call[p] = "ok"

\* While an update is in the queue, or in a batch that is not recorded, nothing issued
\* after it has got further.
OrderInv ==
  /\ InOrder(queue)
  /\ InOrder(batch)
  /\ \A r \in Request : \A p \in Before[r] :
       /\ p \in ToSet(queue) => r \notin ToSet(batch) /\ r \notin onWire /\ ~Recorded(r)
       /\ p \in ToSet(batch) /\ ~Recorded(p) => r \notin onWire /\ ~Recorded(r)
  /\ RecordedInProgramOrder

OrderingInv == TypeInv /\ WireInv /\ TokenInv /\ AckInv /\ OnceInv /\ IssuedInv /\ OrderInv

LEMMA OrderInit == Init => IssuedInv /\ OrderInv
BY RequestAssumption
   DEF Init, IssuedInv, OrderInv, InOrder, Sent, Recorded, RecordedInProgramOrder, ToSet

\* A call that has returned has returned for good.
LEMMA OkStays ==
  ASSUME TypeInv, [Next]_vars
  PROVE  \A r \in Request : call[r] = "ok" => call'[r] = "ok"
<1> USE RequestAssumption DEF TypeInv, TypeOK
<1>1. CASE UNCHANGED vars
  BY <1>1
<1>2. ASSUME NEW r \in Request, CallerStep(r)
      PROVE  \A q \in Request : call[q] = "ok" => call'[q] = "ok"
  BY <1>2 DEF CallerStep, Issue, Enqueue, SendDirect, ReceiveDirect, Return, MarkParentDone
<1>3. CASE BatcherStep
  BY <1>3 DEF BatcherStep, ReceiveFirst, ReceiveMore, SendBatch, BatchSucceeded, BatchFailed,
     StopBatcher
<1>4. CASE RuntimeStep
  BY <1>4 DEF RuntimeStep, HandlerSucceeds, HandlerFails, HandlerPending, EndInvocation,
     DropHandler, Active
<1>5. CASE AnswerBatch \/ \E r \in Request : AnswerDirect(r)
  BY <1>5 DEF AnswerBatch, AnswerDirect, AcceptBatch, RefuseBatch, ThrottleBatch,
     AcceptDirect, RefuseDirect
<1> QED
  BY <1>1, <1>2, <1>3, <1>4, <1>5 DEF Next

\* Only a call that has passed the orphan check is sent.
LEMMA SentWasChecked ==
  ASSUME OrderingInv, [Next]_vars, NEW r \in Request, Sent(r)'
  PROVE  Sent(r) \/ call[r] = "checked"
<1> USE RequestAssumption DEF OrderingInv, TypeInv, TypeOK, Sent
<1>1. CASE UNCHANGED vars
  BY <1>1 DEF Recorded
<1>2. ASSUME NEW c \in Request, CallerStep(c)
      PROVE  Sent(r) \/ call[r] = "checked"
  <2>1. log' = log /\ Recorded(r)' = Recorded(r) /\ batch' = batch
    BY <1>2 DEF CallerStep, Issue, Enqueue, SendDirect, ReceiveDirect, Return, MarkParentDone,
       Recorded
  <2>2. CASE Enqueue(c)
    BY <2>1, <2>2, Appended DEF Enqueue
  <2>3. CASE ~Enqueue(c)
    BY <1>2, <2>1, <2>3 DEF CallerStep, Issue, SendDirect, ReceiveDirect, Return, MarkParentDone
  <2> QED
    BY <2>2, <2>3
<1>3. CASE BatcherStep
  <2>1. log' = log /\ Recorded(r)' = Recorded(r) /\ onWire' = onWire
    BY <1>3 DEF BatcherStep, ReceiveFirst, ReceiveMore, SendBatch, BatchSucceeded, BatchFailed,
       StopBatcher, Recorded
  <2>2. CASE ReceiveFirst
    <3>1. ToSet(batch') = {Head(queue)}
      <4>1. batch' = <<Head(queue)>>
        BY <2>2 DEF ReceiveFirst
      <4>2. \A e : ToSet(<<e>>) = {e}
        BY ONLY DEF ToSet
      <4> QED
        BY ONLY <4>1, <4>2
    <3>2. Head(queue) \in ToSet(queue) /\ \A q \in ToSet(queue') : q \in ToSet(queue)
      BY <2>2, HeadAndTail DEF ReceiveFirst, OnceInv, PlaceInv
    <3> QED
      BY <2>1, <3>1, <3>2
  <2>3. CASE ReceiveMore
    BY <2>1, <2>3, HeadAndTail, Appended DEF ReceiveMore, OnceInv, PlaceInv
  <2>4. CASE SendBatch
    <3>1. Len(batch) \in 1..MaxBatchOps
      BY <2>4 DEF SendBatch, BatchPresent
    <3> QED
      BY <2>1, <2>4, <3>1, SortKeepsRequests DEF SendBatch
  <2>5. CASE BatchSucceeded \/ BatchFailed \/ StopBatcher
    BY <2>1, <2>5 DEF BatchSucceeded, BatchFailed, StopBatcher, ToSet
  <2> QED
    BY <1>3, <2>2, <2>3, <2>4, <2>5 DEF BatcherStep
<1>4. CASE RuntimeStep
  BY <1>4 DEF RuntimeStep, HandlerSucceeds, HandlerFails, HandlerPending, EndInvocation, Recorded
<1>5. CASE AcceptBatch
  BY <1>5, RecordedByAppend DEF AcceptBatch
<1>6. ASSUME NEW d \in Request, AcceptDirect(d)
      PROVE  Sent(r) \/ call[r] = "checked"
  <2>1. <<d>> \in Seq(Request) /\ ToSet(<<d>>) = {d}
    BY DEF ToSet
  <2> QED
    BY <1>6, <2>1, RecordedByAppend DEF AcceptDirect
<1>7. CASE RefuseBatch \/ ThrottleBatch \/ \E d \in Request : RefuseDirect(d)
  BY <1>7 DEF RefuseBatch, ThrottleBatch, RefuseDirect, Recorded
<1> QED
  BY <1>1, <1>2, <1>3, <1>4, <1>5, <1>6, <1>7 DEF Next, AnswerBatch, AnswerDirect

LEMMA IssuedStep == OrderingInv /\ [Next]_vars => IssuedInv'
<1> SUFFICES ASSUME OrderingInv, [Next]_vars, NEW r \in Request, NEW p \in Before[r],
                    Sent(r)' \/ call'[r] \notin {"idle", "dropped"}
             PROVE  call'[p] = "ok"
  BY DEF IssuedInv
<1>0. p \in Request
  BY RequestAssumption
<1>1. Sent(r)' => call[p] = "ok"
  BY SentWasChecked DEF OrderingInv, IssuedInv
<1>2. call'[r] \notin {"idle", "dropped"} => call[p] = "ok" \/ Issue(r)
  <2>1. call[r] \notin {"idle", "dropped"} => call[p] = "ok"
    BY DEF OrderingInv, IssuedInv
  <2>2. call'[r] \notin {"idle", "dropped"} =>
          call[r] \notin {"idle", "dropped"} \/ Issue(r)
    <3> USE DEF OrderingInv, TypeInv, TypeOK
    <3>1. CASE UNCHANGED vars
      BY <3>1
    <3>2. ASSUME NEW c \in Request, CallerStep(c)
          PROVE  call'[r] \notin {"idle", "dropped"} =>
                   call[r] \notin {"idle", "dropped"} \/ Issue(r)
      <4>1. CASE Issue(c)
        BY <4>1 DEF Issue
      <4>2. CASE Enqueue(c) \/ SendDirect(c) \/ ReceiveDirect(c) \/ Return(c)
        BY <4>2 DEF Enqueue, SendDirect, ReceiveDirect, Return
      <4>3. CASE MarkParentDone(c)
        BY <4>3 DEF MarkParentDone
      <4> QED
        BY <3>2, <4>1, <4>2, <4>3 DEF CallerStep
    <3>3. CASE BatcherStep
      BY <3>3 DEF BatcherStep, ReceiveFirst, ReceiveMore, SendBatch, BatchSucceeded,
         BatchFailed, StopBatcher
    <3>4. CASE AnswerBatch \/ \E c \in Request : AnswerDirect(c)
      BY <3>4 DEF AnswerBatch, AnswerDirect, AcceptBatch, RefuseBatch, ThrottleBatch,
         AcceptDirect, RefuseDirect
    <3>5. CASE RuntimeStep
      BY <3>5 DEF RuntimeStep, HandlerSucceeds, HandlerFails, HandlerPending, EndInvocation,
         DropHandler, Active
    <3> QED
      BY <3>1, <3>2, <3>3, <3>4, <3>5 DEF Next
  <2> QED
    BY <2>1, <2>2
<1>3. Issue(r) => call[p] = "ok"
  BY DEF Issue
<1> QED
  BY <1>0, <1>1, <1>2, <1>3, OkStays DEF OrderingInv

\* What a sent request waited for is recorded, and it did not wait for itself.
LEMMA WaitedFor ==
  ASSUME OrderingInv, NEW r \in Request, NEW p \in Before[r],
         Sent(r) \/ call[r] \notin {"idle", "dropped"}
  PROVE  /\ call[p] = "ok"
         /\ p \in Sync => Recorded(p)
         /\ call[r] = "checked" => p # r
BY DEF OrderingInv, IssuedInv, AckInv, AckImpliesRecorded


\* Adding at the end what precedes nothing keeps a sequence in order.
LEMMA AppendedInOrder ==
  ASSUME NEW s \in Seq(Request), NEW e \in Request, InOrder(s), e \notin Before[e],
         \A r \in ToSet(s) : e \notin Before[r]
  PROVE  InOrder(Append(s, e))
<1>1. /\ DOMAIN s = 1..Len(s) /\ Len(s) \in Nat
      /\ DOMAIN Append(s, e) = 1..(Len(s) + 1)
      /\ \A k \in DOMAIN s : Append(s, e)[k] = s[k]
      /\ Append(s, e)[Len(s) + 1] = e
  OBVIOUS
<1>2. \A k \in DOMAIN s : s[k] \in ToSet(s)
  BY DEF ToSet
<1> QED
  BY <1>1, <1>2 DEF InOrder

\* Taking the first request off a sequence: it was issued after none of the others.
LEMMA TailInOrder ==
  ASSUME NEW s \in Seq(Request), s # <<>>, InOrder(s)
  PROVE  /\ InOrder(Tail(s))
         /\ \A r \in ToSet(s) : r \notin Before[Head(s)]
<1>1. /\ DOMAIN s = 1..Len(s) /\ Len(s) \in Nat \ {0}
      /\ DOMAIN Tail(s) = 1..(Len(s) - 1)
      /\ \A k \in DOMAIN Tail(s) : Tail(s)[k] = s[k + 1] /\ k + 1 \in DOMAIN s
      /\ Head(s) = s[1] /\ 1 \in DOMAIN s
  OBVIOUS
<1>2. InOrder(Tail(s))
  BY <1>1 DEF InOrder
<1>3. ASSUME NEW r \in ToSet(s), r \in Before[Head(s)]
      PROVE  FALSE
  <2>1. PICK k \in DOMAIN s : s[k] = r
    BY <1>3 DEF ToSet
  <2>2. k < 1
    BY <1>1, <1>3, <2>1 DEF InOrder
  <2> QED
    BY <1>1, <2>1, <2>2
<1> QED
  BY <1>2, <1>3

\* The sort leaves what was issued in order where it is, because no later call compares
\* Less than an earlier one of the same batch: the earlier one was not waited for.
LEMMA SortedInOrder ==
  ASSUME NEW b \in Seq(Request), Len(b) \in 1..MaxBatchOps, InOrder(b),
         \A r \in ToSet(b) : ToSet(b) \cap Before[r] \cap Sync = {}
  PROVE  InOrder(SortCheckpointBatch(b))
<1> DEFINE order == SortedOrder(b)
           sorted == [k \in 1..Len(b) |-> b[order[k]]]
<1>1. b \in [1..Len(b) -> Request] /\ DOMAIN b = 1..Len(b) /\ Len(b) \in Nat
  OBVIOUS
<1>2. IsSorting(b, order)
  BY <1>1, BatchesAreSorted
<1>3. SortCheckpointBatch(b) = sorted
  BY DEF SortCheckpointBatch
<1> HIDE DEF order
<1> SUFFICES ASSUME NEW i \in DOMAIN b, NEW j \in DOMAIN b,
                    b[order[i]] \in Before[b[order[j]]]
             PROVE  i < j
  BY <1>1, <1>3 DEF InOrder
<1>4. order[i] \in DOMAIN b /\ order[j] \in DOMAIN b
  BY <1>2 DEF IsSorting
<1>5. order[i] < order[j]
  BY <1>4 DEF InOrder
<1>6. b[order[i]] \notin Sync
  BY <1>4 DEF ToSet
<1>7. ~ComparesLess(b, order[j], order[i])
  <2>1. b[order[j]] \in Request
    BY <1>1, <1>4
  <2> QED
    BY <1>1, <1>4, <1>5, <1>6, <2>1, ProgramAssumption
<1> QED
  BY <1>2, <1>5, <1>7 DEF IsSorting

\* Recording in order: what a new batch waited for is recorded, and nothing that is
\* recorded was issued after it.
LEMMA OrderedAppend ==
  ASSUME TypeInv, RecordedInProgramOrder, NEW b \in Seq(Request), log' = Append(log, b),
         InOrder(b),
         \A r \in ToSet(b) : \A p \in Before[r] \cap Sync : Recorded(p),
         \A r \in Request : Recorded(r) => ToSet(b) \cap Before[r] = {}
  PROVE  RecordedInProgramOrder'
<1>1. /\ log \in Seq(Seq(Request)) /\ Len(log) \in Nat
      /\ DOMAIN log = 1..Len(log)
      /\ DOMAIN log' = 1..(Len(log) + 1)
      /\ \A n \in DOMAIN log : log'[n] = log[n] /\ log[n] \in Seq(Request)
      /\ log'[Len(log) + 1] = b
  BY DEF TypeInv, TypeOK
<1> SUFFICES ASSUME NEW n \in DOMAIN log', NEW j \in DOMAIN log'[n],
                    NEW p \in Before[log'[n][j]]
             PROVE  /\ p \in Sync => Recorded(p)'
                    /\ \A m \in DOMAIN log' : \A i \in DOMAIN log'[m] :
                         log'[m][i] = p => m < n \/ (m = n /\ i < j)
  BY DEF RecordedInProgramOrder
<1>2. \A q \in Request : Recorded(q) => Recorded(q)'
  BY RecordedByAppend
<1>3. CASE n \in DOMAIN log
  <2>1. log[n][j] \in Request /\ Recorded(log[n][j]) /\ p \in Request
    BY <1>1, <1>3, RequestAssumption DEF Recorded, ToSet
  <2>2. p \notin ToSet(b)
    BY <1>1, <1>3, <2>1
  <2>3. \A i \in DOMAIN b : b[i] # p
    BY <2>2 DEF ToSet
  <2> QED
    BY <1>1, <1>2, <1>3, <2>1, <2>3 DEF RecordedInProgramOrder
<1>4. CASE n = Len(log) + 1
  <2>1. b[j] \in ToSet(b) /\ b[j] \in Request /\ p \in Request
    BY <1>1, <1>4, RequestAssumption DEF ToSet
  <2>2. p \in Sync => Recorded(p)'
    BY <1>1, <1>2, <1>4, <2>1
  <2>3. ASSUME NEW m \in DOMAIN log', NEW i \in DOMAIN log'[m], log'[m][i] = p
        PROVE  m < n \/ (m = n /\ i < j)
    <3>1. CASE m \in DOMAIN log
      BY <1>1, <1>4, <3>1
    <3>2. CASE m = Len(log) + 1
      BY <1>1, <1>4, <2>3, <3>2 DEF InOrder
    <3> QED
      BY <1>1, <3>1, <3>2
  <2> QED
    BY <2>2, <2>3
<1> QED
  BY <1>1, <1>3, <1>4

\* OrderInv without what the log alone decides.
LEMMA OrderUnlogged ==
  ASSUME OrderingInv, log' = log,
         InOrder(queue)', InOrder(batch)',
         \A r \in Request : \A p \in Before[r] :
           /\ p \in ToSet(queue') => r \notin ToSet(batch') /\ r \notin onWire' /\ ~Recorded(r)
           /\ p \in ToSet(batch') /\ ~Recorded(p) => r \notin onWire' /\ ~Recorded(r)
  PROVE  OrderInv'
BY DEF OrderingInv, OrderInv, Recorded, RecordedInProgramOrder

LEMMA CallerOrder ==
  ASSUME OrderingInv, NEW c \in Request, CallerStep(c)
  PROVE  OrderInv'
<1>1. log' = log /\ batch' = batch
  BY DEF CallerStep, Issue, Enqueue, SendDirect, ReceiveDirect, Return, MarkParentDone
<1>2. CASE Enqueue(c)
  <2>1. call[c] = "checked" /\ queue' = Append(queue, c) /\ onWire' = onWire
    BY <1>2 DEF Enqueue
  <2>2. \A r \in Request : Sent(r) \/ r = c => c \notin Before[r]
    BY <2>1, WaitedFor
  <2>3. queue \in Seq(Request) /\ \A r \in ToSet(queue) : r \in Request
    BY DEF OrderingInv, TypeInv, TypeOK, ToSet
  <2>4. InOrder(queue')
    BY <2>1, <2>2, <2>3, AppendedInOrder DEF OrderingInv, OrderInv, Sent
  <2>5. \A r : r \in ToSet(queue') <=> r \in ToSet(queue) \/ r = c
    BY <2>1, <2>3, Appended
  <2> QED
    BY <1>1, <2>1, <2>2, <2>4, <2>5, OrderUnlogged DEF OrderingInv, OrderInv, Sent
<1>3. CASE SendDirect(c)
  <2>1. call[c] = "checked" /\ c \in Direct /\ onWire' = onWire \cup {c} /\ queue' = queue
    BY <1>3 DEF SendDirect
  <2>2. ASSUME NEW p \in Before[c], ~Recorded(p)
        PROVE  p \notin ToSet(queue) /\ p \notin ToSet(batch)
    <3>1. p \notin Sync
      BY <2>1, <2>2, WaitedFor
    <3>2. PICK s \in Before[c] \cap (Sync \ Direct) : p \in Before[s]
      BY <2>1, <3>1, ProgramAssumption
    <3>3. s \in Request /\ Recorded(s)
      BY <2>1, <3>2, WaitedFor, RequestAssumption
    <3> QED
      BY <2>2, <3>2, <3>3 DEF OrderingInv, OrderInv
  <2>3. \A p \in ToSet(queue) : p \in Request /\ ~Recorded(p)
    BY DEF OrderingInv, OnceInv, PlaceInv, TypeInv, TypeOK, ToSet
  <2> QED
    BY <1>1, <2>1, <2>2, <2>3, OrderUnlogged DEF OrderingInv, OrderInv
<1>4. CASE Issue(c) \/ ReceiveDirect(c) \/ Return(c) \/ MarkParentDone(c)
  BY <1>1, <1>4, OrderUnlogged
     DEF Issue, ReceiveDirect, Return, MarkParentDone, OrderingInv, OrderInv
<1> QED
  BY <1>2, <1>3, <1>4 DEF CallerStep

LEMMA BatcherOrder ==
  ASSUME OrderingInv, BatcherStep
  PROVE  OrderInv'
<1>1. log' = log /\ onWire' = onWire
  BY DEF BatcherStep, ReceiveFirst, ReceiveMore, SendBatch, BatchSucceeded, BatchFailed,
         StopBatcher
<1>2. /\ queue \in Seq(Request) /\ batch \in Seq(Request)
      /\ \A r \in ToSet(queue) \cup ToSet(batch) : r \in Request
      /\ Distinct(queue)
  BY DEF OrderingInv, TypeInv, TypeOK, OnceInv, PlaceInv, ToSet
<1>3. ToSet(<<>>) = {} /\ InOrder(<<>>)
  BY DEF ToSet, InOrder
<1>4. ASSUME queue # <<>>
      PROVE  /\ Head(queue) \in ToSet(queue)
             /\ \A r \in ToSet(Tail(queue)) : r \in ToSet(queue) /\ r \notin Before[Head(queue)]
             /\ Head(queue) \notin Before[Head(queue)]
             /\ InOrder(Tail(queue))
  BY <1>2, <1>4, HeadAndTail, TailInOrder DEF OrderingInv, OrderInv
<1>5. CASE ReceiveFirst
  <2>1. ToSet(batch') = {Head(queue)} /\ InOrder(batch')
    <3>1. batch' = <<Head(queue)>> /\ queue # <<>>
      BY <1>5 DEF ReceiveFirst
    <3> QED
      BY <1>4, <3>1 DEF ToSet, InOrder
  <2> QED
    BY <1>1, <1>2, <1>4, <1>5, <2>1, OrderUnlogged DEF ReceiveFirst, OrderingInv, OrderInv
<1>6. CASE ReceiveMore
  <2>1. \A r : r \in ToSet(batch') <=> r \in ToSet(batch) \/ r = Head(queue)
    BY <1>2, <1>4, <1>6, Appended DEF ReceiveMore
  <2>2. \A r \in ToSet(batch) : Head(queue) \notin Before[r]
    BY <1>2, <1>4, <1>6 DEF ReceiveMore, OrderingInv, OrderInv
  <2>3. InOrder(batch')
    BY <1>2, <1>4, <1>6, <2>2, AppendedInOrder DEF ReceiveMore, OrderingInv, OrderInv
  <2> QED
    BY <1>1, <1>2, <1>4, <1>6, <2>1, <2>3, OrderUnlogged DEF ReceiveMore, OrderingInv, OrderInv
<1>7. CASE SendBatch
  <2>1. batchReply.result = "none" /\ Len(batch) \in 1..MaxBatchOps
    BY <1>7 DEF SendBatch, OrderingInv, TypeInv, TypeOK, BatchPresent, BatchAttempts, NoReply, Reply
  <2>2. \A r \in ToSet(batch) : ToSet(batch) \cap Before[r] \cap Sync = {}
    BY <1>2, <2>1, WaitedFor DEF Sent, OrderingInv, OnceInv, PlaceInv
  <2>3. InOrder(batch') /\ ToSet(batch') = ToSet(batch)
    BY <1>2, <1>7, <2>1, <2>2, SortedInOrder, SortKeepsRequests
       DEF SendBatch, OrderingInv, OrderInv
  <2> QED
    BY <1>1, <1>7, <2>3, OrderUnlogged DEF SendBatch, OrderingInv, OrderInv
<1>8. CASE BatchSucceeded \/ BatchFailed \/ StopBatcher
  BY <1>1, <1>3, <1>8, OrderUnlogged
     DEF BatchSucceeded, BatchFailed, StopBatcher, OrderingInv, OrderInv
<1> QED
  BY <1>5, <1>6, <1>7, <1>8 DEF BatcherStep

LEMMA ServiceOrder ==
  ASSUME OrderingInv, AnswerBatch \/ \E r \in Request : AnswerDirect(r)
  PROVE  OrderInv'
<1>1. batch \in Seq(Request) /\ ToSet(batch) \subseteq Request
  BY DEF OrderingInv, TypeInv, TypeOK, ToSet
<1>2. CASE AcceptBatch
  <2>1. /\ \A r \in ToSet(batch) : ~Recorded(r)
        /\ log' = Append(log, batch)
        /\ UNCHANGED <<queue, batch, onWire>>
    BY <1>2 DEF AcceptBatch, BatchSent, OrderingInv, OnceInv, PlaceInv
  <2>2. \A r \in ToSet(batch) : \A p \in Before[r] \cap Sync : Recorded(p)
    BY <1>1, WaitedFor DEF Sent
  <2>3. \A r \in Request : Recorded(r) => ToSet(batch) \cap Before[r] = {}
    BY <2>1 DEF OrderingInv, OrderInv
  <2>4. RecordedInProgramOrder'
    BY <1>1, <2>1, <2>2, <2>3, OrderedAppend DEF OrderingInv, OrderInv
  <2>5. \A r \in Request : Recorded(r)' <=> Recorded(r) \/ r \in ToSet(batch)
    BY <1>1, <2>1, RecordedByAppend DEF OrderingInv
  <2> QED
    BY <1>1, <2>1, <2>4, <2>5 DEF OrderingInv, OrderInv
<1>3. ASSUME NEW d \in Request, AcceptDirect(d)
      PROVE  OrderInv'
  <2>1. /\ d \in onWire /\ call[d] # "ok"
        /\ log' = Append(log, <<d>>)
        /\ onWire' = onWire \ {d}
        /\ UNCHANGED <<queue, batch>>
    BY <1>3 DEF AcceptDirect, OrderingInv, WireInv
  <2>2. <<d>> \in Seq(Request) /\ ToSet(<<d>>) = {d}
    BY DEF ToSet
  <2>3. \A r \in Request : Sent(r) => d \notin Before[r]
    BY <2>1, WaitedFor
  <2>4. InOrder(<<d>>)
    BY <2>1, <2>3 DEF InOrder, Sent
  <2>5. \A p \in Before[d] \cap Sync : Recorded(p)
    BY <2>1, WaitedFor DEF Sent
  <2>6. RecordedInProgramOrder'
    <3>1. \A r \in ToSet(<<d>>) : \A p \in Before[r] \cap Sync : Recorded(p)
      BY <2>2, <2>5
    <3>2. \A r \in Request : Recorded(r) => ToSet(<<d>>) \cap Before[r] = {}
      BY <2>2, <2>3 DEF Sent
    <3> QED
      BY <2>1, <2>2, <2>4, <3>1, <3>2, OrderedAppend DEF OrderingInv, OrderInv
  <2>7. \A r \in Request : Recorded(r)' <=> Recorded(r) \/ r = d
    BY <2>1, <2>2, RecordedByAppend DEF OrderingInv
  <2> QED
    BY <2>1, <2>6, <2>7, RequestAssumption DEF OrderingInv, OrderInv
<1>4. CASE RefuseBatch \/ ThrottleBatch \/ \E r \in Request : RefuseDirect(r)
  BY <1>4 DEF RefuseBatch, ThrottleBatch, RefuseDirect, OrderingInv, OrderInv, Recorded,
     RecordedInProgramOrder
<1> QED
  BY <1>2, <1>3, <1>4 DEF AnswerBatch, AnswerDirect

LEMMA OrderStep == OrderingInv /\ [Next]_vars => OrderInv'
<1> SUFFICES ASSUME OrderingInv, [Next]_vars
             PROVE  OrderInv'
  OBVIOUS
<1>1. CASE UNCHANGED vars \/ RuntimeStep
  BY <1>1 DEF OrderingInv, OrderInv, Recorded, RecordedInProgramOrder, RuntimeStep,
     HandlerSucceeds, HandlerFails, HandlerPending, EndInvocation
<1> QED
  BY <1>1, CallerOrder, BatcherOrder, ServiceOrder DEF Next

\* However the calls of an invocation are batched, sorted, throttled and sent past the
\* batcher, the service records an update only with what its caller had waited for, and
\* after everything its caller had issued before it.
THEOREM LogInProgramOrder == Spec => []RecordedInProgramOrder
<1>1. OrderingInv => RecordedInProgramOrder
  BY DEF OrderingInv, OrderInv
<1>2. Init => OrderingInv
  BY TypeInit, TokenInit, AckInit, OnceInit, OrderInit DEF OrderingInv
<1>3. OrderingInv /\ [Next]_vars => OrderingInv'
  BY TypeStep, TokenStep, AckStep, OnceStep, IssuedStep, OrderStep DEF OrderingInv
<1>4. Spec => []OrderingInv
  BY <1>2, <1>3, PTL DEF Spec
<1> QED
  BY <1>1, <1>4, PTL

=============================================================================
