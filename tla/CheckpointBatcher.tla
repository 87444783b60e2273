------------------------- MODULE CheckpointBatcher -------------------------
(***************************************************************************)
(* One invocation of a durable handler, seen from its checkpoints: the     *)
(* calls that handlers make on ExecutionState, the bounded queue, the      *)
(* CheckpointBatcher task, the direct path that create_callback takes past *)
(* the batcher, the shared checkpoint token, the runtime that drops the    *)
(* handler and drains the batcher, and the service at the other end.       *)
(*                                                                         *)
(* Each request of CheckpointOrder is issued once, by the code that runs   *)
(* it; Before[r] holds the earlier calls that this code awaited with `?`.  *)
(***************************************************************************)
EXTENDS CheckpointOrder

CONSTANTS Sync,         \* requests whose caller awaits the batch: is_sync = true
          Direct,       \* requests sent past the batcher
          Spawned,      \* requests of tokio::spawn'ed tasks, which outlive the handler
          Before,       \* Before[r]: the calls that must have returned Ok before r
          QueueCap,     \* CHECKPOINT_QUEUE_BUFFER
          MaxBatchOps,  \* max_batch_operations
          MaxRetries    \* MAX_RETRIES of checkpoint_with_retry

ASSUME RequestAssumption ==
  /\ Sync \subseteq Request
  /\ Direct \subseteq Sync
  /\ Spawned \subseteq Request
  /\ Before \in [Request -> SUBSET Request]
  /\ \A r \in Request : \A p \in Before[r] : Before[p] \subseteq Before[r]

ASSUME BoundAssumption ==
  /\ QueueCap \in Nat \ {0}
  /\ MaxBatchOps \in Nat \ {0}
  /\ MaxRetries \in Nat

\* The calls of the handlers.  What is sent fire-and-forget is the START of a step, whose
\* completion is awaited before its code does anything else, so also before it calls the
\* service directly.  And no call starts a context, or the operation itself, around an
\* update that was issued before it, nor does anything follow the end of the execution:
\* the comparator has no reason to move it in front of that update.
ASSUME ProgramAssumption ==
  \A r \in Request : \A p \in Before[r] \ Sync :
    /\ r \in Direct => \E s \in Before[r] \cap (Sync \ Direct) : p \in Before[s]
    /\ \A n \in 1..MaxBatchOps : \A b \in [1..n -> Request] : \A i, j \in 1..n :
         b[i] = p /\ b[j] = r /\ i < j => ~ComparesLess(b, j, i)

VARIABLES
  call,          \* how far each request's caller has got
  parentDone,    \* ExecutionState::parent_done_lock
  cache,         \* ExecutionState::operations, the status of each operation
  token,         \* ExecutionState::checkpoint_token, shared with the batcher
  queue,         \* the mpsc channel
  batcher,       \* where the batcher task is: first, collect, send, done
  batch,         \* the requests it has collected
  batchToken,    \* the token process_batch read
  attempt,       \* throttled attempts of checkpoint_with_retry
  batchReply,    \* the service's answer to the batch
  onWire,        \* direct requests the service has not answered
  directToken,   \* the token each direct request was sent with
  directReply,   \* the service's answer to each direct request
  serviceToken,  \* the only token the service accepts
  log,           \* the batches the service has recorded, in order
  runtime,       \* run_durable_handler: running, draining, ended
  output         \* the invocation's output

sdk     == <<call, parentDone, cache, token>>
batching == <<batcher, batch, batchToken, attempt, batchReply>>
direct  == <<onWire, directToken, directReply>>
service == <<serviceToken, log>>
process == <<runtime, output>>
vars    == <<sdk, queue, batching, direct, service, process>>

-----------------------------------------------------------------------------

Active  == {"checked", "waiting", "inflight", "acked", "marking"}
Failed  == {"orphaned", "invalid", "error"}
CallState == {"idle", "ok", "dropped"} \cup Active \cup Failed

Reply(result, tok) == [result |-> result, token |-> tok]
Results == {"none", "ok", "invalid", "error"}
NoReply == Reply("none", 0)

\* update_local_cache_from_update: the status an applied action leaves behind.
StatusAfter(action) ==
  CASE action = "START"   -> "STARTED"
    [] action = "SUCCEED" -> "SUCCEEDED"
    [] action = "FAIL"    -> "FAILED"
    [] action = "CANCEL"  -> "CANCELLED"
    [] action = "RETRY"   -> "PENDING"

Status == {"NONE", "STARTED", "SUCCEEDED", "FAILED", "CANCELLED", "PENDING"}

\* The updates after whose checkpoint a handler calls mark_parent_done.
CompletesContext(r) ==
  Update[r].type = "CONTEXT" /\ Update[r].action \in {"SUCCEED", "FAIL"}

Recorded(r) == \E n \in DOMAIN log : r \in ToSet(log[n])

Init ==
  /\ call = [r \in Request |-> "idle"]
  /\ parentDone = {}
  /\ cache = [o \in OpId |-> "NONE"]
  /\ token = 0
  /\ queue = <<>>
  /\ batcher = "first"
  /\ batch = <<>>
  /\ batchToken = 0
  /\ attempt = 0
  /\ batchReply = NoReply
  /\ onWire = {}
  /\ directToken = [r \in Request |-> 0]
  /\ directReply = [r \in Request |-> NoReply]
  /\ serviceToken = 0
  /\ log = <<>>
  /\ runtime = "running"
  /\ output = "none"

-----------------------------------------------------------------------------
(* The callers: ExecutionState and CheckpointSender.                       *)

\* Code that still runs: a spawned task until the process ends, the rest of the
\* handler until the runtime drops it.
Runs(r) == \/ runtime = "running"
           \/ runtime = "draining" /\ r \in Spawned

\* create_checkpoint and create_checkpoint_with_response begin with the orphan
\* check on the direct parent.
Issue(r) ==
  /\ Runs(r)
  /\ call[r] = "idle"
  /\ \A p \in Before[r] : call[p] = "ok"
  /\ call' = [call EXCEPT ![r] = IF Update[r].parent \in parentDone
                                 THEN "orphaned" ELSE "checked"]
  /\ UNCHANGED <<parentDone, cache, token, queue, batching, direct, service, process>>

\* Mutant: every caller is treated as a fire-and-forget one.
EnqueueNoWait(r) ==
  /\ Runs(r) /\ call[r] = "checked" /\ r \notin Direct /\ Len(queue) < QueueCap
  /\ queue' = Append(queue, r)
  /\ call' = [call EXCEPT ![r] = "acked"]
  /\ UNCHANGED <<parentDone, cache, token, batching, direct, service, process>>

\* CheckpointSender::checkpoint: tx.send blocks while the queue is full; an
\* asynchronous caller does not wait for the batch.
Enqueue(r) ==
  /\ Runs(r)
  /\ call[r] = "checked"
  /\ r \notin Direct
  /\ Len(queue) < QueueCap
  /\ queue' = Append(queue, r)
  /\ call' = [call EXCEPT ![r] = IF r \in Sync THEN "waiting" ELSE "acked"]
  /\ UNCHANGED <<parentDone, cache, token, batching, direct, service, process>>

\* create_checkpoint_with_response, and checkpoint_direct in Eager mode, read the
\* shared token and call the service themselves.
SendDirect(r) ==
  /\ Runs(r)
  /\ call[r] = "checked"
  /\ r \in Direct
  /\ onWire' = onWire \cup {r}
  /\ directToken' = [directToken EXCEPT ![r] = token]
  /\ call' = [call EXCEPT ![r] = "inflight"]
  /\ UNCHANGED <<parentDone, cache, token, queue, batching, directReply, service, process>>

\* The caller of a direct request resumes with the service's answer.
ReceiveDirect(r) ==
  /\ Runs(r)
  /\ call[r] = "inflight"
  /\ directReply[r].result # "none"
  /\ IF directReply[r].result = "ok"
     THEN /\ token' = directReply[r].token
          /\ call' = [call EXCEPT ![r] = "acked"]
     ELSE /\ token' = token
          /\ call' = [call EXCEPT ![r] = directReply[r].result]
  /\ directReply' = [directReply EXCEPT ![r] = NoReply]
  /\ UNCHANGED <<parentDone, cache, queue, batching, onWire, directToken, service, process>>

\* After Ok the caller updates the local cache and returns to its handler.
Return(r) ==
  /\ Runs(r)
  /\ call[r] = "acked"
  /\ cache' = [cache EXCEPT ![Update[r].id] = StatusAfter(Update[r].action)]
  /\ call' = [call EXCEPT ![r] = IF CompletesContext(r) THEN "marking" ELSE "ok"]
  /\ UNCHANGED <<parentDone, token, queue, batching, direct, service, process>>

\* The child, map and parallel handlers mark their context done, once its
\* completion checkpoint has returned.
MarkParentDone(r) ==
  /\ Runs(r)
  /\ call[r] = "marking"
  /\ parentDone' = parentDone \cup {Update[r].id}
  /\ call' = [call EXCEPT ![r] = "ok"]
  /\ UNCHANGED <<cache, token, queue, batching, direct, service, process>>

-----------------------------------------------------------------------------
(* The batcher task.                                                       *)

\* The channel is closed when no ExecutionState is left: the runtime dropped its
\* own, and every spawned task that holds a clone has ended or never started.
Live(r) ==
  \/ call[r] \in Active
  \/ call[r] = "idle" /\ \A p \in Before[r] : call[p] \notin Failed \cup {"dropped"}

\* Mutant: the runtime closes the channel itself, spawned tasks or not.
ClosedWithHandler == runtime # "running"

Closed == runtime # "running" /\ \A r \in Spawned : ~Live(r)

BatcherRuns == runtime # "ended"

\* collect_batch blocks for the first request ...
ReceiveFirst ==
  /\ BatcherRuns
  /\ batcher = "first"
  /\ queue # <<>>
  /\ batch' = <<Head(queue)>>
  /\ queue' = Tail(queue)
  /\ batcher' = "collect"
  /\ UNCHANGED <<sdk, batchToken, attempt, batchReply, direct, service, process>>

\* Mutants: no operation limit; the request stays in the channel; the batch grows
\* at its front.
ReceiveMoreUnlimited ==
  /\ BatcherRuns /\ batcher = "collect" /\ queue # <<>>
  /\ batch' = Append(batch, Head(queue))
  /\ queue' = Tail(queue)
  /\ UNCHANGED <<sdk, batcher, batchToken, attempt, batchReply, direct, service, process>>

ReceiveMorePeeked ==
  /\ BatcherRuns /\ batcher = "collect" /\ queue # <<>> /\ Len(batch) < MaxBatchOps
  /\ batch' = Append(batch, Head(queue))
  /\ UNCHANGED <<sdk, queue, batcher, batchToken, attempt, batchReply, direct, service, process>>

ReceiveMoreInFront ==
  /\ BatcherRuns /\ batcher = "collect" /\ queue # <<>> /\ Len(batch) < MaxBatchOps
  /\ batch' = <<Head(queue)>> \o batch
  /\ queue' = Tail(queue)
  /\ UNCHANGED <<sdk, batcher, batchToken, attempt, batchReply, direct, service, process>>

\* ... and takes more until the operation limit, the size limit or the deadline.
ReceiveMore ==
  /\ BatcherRuns
  /\ batcher = "collect"
  /\ Len(batch) < MaxBatchOps
  /\ queue # <<>>
  /\ batch' = Append(batch, Head(queue))
  /\ queue' = Tail(queue)
  /\ UNCHANGED <<sdk, batcher, batchToken, attempt, batchReply, direct, service, process>>

\* process_batch sorts the batch, reads the token and calls the service.  The
\* deadline and the size limit may end the collection after any request.
SendBatch ==
  /\ BatcherRuns
  /\ batcher = "collect"
  /\ batch' = SortCheckpointBatch(batch)
  /\ batchToken' = token
  /\ batcher' = "send"
  /\ UNCHANGED <<sdk, queue, attempt, batchReply, direct, service, process>>

\* The batch was recorded: first the new token is published, then every waiting
\* caller is answered.
BatchSucceeded ==
  /\ BatcherRuns
  /\ batcher = "send"
  /\ batchReply.result = "ok"
  /\ token' = batchReply.token
  /\ call' = [r \in Request |->
                IF r \in ToSet(batch) /\ call[r] = "waiting" THEN "acked" ELSE call[r]]
  /\ batch' = <<>>
  /\ batchToken' = 0
  /\ attempt' = 0
  /\ batchReply' = NoReply
  /\ batcher' = "first"
  /\ UNCHANGED <<parentDone, cache, queue, direct, service, process>>

\* Mutants: a failed batch is reported as Ok, is not reported at all, or puts its
\* own token back.
EndBatch == /\ BatcherRuns /\ batcher = "send"
            /\ batchReply.result \in {"invalid", "error"}
            /\ batch' = <<>> /\ batchToken' = 0 /\ attempt' = 0
            /\ batchReply' = NoReply /\ batcher' = "first"
            /\ UNCHANGED <<parentDone, cache, queue, direct, service, process>>

BatchFailedAsOk ==
  /\ EndBatch
  /\ call' = [r \in Request |->
                IF r \in ToSet(batch) /\ call[r] = "waiting" THEN "acked" ELSE call[r]]
  /\ token' = token

BatchFailedSilently == EndBatch /\ UNCHANGED <<call, token>>

BatchFailedRollback ==
  /\ EndBatch
  /\ call' = [r \in Request |->
                IF r \in ToSet(batch) /\ call[r] = "waiting" THEN "error" ELSE call[r]]
  /\ token' = batchToken

\* Any other answer fails every waiting caller and leaves the token as it is.
BatchFailed ==
  /\ BatcherRuns
  /\ batcher = "send"
  /\ batchReply.result \in {"invalid", "error"}
  /\ call' = [r \in Request |->
                IF r \in ToSet(batch) /\ call[r] = "waiting"
                THEN batchReply.result ELSE call[r]]
  /\ batch' = <<>>
  /\ batchToken' = 0
  /\ attempt' = 0
  /\ batchReply' = NoReply
  /\ batcher' = "first"
  /\ UNCHANGED <<parentDone, cache, token, queue, direct, service, process>>

\* recv returns None: the batch is empty and run exits.
StopBatcher ==
  /\ BatcherRuns
  /\ batcher = "first"
  /\ queue = <<>>
  /\ Closed
  /\ batcher' = "done"
  /\ UNCHANGED <<sdk, queue, batch, batchToken, attempt, batchReply, direct, service, process>>

-----------------------------------------------------------------------------
(* The service, as its clients see it: it records a batch iff the token is *)
(* the current one, and hands out the next token.  An answer that is lost  *)
(* on the way back, or that cannot be read, is an error to the client.     *)

BatchSent == batcher = "send" /\ batchReply.result = "none"

AcceptBatch ==
  /\ BatchSent
  /\ batchToken = serviceToken
  /\ serviceToken' = serviceToken + 1
  /\ log' = Append(log, batch)
  /\ \E result \in {"ok", "error"} : batchReply' = Reply(result, serviceToken + 1)
  /\ UNCHANGED <<sdk, queue, batcher, batch, batchToken, attempt, direct, process>>

RefuseBatch ==
  /\ BatchSent
  /\ batchReply' = Reply(IF batchToken = serviceToken THEN "error" ELSE "invalid", 0)
  /\ UNCHANGED <<sdk, queue, batcher, batch, batchToken, attempt, direct, service, process>>

\* Throttled: checkpoint_with_retry repeats the call with the same token and the
\* same operations, MaxRetries times at most.
ThrottleBatch ==
  /\ BatcherRuns
  /\ BatchSent
  /\ attempt' = attempt + 1
  /\ batchReply' = IF attempt' > MaxRetries THEN Reply("error", 0) ELSE NoReply
  /\ UNCHANGED <<sdk, queue, batcher, batch, batchToken, direct, service, process>>

AcceptDirect(r) ==
  /\ r \in onWire
  /\ directToken[r] = serviceToken
  /\ serviceToken' = serviceToken + 1
  /\ log' = Append(log, <<r>>)
  /\ onWire' = onWire \ {r}
  /\ \E result \in {"ok", "error"} :
       directReply' = [directReply EXCEPT ![r] = Reply(result, serviceToken + 1)]
  /\ UNCHANGED <<sdk, queue, batching, directToken, process>>

\* A direct call is not retried: a throttled one is an error too.
RefuseDirect(r) ==
  /\ r \in onWire
  /\ onWire' = onWire \ {r}
  /\ directReply' = [directReply EXCEPT ![r] =
       Reply(IF directToken[r] = serviceToken THEN "error" ELSE "invalid", 0)]
  /\ UNCHANGED <<sdk, queue, batching, directToken, service, process>>

-----------------------------------------------------------------------------
(* run_durable_handler.                                                    *)

\* The handler's future is gone, and with it every call it was awaiting.
DropHandler ==
  call' = [r \in Request |->
             IF r \notin Spawned /\ call[r] \in Active \cup {"idle"}
             THEN "dropped" ELSE call[r]]

\* The handler returns a value, after the calls it awaited.
HandlerSucceeds ==
  /\ runtime = "running"
  /\ \A r \in Request \ Spawned : call[r] = "ok"
  /\ runtime' = "draining"
  /\ output' = "succeeded"
  /\ UNCHANGED <<sdk, queue, batching, direct, service>>

\* An error passes through `?` to process_result, which reports FAILED.
HandlerFails ==
  /\ runtime = "running"
  /\ \E r \in Request \ Spawned : call[r] \in Failed
  /\ DropHandler
  /\ runtime' = "draining"
  /\ output' = "failed"
  /\ UNCHANGED <<parentDone, cache, token, queue, batching, direct, service>>

\* The handler suspends, or the termination manager's timeout wins the select.
HandlerPending ==
  /\ runtime = "running"
  /\ DropHandler
  /\ runtime' = "draining"
  /\ output' = "pending"
  /\ UNCHANGED <<parentDone, cache, token, queue, batching, direct, service>>

\* The runtime waits for the batcher, but no longer than
\* BATCHER_DRAIN_TIMEOUT_SECS; then the process is frozen as it stands.
EndInvocation ==
  /\ runtime = "draining"
  /\ runtime' = "ended"
  /\ UNCHANGED <<sdk, queue, batching, direct, service, output>>

-----------------------------------------------------------------------------

CallerStep(r) == \/ Issue(r) \/ Enqueue(r) \/ SendDirect(r)
                 \/ ReceiveDirect(r) \/ Return(r) \/ MarkParentDone(r)

BatcherStep == \/ ReceiveFirst \/ ReceiveMore \/ SendBatch
               \/ BatchSucceeded \/ BatchFailed \/ StopBatcher

AnswerBatch == AcceptBatch \/ RefuseBatch \/ ThrottleBatch

AnswerDirect(r) == AcceptDirect(r) \/ RefuseDirect(r)

RuntimeStep == HandlerSucceeds \/ HandlerFails \/ HandlerPending \/ EndInvocation

Next == \/ \E r \in Request : CallerStep(r) \/ AnswerDirect(r)
        \/ BatcherStep
        \/ AnswerBatch
        \/ RuntimeStep

Spec == Init /\ [][Next]_vars

\* tokio polls the batcher whenever it can run, and the service answers every call:
\* the HTTP client has no timeout of its own.
FairSpec == /\ Spec
            /\ WF_vars(BatcherStep)
            /\ WF_vars(AnswerBatch)
            /\ \A r \in Request : WF_vars(AnswerDirect(r)) /\ WF_vars(ReceiveDirect(r))

-----------------------------------------------------------------------------

TypeOK ==
  /\ call \in [Request -> CallState]
  /\ parentDone \subseteq OpId
  /\ cache \in [OpId -> Status]
  /\ token \in Nat
  /\ queue \in Seq(Request) /\ Len(queue) <= QueueCap
  /\ batcher \in {"first", "collect", "send", "done"}
  /\ batch \in Seq(Request) /\ Len(batch) <= MaxBatchOps
  /\ batchToken \in Nat
  /\ attempt \in 0..(MaxRetries + 1)
  /\ batchReply \in [result : Results, token : Nat]
  /\ onWire \subseteq Direct
  /\ directToken \in [Request -> Nat]
  /\ directReply \in [Request -> [result : Results, token : Nat]]
  /\ serviceToken \in Nat
  /\ log \in Seq(Seq(Request))
  /\ runtime \in {"running", "draining", "ended"}
  /\ output \in {"none", "succeeded", "failed", "pending"}

\* A caller of a synchronous checkpoint, batched or direct, is told Ok only after
\* the service has recorded its update.
AckImpliesRecorded ==
  \A r \in Sync : call[r] \in {"acked", "marking", "ok"} => Recorded(r)

\* The local cache never shows a status that the service has not recorded, except
\* one written by a fire-and-forget checkpoint.
CacheIsRecorded ==
  \A o \in OpId : cache[o] # "NONE" =>
    \E r \in Request : /\ Update[r].id = o
                       /\ cache[o] = StatusAfter(Update[r].action)
                       /\ Recorded(r) \/ r \notin Sync

\* Throttling retries, the two paths to the service and lost answers together
\* never record an update twice ("exactly-once checkpoint semantics").
RecordedOnce ==
  \A m, n \in DOMAIN log : \A i \in DOMAIN log[m] : \A j \in DOMAIN log[n] :
    log[m][i] = log[n][j] => m = n /\ i = j

\* The batcher exits only when no caller can be left waiting for it.
StopStrandsNobody ==
  batcher = "done" =>
    /\ queue = <<>>
    /\ batch = <<>>
    /\ \A r \in Request \ Direct : call[r] \notin {"checked", "waiting"}

\* The service records an update after the updates that its handler issued before
\* it, and never without the ones that the handler waited for.
RecordedInProgramOrder ==
  \A n \in DOMAIN log : \A j \in DOMAIN log[n] : \A p \in Before[log[n][j]] :
    /\ p \in Sync => Recorded(p)
    /\ \A m \in DOMAIN log : \A i \in DOMAIN log[m] :
         log[m][i] = p => m < n \/ (m = n /\ i < j)

\* The batcher and a direct call write the shared token without a lock held over
\* their service calls; a late writer still never puts back an older token.
TokenNeverRegresses == [][token' >= token]_vars

\* A caller that waits for its batch gets an answer, unless the drain timeout
\* freezes the process first.
WaiterIsAnswered ==
  \A r \in Request : call[r] = "waiting" ~> call[r] # "waiting" \/ runtime = "ended"

\* "Invalid checkpoint token ... the error is marked as retriable so Lambda can
\* retry with a fresh token" (batcher.rs, rule 4): such an error then must not
\* end the whole execution as FAILED.
InvalidTokenIsRetried ==
  output = "failed" => \E r \in Request : call[r] \in {"error", "orphaned"}

\* "Track parent-child relationships to prevent orphaned operations from
\* checkpointing": nothing is recorded below a context after its completion.
NoOrphanRecorded ==
  \A m, n \in DOMAIN log : m < n =>
    \A p \in ToSet(log[m]) : \A r \in ToSet(log[n]) :
      CompletesContext(p) => Update[r].parent # Update[p].id

=============================================================================
