----------------------------- MODULE Algorithms -----------------------------
(***************************************************************************)
(* The pure algorithms, and the inputs that each is looked at with:        *)
(*   order    the updates of a batch, collected one after the other;       *)
(*   retry    a strategy that is asked for one delay after the other;      *)
(*   items    a list of items that gets longer;                            *)
(*   errors   contexts and combinators around an operation, each of which  *)
(*            fails because of the one inside it;                          *)
(*   records  an operation of every kind under every sequence of updates.  *)
(***************************************************************************)
EXTENDS CheckpointOrder, Strategies, Errors, OperationRecords, FiniteSets

CONSTANTS Above,             \* the contexts that each operation lies in
          RetryStrategies,   \* retry strategies
          WaitStrategies,    \* the arguments of create_wait_strategy
          Intervals,         \* and of from_interval
          Batchers,          \* the limits of an ItemBatcher
          Sizes,             \* the sizes of items
          Origins,           \* the errors that a closure fails with
          Text,              \* and the text of that of user code
          MaxBatch, MaxAttempts, MaxItems, MaxNesting   \* bound the inputs

\* An operation lies in its parent and in what that lies in, and not in itself.
ASSUME AboveAssumption ==
  /\ NoParent \notin OpId
  /\ Above \in [OpId -> SUBSET OpId]
  /\ \A id \in OpId : id \notin Above[id] /\ \A a \in Above[id] : Above[a] \subseteq Above[id]
  /\ \A r \in Request : Update[r].parent \in Above[Update[r].id] \cup {NoParent}

\* No multiplier is below 1, and an interval is not of no seconds: it is not rounded up.
ASSUME StrategyAssumption ==
  /\ \A s \in RetryStrategies \cup WaitStrategies \cup Intervals :
       s.base \in Nat /\ s.most \in Nat /\ s.jitter \in {NoJitter, Half, Full}
  /\ \A s \in RetryStrategies :
       /\ s.kind \in {"exponential", "fixed", "linear"} /\ s.attempts \in Nat
       /\ s.kind = "exponential" => s.halves \in Nat \ {0, 1}
       /\ s.kind = "fixed" => s.base <= s.most
  /\ \A s \in WaitStrategies \cup Intervals :
       s.maxAttempts \subseteq Nat /\ \A m, n \in s.maxAttempts : m = n
  /\ \A s \in WaitStrategies : s.halves \in Nat \ {0, 1}
  /\ \A s \in Intervals : 1 <= s.base /\ s.base <= s.most

\* A batch holds an item at least: with a limit of none the first batch would be empty.
ASSUME BatcherAssumption ==
  /\ Sizes \subseteq Nat
  /\ \A batcher \in Batchers : batcher.items \in Nat \ {0} /\ batcher.bytes \in Nat

Kinds == {"child", "race", "any", "all"}

VARIABLES about,   \* which of the algorithms is looked at
          batch,   \* order: the updates collected
          retry,   \* retry: the strategies and the attempt
          items,   \* items: the batcher and the sizes of the items
          nest     \* errors: the operations from the inside out, what the last one may
                   \* have recorded, and what it may return

vars == <<about, batch, retry, items, nest, records>>

Init ==
  /\ about \in {"order", "retry", "items", "errors", "records"}
  /\ RecordsInit
  /\ about = "records" \/ opKind = "wait"
  /\ batch = <<>>
  /\ retry \in IF about = "retry"
               THEN [strategy : RetryStrategies, wait : {"no"}, attempt : {0}] \cup
                    [strategy : WaitStrategies, wait : {"backoff"}, attempt : {1}] \cup
                    [strategy : Intervals, wait : {"interval"}, attempt : {1}]
               ELSE {<<>>}
  /\ items \in IF about = "items" THEN [batcher : Batchers, sizes : {<<>>}] ELSE {<<>>}
  /\ nest \in IF about = "errors"
              THEN {[kinds |-> <<>>, stored |-> {}, errors |-> {e}] : e \in Origins} \cup
                   {[kinds |-> <<f[1]>>, stored |-> {f[2].stored},
                     errors |-> {f[2].returned, ReplayedError(f[2].stored)}] :
                       f \in {<<"step", StepFails(Text)>>,
                              <<"condition", ConditionFails(UserCode("Own", Text, <<>>))>>}}
              ELSE {<<>>}

Collect(r) ==
  /\ about = "order"
  /\ Len(batch) < MaxBatch
  /\ r \notin ToSet(batch)
  /\ batch' = Append(batch, r)
  /\ UNCHANGED <<about, retry, items, nest, records>>

TryAgain ==
  /\ about = "retry"
  /\ retry.attempt < MaxAttempts
  /\ retry' = [retry EXCEPT !.attempt = @ + 1]
  /\ UNCHANGED <<about, batch, items, nest, records>>

NextItem(size) ==
  /\ about = "items"
  /\ Len(items.sizes) < MaxItems
  /\ items' = [items EXCEPT !.sizes = Append(@, size)]
  /\ UNCHANGED <<about, batch, retry, nest, records>>

\* The operation fails in the invocation in which the one inside it has, or in a later
\* one, in which that is replayed.
Nest(kind) ==
  LET Fails(e) == CASE kind = "child" -> ChildFails(e)
                    [] kind = "race"  -> RaceFails(e)
                    [] kind = "any"   -> AnyFails(e)
                    [] kind = "all"   -> AllFails(e)
      ends == {Fails(e) : e \in nest.errors}
  IN  /\ about = "errors"
      /\ Len(nest.kinds) < MaxNesting
      /\ nest' = [kinds  |-> Append(nest.kinds, kind),
                  stored |-> {end.stored : end \in ends},
                  errors |-> {end.returned : end \in ends} \cup
                             {ReplayedError(end.stored) : end \in ends}]
      /\ UNCHANGED <<about, batch, retry, items, records>>

RecordsStep ==
  /\ about = "records"
  /\ RecordsNext
  /\ UNCHANGED <<about, batch, retry, items, nest>>

Next == \/ \E r \in Request : Collect(r)
        \/ TryAgain
        \/ \E size \in Sizes : NextItem(size)
        \/ \E kind \in Kinds : Nest(kind)
        \/ RecordsStep

Spec == Init /\ [][Next]_vars

-----------------------------------------------------------------------------

\* A handler sends the START of a context or of a step before anything that
\* depends on it, and the queue is first in first out.
InProgramOrder ==
  \A i, j \in DOMAIN batch :
    i < j /\ IsStart(batch[j]) =>
      /\ Update[batch[i]].id # Update[batch[j]].id
      /\ Update[batch[j]].id \notin Above[Update[batch[i]].id]

\* The sort rearranges a batch, and puts an update in front of an earlier one only if it
\* compares Less.  On a batch whose updates arrive in program order, sort_checkpoint_batch
\* only moves the completions of the execution to the end and keeps every other update where
\* it was, so no START is moved behind what depends on it.  Whatever order they arrive in,
\* the completion of the execution is last (rule 2), and two updates alone in a batch end up
\* in the order rules 3 and 4 ask for.
SortIsSafe ==
  LET order  == SortedOrder(batch)
      sorted == SortCheckpointBatch(batch)
  IN  /\ IsSorting(batch, order)
      /\ InProgramOrder =>
           \A k, m \in DOMAIN batch :
             k < m /\ IsExecutionCompletion(sorted[k]) = IsExecutionCompletion(sorted[m]) =>
               order[k] < order[m]
      /\ ExecutionCompletionLast(sorted)
      /\ Len(batch) = 2 => ParentStartFirst(sorted) /\ StartBeforeCompletion(sorted)

\* What the strategy says, and when it says no more.
Delay(attempt, quarters) ==
  LET s == retry.strategy
  IN  CASE retry.wait = "no"       -> NextDelay(s, attempt, quarters)
        [] retry.wait = "backoff"  -> WaitDecision(s, TRUE, attempt, quarters)
        [] retry.wait = "interval" -> IntervalDecision(s.base, s.maxAttempts, attempt)

Limit ==
  LET s == retry.strategy
  IN  CASE retry.wait = "no"       -> {s.attempts}
        [] retry.wait = "backoff"  -> IF s.maxAttempts = {} THEN {60} ELSE s.maxAttempts
        [] retry.wait = "interval" -> s.maxAttempts

\* The delay of a strategy, whatever the jitter makes of it: there are as many delays as
\* attempts, each is one that a wait accepts and no longer than the longest delay (or a
\* second), and without jitter they do not shrink.
DelaysAreBounded ==
  about = "retry" =>
    LET s == retry.strategy
        k == retry.attempt
    IN  /\ \A q \in 0..4 :
             /\ Delay(k, q) = {} <=> \E n \in Limit : k >= n
             /\ \A d \in Delay(k, q) : ValidForWait(d) /\ (d <= s.most \/ d = 1)
        /\ s.jitter = NoJitter => \A d \in Delay(k, 0), e \in Delay(k + 1, 0) : d <= e

\* The index of the last item of a batch.
LastOf(b) == b.start + Len(b.items) - 1

\* The size of the first n items, for every n.
Totals(sizes) ==
  LET Total[n \in 0..Len(sizes)] == IF n = 0 THEN 0 ELSE Total[n - 1] + sizes[n]
  IN  Total

SizeOf(sizes, b) == Totals(sizes)[LastOf(b)] - Totals(sizes)[b.start - 1]

\* Some of the items, and no more than the limits allow unless it is a single one.
Fits(batcher, sizes, b) ==
  /\ b.items = SubSeq(sizes, b.start, LastOf(b)) /\ b.items # <<>>
  /\ Len(b.items) <= batcher.items
  /\ SizeOf(sizes, b) <= batcher.bytes \/ Len(b.items) = 1

IsFull(batcher, sizes, b) ==
  \/ Len(b.items) = batcher.items
  \/ SizeOf(sizes, b) + sizes[LastOf(b) + 1] > batcher.bytes

\* The batches of an ItemBatcher are the items, in their order and each once; a batch
\* tells where it starts, keeps to the limits unless a single item exceeds them, and ends
\* only where the next item would not have fitted.
BatchesPartitionItems ==
  about = "items" =>
    LET sizes   == items.sizes
        batches == Batches(items.batcher, sizes)
    IN  /\ sizes = <<>> <=> batches = <<>>
        /\ \A n \in DOMAIN batches :
             /\ Fits(items.batcher, sizes, batches[n])
             /\ batches[n].start = (IF n = 1 THEN 1 ELSE LastOf(batches[n - 1]) + 1)
             /\ IF n = Len(batches) THEN LastOf(batches[n]) = Len(sizes)
                ELSE IsFull(items.batcher, sizes, batches[n])

\* What a context or a race records of an error below it, and what the execution fails
\* with in the end, does not depend on which operations were run and which replayed; for
\* any it is the type alone, whose message displays the variants.  It does depend on it
\* above a condition or an all, which record one error and return another.
StoredErrorIsStable ==
  about = "errors" /\ {nest.kinds[i] : i \in DOMAIN nest.kinds} \cap {"condition", "all"} = {} =>
    LET outputs == nest.stored \cup {ErrorObject(e) : e \in nest.errors}
    IN  /\ Cardinality({o.type : o \in outputs}) = 1
        /\ "any" \notin {nest.kinds[i] : i \in DOMAIN nest.kinds} => Cardinality(outputs) = 1

=============================================================================
