-------------------------- MODULE CheckpointOrder --------------------------
(***************************************************************************)
(* The order in which CheckpointBatcher puts the updates of one batch      *)
(* before it sends them (sdk/src/state/batcher.rs, sort_checkpoint_batch). *)
(* A request stands for one CheckpointRequest; Update gives the operation  *)
(* update it carries, reduced to the fields the order depends on.          *)
(***************************************************************************)
EXTENDS SequencesExt, Integers

CONSTANTS Request,      \* the CheckpointRequests the callers may send
          Update,       \* the OperationUpdate of each request
          OpId,         \* operation ids
          NoParent      \* parent_id = None

OperationType == {"EXECUTION", "STEP", "WAIT", "CALLBACK", "INVOKE", "CONTEXT"}

OperationAction == {"START", "SUCCEED", "FAIL", "CANCEL", "RETRY"}

OperationUpdate == [id : OpId, type : OperationType, action : OperationAction,
                    parent : OpId \cup {NoParent}]

ASSUME UpdateAssumption == Update \in [Request -> OperationUpdate]

-----------------------------------------------------------------------------

IsStart(r) == Update[r].action = "START"

IsExecutionCompletion(r) ==
  Update[r].type = "EXECUTION" /\ Update[r].action \in {"SUCCEED", "FAIL"}

\* The operations whose CONTEXT START is in the batch.
ContextStarts(batch) ==
  {Update[r].id : r \in {s \in ToSet(batch) :
                            Update[s].type = "CONTEXT" /\ IsStart(s)}}

\* The batch's own view of the hierarchy; collecting into a HashMap keeps the
\* parent of the last update of an id.
ParentMap(batch) ==
  [id \in {Update[r].id : r \in ToSet(batch)} |->
     LET last == Max({k \in DOMAIN batch : Update[batch[k]].id = id})
     IN  Update[batch[last]].parent]

\* The walk up the parent map.  A chain of distinct ids is no longer than the
\* map, so bounding the walk by its size changes no answer on acyclic ids.
IsAncestor(parents, id, ancestor) ==
  LET bound == Cardinality(DOMAIN parents)
      Walk[n \in 0..bound] ==
        IF n = 0 THEN id
        ELSE IF Walk[n - 1] \in DOMAIN parents THEN parents[Walk[n - 1]]
        ELSE NoParent
  IN  \E n \in 1..bound : Walk[n] = ancestor

\* r is below the context that s starts, so s has to be sent first.
StartedBelow(batch, r, s) ==
  /\ IsStart(s)
  /\ Update[s].id \in ContextStarts(batch)
  /\ Update[r].parent # NoParent
  /\ \/ Update[r].parent = Update[s].id
     \/ IsAncestor(ParentMap(batch), Update[r].id, Update[s].id)

\* Mutant: the two sides of the parent rule swapped.
ComparesLessChildFirst(batch, i, j) ==
  \/ ~IsExecutionCompletion(batch[i]) /\ IsExecutionCompletion(batch[j])
  \/ /\ IsExecutionCompletion(batch[i]) = IsExecutionCompletion(batch[j])
     /\ ~StartedBelow(batch, batch[j], batch[i])
     /\ StartedBelow(batch, batch[i], batch[j]) \/ i < j

\* The comparator: TRUE iff the i-th request of the batch compares Less than
\* the j-th.  Its four priorities, each deciding only what the ones before it
\* leave open.
ComparesLess(batch, i, j) ==
  LET a == batch[i]
      b == batch[j]
      sameId == Update[a].id = Update[b].id
  IN  \/ ~IsExecutionCompletion(a) /\ IsExecutionCompletion(b)
      \/ /\ IsExecutionCompletion(a) = IsExecutionCompletion(b)
         /\ ~StartedBelow(batch, a, b)
         /\ \/ StartedBelow(batch, b, a)
            \/ sameId /\ IsStart(a) /\ ~IsStart(b)
            \/ ~(sameId /\ IsStart(a) # IsStart(b)) /\ i < j

\* slice::sort_by on the at most 20 elements of these batches is an insertion
\* sort: each index moves left past the run of indices it compares Less than.
SortedOrder(batch) ==
  LET Insert(order, k) ==
        LET stops == {p \in 1..Len(order) : ~ComparesLess(batch, k, order[p])}
        IN  InsertAt(order, 1 + Max(stops \cup {0}), k)
      Order[k \in 0..Len(batch)] == IF k = 0 THEN <<>> ELSE Insert(Order[k - 1], k)
  IN  Order[Len(batch)]

SortCheckpointBatch(batch) ==
  LET order == SortedOrder(batch)
  IN  [k \in 1..Len(batch) |-> batch[order[k]]]

\* What an insertion sort returns even under a comparator that is no order: every element
\* once, and none behind one that came later unless that one compares Less than it.
IsSorting(batch, order) ==
  /\ order \in [DOMAIN batch -> DOMAIN batch]
  /\ \A k \in DOMAIN batch : \E m \in DOMAIN batch : order[m] = k
  /\ \A k, m \in DOMAIN batch :
       /\ order[k] = order[m] => k = m
       /\ order[k] < order[m] /\ ~ComparesLess(batch, order[m], order[k]) => k < m

-----------------------------------------------------------------------------

(***************************************************************************)
(* What the documentation of sort_checkpoint_batch promises of its result. *)
(***************************************************************************)
ExecutionCompletionLast(batch) ==
  \A i, j \in DOMAIN batch :
    IsExecutionCompletion(batch[i]) /\ i < j => IsExecutionCompletion(batch[j])

ParentStartFirst(batch) ==
  \A i, j \in DOMAIN batch :
    /\ Update[batch[i]].type = "CONTEXT"
    /\ IsStart(batch[i])
    /\ Update[batch[j]].parent = Update[batch[i]].id
    => i < j

StartBeforeCompletion(batch) ==
  \A i, j \in DOMAIN batch :
    /\ Update[batch[i]].id = Update[batch[j]].id
    /\ IsStart(batch[i])
    /\ ~IsStart(batch[j])
    => i < j

=============================================================================
