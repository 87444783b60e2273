------------------------- MODULE PromiseCombinators -------------------------
(***************************************************************************)
(* A handler that calls all, all_settled, race and any one after the       *)
(* other, over all the invocations of its execution.  A combinator is one  *)
(* STEP operation of its own; its branches are futures that it spawns as   *)
(* tasks, and a branch may run a step, which is an operation as well.      *)
(*                                                                         *)
(* A branch awaits a step of the context that the handler uses, and takes  *)
(* its id from that context's counter when its task gets there; or, with   *)
(* OwnIds, a step of a context made for it (create_child_context), whose   *)
(* counter is its own.  A checkpoint is one synchronous call.              *)
(***************************************************************************)
EXTENDS SequencesExt, FiniteSetsExt, Integers

CONSTANTS Handlers,    \* the handlers, one of which is executed
          Threads,     \* "one" or "many": the flavour of the tokio runtime
          MaxCrashes   \* bounds the invocations

\* A handler is the sequence of the combinators it calls, each with the bodies of its
\* branches, and says whether each branch has a context of its own.
ASSUME HandlersAssumption ==
  /\ Handlers \subseteq [calls : Seq([kind : {"all", "all_settled", "race", "any"},
                                     body : Seq({"step", "plain"})]),
                         own : BOOLEAN]
  /\ Threads \in {"one", "many"}
  /\ MaxCrashes \in Nat

BranchesOf(h) ==
  UNION {{<<c, b>> : b \in DOMAIN h.calls[c].body} : c \in DOMAIN h.calls}

AllBranches == UNION {BranchesOf(h) : h \in Handlers}

\* The ids a handler takes from its context, and those of the contexts made for branches.
IdsOf(h) == Len(h.calls) + IF h.own THEN 0 ELSE Cardinality(BranchesOf(h))

ContextId(n) == <<0, n>>

Id == AllBranches \cup UNION {{ContextId(n) : n \in 1..IdsOf(h)} : h \in Handlers}

VARIABLES handler,    \* the handler that is executed
          log,        \* the operations the service has recorded
          counter,    \* the step counter of the handler's context
          pc,         \* where the handler is in the combinator it has reached
          id,         \* the id of that combinator
          returned,   \* what the combinators have returned in this invocation
          branch,     \* the spawned tasks, those of earlier combinators included
          settled,    \* the results in the channel, in the order they were sent
          output,     \* how the execution has ended
          crashes,
          observed    \* what the combinators have returned in any invocation

vars == <<handler, log, counter, pc, id, returned, branch, settled, output, crashes, observed>>

Combinator == DOMAIN handler.calls

Branch(c) == DOMAIN handler.calls[c].body

Body(c, b) == handler.calls[c].body[b]

Kind(c) == handler.calls[c].kind

\* Whether each branch has a context of its own.
OwnIds == handler.own

-----------------------------------------------------------------------------
(* Results.  A value is told by the branch that has produced it, or by the *)
(* results of the branches it is made of, and has the shape of its         *)
(* serialised form.                                                        *)

Item(c, b, ok) == [c |-> c, b |-> b, ok |-> ok]

Succeeded(shape, items) == [ok |-> TRUE, shape |-> shape, type |-> "none", items |-> items]

Failed(type, items) == [ok |-> FALSE, shape |-> "error", type |-> type, items |-> items]

Absent == [status |-> "NONE", result |-> Failed("none", <<>>)]

Recorded(result) ==
  [status |-> IF result.ok THEN "SUCCEEDED" ELSE "FAILED", result |-> result]

Unspawned == [pc |-> "none", id |-> <<0, 0>>, result |-> Failed("none", <<>>)]

\* What the type parameter of a combinator makes of a stored result.
Shape(kind) == CASE kind = "all"         -> "list"
                 [] kind = "all_settled" -> "batch"
                 [] OTHER                -> "one"

\* A recorded operation as a caller that expects this shape finds it.
Replayed(op, shape) ==
  IF op.status = "SUCCEEDED" /\ op.result.shape # shape THEN Failed("SerDes", <<>>)
  ELSE op.result

Terminal == {"SUCCEEDED", "FAILED"}

-----------------------------------------------------------------------------

Init ==
  /\ handler \in Handlers
  /\ log = [i \in Id |-> Absent]
  /\ counter = 0
  /\ pc = "call"
  /\ id = ContextId(0)
  /\ returned = <<>>
  /\ branch = [cb \in AllBranches |-> Unspawned]
  /\ settled = <<>>
  /\ output = "none"
  /\ crashes = 0
  /\ observed = <<>>

\* The process is lost with all its tasks, and the handler begins again.
Crash ==
  /\ output = "none"
  /\ crashes < MaxCrashes
  /\ crashes' = crashes + 1
  /\ counter' = 0
  /\ pc' = "call"
  /\ id' = ContextId(0)
  /\ returned' = <<>>
  /\ branch' = [cb \in AllBranches |-> Unspawned]
  /\ settled' = <<>>
  /\ UNCHANGED <<handler, log, output, observed>>

Current == Len(returned) + 1

\* A combinator returns to the handler.
Return(result) ==
  /\ returned' = Append(returned, result)
  /\ observed' = IF Len(returned) = Len(observed) THEN Append(observed, result) ELSE observed
  /\ pc' = "call"
  /\ UNCHANGED output

\* The handler passes an error on with `?`.
HasFailed == returned # <<>> /\ ~Last(returned).ok

\* The handler returns, and its output reaches the service.
End ==
  /\ output = "none" /\ pc = "call"
  /\ HasFailed \/ Len(returned) = Len(handler.calls)
  /\ output' = IF HasFailed THEN "failed" ELSE "succeeded"
  /\ UNCHANGED <<handler, log, counter, pc, id, returned, branch, settled, crashes, observed>>

\* The context gives the combinator its id.
Call ==
  /\ output = "none" /\ pc = "call"
  /\ ~HasFailed /\ Len(returned) < Len(handler.calls)
  /\ counter' = counter + 1
  /\ id' = ContextId(counter + 1)
  /\ pc' = "check"
  /\ UNCHANGED <<handler, log, returned, branch, settled, output, crashes, observed>>

\* check_replay finds that the operation has ended.  Whose operation it was it
\* cannot tell: a combinator and a step are of the same type.
Replay ==
  /\ output = "none" /\ pc = "check"
  /\ log[id].status \in Terminal
  /\ Return(Replayed(log[id], Shape(Kind(Current))))
  /\ UNCHANGED <<handler, log, counter, id, branch, settled, crashes>>

\* START is recorded, again if it was before, and the branches are spawned.
Start ==
  /\ output = "none" /\ pc = "check"
  /\ log[id].status \notin Terminal
  /\ log' = [log EXCEPT ![id].status = "STARTED"]
  /\ branch' = [cb \in AllBranches |->
                  IF cb[1] = Current /\ cb[2] \in Branch(Current)
                  THEN [Unspawned EXCEPT !.pc = "spawned"] ELSE branch[cb]]
  /\ settled' = <<>>
  /\ pc' = "wait"
  /\ UNCHANGED <<handler, counter, id, returned, output, crashes, observed>>

-----------------------------------------------------------------------------
(* The branches.                                                           *)

\* On one thread the tasks are first polled in the order they were spawned in.
MayBegin(c, b) ==
  /\ branch[<<c, b>>].pc = "spawned"
  /\ Threads = "one" =>
       \A a \in AllBranches : a[1] < c \/ (a[1] = c /\ a[2] < b) => branch[a].pc # "spawned"

\* A plain future runs; a step takes its id and looks whether it has ended.
BeginBranch(c, b) ==
  LET mine == IF OwnIds THEN <<c, b>> ELSE ContextId(counter + 1)
  IN  /\ output = "none"
      /\ MayBegin(c, b)
      /\ IF Body(c, b) = "plain"
         THEN /\ branch' = [branch EXCEPT ![<<c, b>>].pc = "running"]
              /\ UNCHANGED counter
         ELSE /\ counter' = IF OwnIds THEN counter ELSE counter + 1
              /\ branch' = [branch EXCEPT ![<<c, b>>] =
                   IF log[mine].status \in Terminal
                   THEN [pc |-> "done", id |-> mine, result |-> Replayed(log[mine], "one")]
                   ELSE [pc |-> "running", id |-> mine, result |-> @.result]]
      /\ UNCHANGED <<handler, log, pc, id, returned, settled, output, crashes, observed>>

\* Mutant: a step gives its result before it is recorded.
EndBranchUnrecorded(c, b) ==
  /\ output = "none"
  /\ branch[<<c, b>>].pc = "running"
  /\ \E ok \in BOOLEAN :
       LET item   == <<Item(c, b, ok)>>
           result == IF ok THEN Succeeded("one", item) ELSE Failed("UserCodeError", item)
       IN  branch' = [branch EXCEPT ![<<c, b>>].pc = "done", ![<<c, b>>].result = result]
  /\ UNCHANGED <<handler, log, counter, pc, id, returned, settled, output, crashes, observed>>

\* The branch's own code ends, well or in error; a step then records its result.
EndBranch(c, b) ==
  /\ output = "none"
  /\ branch[<<c, b>>].pc = "running"
  /\ \E ok \in BOOLEAN :
       LET item   == <<Item(c, b, ok)>>
           result == IF ok THEN Succeeded("one", item) ELSE Failed("UserCodeError", item)
       IN  /\ branch' = [branch EXCEPT ![<<c, b>>].pc = "done", ![<<c, b>>].result = result]
           /\ log' = IF Body(c, b) = "plain" THEN log
                     ELSE [log EXCEPT ![branch[<<c, b>>].id] = Recorded(result)]
  /\ UNCHANGED <<handler, counter, pc, id, returned, settled, output, crashes, observed>>

\* A task that panics drops its end of the channel.
Panic(c, b) ==
  /\ output = "none"
  /\ branch[<<c, b>>].pc = "running"
  /\ branch' = [branch EXCEPT ![<<c, b>>].pc = "gone"]
  /\ UNCHANGED <<handler, log, counter, pc, id, returned, settled, output, crashes, observed>>

\* The result is sent to the combinator, or to nobody if that has returned.
Deliver(c, b) ==
  /\ output = "none"
  /\ branch[<<c, b>>].pc = "done"
  /\ branch' = [branch EXCEPT ![<<c, b>>].pc = "gone"]
  /\ settled' = IF pc = "wait" /\ c = Current
                THEN Append(settled, [b |-> b, result |-> branch[<<c, b>>].result])
                ELSE settled
  /\ UNCHANGED <<handler, log, counter, pc, id, returned, output, crashes, observed>>

-----------------------------------------------------------------------------
(* The combinators.                                                        *)

\* Every task has ended: there is nothing more to receive.
Closed(c) == \A b \in Branch(c) : branch[<<c, b>>].pc = "gone"

Settled(b) == {i \in DOMAIN settled : settled[i].b = b}

ResultOf(b) == settled[CHOOSE i \in Settled(b) : TRUE].result

Successes == {i \in DOMAIN settled : settled[i].result.ok}

\* Mutant: a branch that panics is waited for.
MayDecideAllReceived(c) ==
  \/ Len(settled) = Cardinality(Branch(c))
  \/ Kind(c) = "race" /\ settled # <<>>
  \/ Kind(c) = "any" /\ Successes # {}

\* Whether a combinator has received enough to decide.
MayDecide(c) ==
  \/ Closed(c)
  \/ Kind(c) = "race" /\ settled # <<>>
  \/ Kind(c) = "any" /\ Successes # {}

\* The branches that have not succeeded; the first by index, not by time, is blamed.
Unsuccessful(c) == {b \in Branch(c) : Settled(b) = {} \/ ~ResultOf(b).ok}

\* Mutant: the results of `all` in the order they have come in.
AllByArrival(c) ==
  IF Unsuccessful(c) = {}
  THEN Succeeded("list", [i \in DOMAIN settled |-> settled[i].result])
  ELSE LET b == Min(Unsuccessful(c))
       IN  IF Settled(b) = {} THEN Failed("InternalError", <<>>) ELSE ResultOf(b)

AllResult(c) ==
  IF Unsuccessful(c) = {} THEN Succeeded("list", [b \in Branch(c) |-> ResultOf(b)])
  ELSE LET b == Min(Unsuccessful(c))
       IN  IF Settled(b) = {} THEN Failed("InternalError", <<>>) ELSE ResultOf(b)

\* The item of a branch that panics stays pending.
AllSettledResult(c) ==
  Succeeded("batch", [b \in Branch(c) |-> IF Settled(b) = {} THEN Absent.result ELSE ResultOf(b)])

RaceResult(c) ==
  IF Branch(c) = {} THEN Failed("ValidationError", <<>>)
  ELSE IF settled = <<>> THEN Failed("InternalError", <<>>)
  ELSE settled[1].result

AnyResult(c) ==
  IF Branch(c) = {} THEN Failed("ValidationError", <<>>)
  ELSE IF Successes # {} THEN settled[Min(Successes)].result
  ELSE Failed("AnyCombinatorError", [i \in DOMAIN settled |-> settled[i].result])

Decision(c) == CASE Kind(c) = "all"         -> AllResult(c)
                 [] Kind(c) = "all_settled" -> AllSettledResult(c)
                 [] Kind(c) = "race"        -> RaceResult(c)
                 [] Kind(c) = "any"         -> AnyResult(c)

\* The error that `all` returns names the combinator; the one it records is the
\* branch's.
Live(c, result) ==
  IF Kind(c) = "all" /\ ~result.ok /\ result.type # "InternalError"
  THEN [result EXCEPT !.type = "AllCombinatorError"] ELSE result

\* Mutant: the decision is returned without being recorded.
DecideUnrecorded ==
  /\ output = "none" /\ pc = "wait"
  /\ MayDecide(Current)
  /\ Return(Live(Current, Decision(Current)))
  /\ UNCHANGED <<handler, log, counter, id, branch, settled, crashes>>

\* The decision is recorded and returned.  The other branches of a race go on.
Decide ==
  /\ output = "none" /\ pc = "wait"
  /\ MayDecide(Current)
  /\ LET result == Decision(Current)
     IN  /\ log' = [log EXCEPT ![id] = Recorded(result)]
         /\ Return(Live(Current, result))
  /\ UNCHANGED <<handler, counter, id, branch, settled, crashes>>

-----------------------------------------------------------------------------

HandlerStep == Call \/ Replay \/ Start \/ Decide \/ End

BranchStep(c, b) ==
  BeginBranch(c, b) \/ EndBranch(c, b) \/ Panic(c, b) \/ Deliver(c, b)

Next == \/ HandlerStep
        \/ Crash
        \/ \E cb \in AllBranches : BranchStep(cb[1], cb[2])

Spec == Init /\ [][Next]_vars

\* Tasks are polled, and user code ends.
FairSpec ==
  /\ Spec
  /\ WF_vars(HandlerStep)
  /\ \A cb \in AllBranches : WF_vars(BranchStep(cb[1], cb[2]))

-----------------------------------------------------------------------------

\* A result, if an error then without its type, which `all` changes.
Untyped(result) == IF result.ok THEN result ELSE [result EXCEPT !.type = "none"]

AllUntyped(results) == [i \in DOMAIN results |-> Untyped(results[i])]

\* "Replaying the handler against the recorded history produces the same output"
\* (the replay_behavior example): whichever branch was first in an earlier invocation,
\* each combinator returns what it returned then.
CombinatorReplays == IsPrefix(AllUntyped(returned), AllUntyped(observed))

\* What is recorded of a branch that runs a step in a context of its own.
StepOf(c, b) == log[<<c, b>>]

Steps(c) == {b \in Branch(c) : Body(c, b) = "step"}

\* The results of branches that a decision is made of.
Leaves(result) ==
  IF result.shape \in {"list", "batch"} \/ result.type = "AnyCombinatorError"
  THEN ToSet(result.items) ELSE {result}

\* A combinator never decides on what a crash can still undo: the steps it has decided
\* by are recorded, with the results it reports.
DecisionIsDurable ==
  OwnIds =>
    \A c \in Combinator :
      LET op == log[ContextId(c)]
      IN  op.status \in Terminal =>
            /\ \A leaf \in Leaves(op.result) : \A i \in DOMAIN leaf.items :
                 leaf.items[i].b \in Steps(c) => StepOf(c, leaf.items[i].b) = Recorded(leaf)
            /\ Kind(c) = "all" /\ op.status = "SUCCEEDED" =>
                 \A b \in Steps(c) : StepOf(c, b).status = "SUCCEEDED"
            /\ Kind(c) = "any" /\ op.status = "FAILED" =>
                 \A b \in Steps(c) : StepOf(c, b).status # "SUCCEEDED"

\* `all` gives each value at the index of its branch, and blames the first branch that
\* has failed: the others before it have succeeded.
AllKeepsIndices ==
  OwnIds =>
    \A c \in {d \in Combinator : Kind(d) = "all"} :
      LET op == log[ContextId(c)]
      IN  /\ op.status = "SUCCEEDED" =>
               op.result.items =
                 [b \in Branch(c) |-> Succeeded("one", <<Item(c, b, TRUE)>>)]
          /\ op.status = "FAILED" /\ op.result.items # <<>> =>
               \A b \in Steps(c) :
                 b < op.result.items[1].b => StepOf(c, b).status = "SUCCEEDED"

\* An execution ends, whichever branches panic and however its tasks are scheduled.
HandlerEnds == <>(output # "none")

=============================================================================
