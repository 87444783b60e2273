---------------------- MODULE PromiseCombinatorsProofs ----------------------
(***************************************************************************)
(* Theorems about PromiseCombinators.  CombinatorReplays is proved for all *)
(* handlers whose combinators keep their ids apart: either every branch    *)
(* has a context of its own, or there is but one combinator, which then    *)
(* has the first id.  A handler that is neither, ReplayBehavior, violates  *)
(* it.  What is durable is proved of every handler.                        *)
(***************************************************************************)
EXTENDS PromiseCombinators, FiniteSetTheorems, WellFoundedInduction, TLAPS

IdsApart == \A h \in Handlers : h.own \/ Len(h.calls) <= 1

\* The same of the handler that is executed.
Apart == OwnIds \/ Len(handler.calls) <= 1

-----------------------------------------------------------------------------
(* Facts about the operators.                                              *)

LEMMA LeastOfNaturals ==
  ASSUME NEW S, S \subseteq Nat, S # {}
  PROVE  Min(S) \in S /\ \A y \in S : Min(S) <= y
<1> DEFINE less == {ss \in Nat \X Nat : ss[1] < ss[2]}
<1>1. IsWellFoundedOn(less, Nat)
  BY NatLessThanWellFounded DEF OpToRel
<1>2. \A x, y \in Nat : <<y, x>> \in less <=> y < x
  OBVIOUS
<1> HIDE DEF less
<1>3. PICK x \in S : \A y \in S : <<y, x>> \notin less
  BY <1>1, WFMin
<1>4. ASSUME NEW y \in S
      PROVE  x <= y
  <2>1. x \in Nat /\ y \in Nat
    OBVIOUS
  <2>2. ~(y < x)
    BY <1>2, <1>3, <2>1
  <2> QED
    BY <2>1, <2>2
<1> QED
  BY <1>4 DEF Min

\* A handler has finitely many branches.
LEMMA FiniteBranches ==
  ASSUME NEW h \in Handlers
  PROVE  IsFiniteSet(BranchesOf(h))
<1> DEFINE n == Len(h.calls)
           Len_(c) == Len(h.calls[c].body)
           Of(c) == {<<c, b>> : b \in 1..Len_(c)}
<1>1. n \in Nat /\ DOMAIN h.calls = 1..n
  BY HandlersAssumption
<1>2. \A c \in 1..n : Len_(c) \in Nat /\ DOMAIN h.calls[c].body = 1..Len_(c)
  BY <1>1, HandlersAssumption
<1> HIDE DEF n, Len_
<1>3. ASSUME NEW c \in 1..n
      PROVE  IsFiniteSet(Of(c))
  <2>1. [b \in 1..Len_(c) |-> <<c, b>>] \in Surjection(1..Len_(c), Of(c))
    BY DEF Surjection
  <2> QED
    BY <1>2, <2>1, FS_Interval, FS_Surjection
<1>4. IsFiniteSet({Of(c) : c \in 1..n})
  <2> HIDE DEF Of
  <2>1. [c \in 1..n |-> Of(c)] \in Surjection(1..n, {Of(c) : c \in 1..n})
    BY DEF Surjection
  <2> QED
    BY <1>1, <2>1, FS_Interval, FS_Surjection
<1>5. BranchesOf(h) = UNION {Of(c) : c \in 1..n}
  BY <1>1, <1>2, SMTT(60) DEF BranchesOf
<1>6. IsFiniteSet(UNION {Of(c) : c \in 1..n})
  <2> HIDE DEF Of
  <2>1. \A T \in {Of(c) : c \in 1..n} : IsFiniteSet(T)
    BY <1>3
  <2> QED
    BY <1>4, <2>1, FS_UNION
<1> QED
  BY <1>5, <1>6

\* The ids of the combinators of a handler are ids, and the branches that can have
\* contexts of their own have others.
LEMMA CombinatorIds ==
  ASSUME NEW h \in Handlers
  PROVE  /\ Len(h.calls) \in Nat /\ DOMAIN h.calls = 1..Len(h.calls)
         /\ \A c \in 1..Len(h.calls) : ContextId(c) \in Id
         /\ \A cb \in BranchesOf(h) :
              /\ cb \in AllBranches /\ cb \in Id /\ cb = <<cb[1], cb[2]>>
              /\ cb[1] \in 1..Len(h.calls) /\ cb[2] \in Nat
              /\ cb[2] \in DOMAIN h.calls[cb[1]].body
         /\ \A c \in 1..Len(h.calls) : \A b \in DOMAIN h.calls[c].body : <<c, b>> \in BranchesOf(h)
<1>1. Len(h.calls) \in Nat /\ DOMAIN h.calls = 1..Len(h.calls)
  BY HandlersAssumption
<1>2. Cardinality(BranchesOf(h)) \in Nat
  BY FiniteBranches, FS_CardinalityType
<1>3. IdsOf(h) \in Nat /\ Len(h.calls) <= IdsOf(h)
  BY <1>1, <1>2 DEF IdsOf
<1>4. \A c \in 1..Len(h.calls) : ContextId(c) \in Id
  <2>1. \A c \in 1..Len(h.calls) : ContextId(c) \in {ContextId(n) : n \in 1..IdsOf(h)}
    BY <1>1, <1>3
  <2> QED
    BY <2>1 DEF Id
<1>5. ASSUME NEW cb \in BranchesOf(h)
      PROVE  /\ cb \in AllBranches /\ cb \in Id /\ cb = <<cb[1], cb[2]>>
             /\ cb[1] \in 1..Len(h.calls) /\ cb[2] \in Nat
             /\ cb[2] \in DOMAIN h.calls[cb[1]].body
  <2>1. PICK c \in DOMAIN h.calls : \E b \in DOMAIN h.calls[c].body : cb = <<c, b>>
    BY DEF BranchesOf
  <2>2. PICK b \in DOMAIN h.calls[c].body : cb = <<c, b>>
    BY <2>1
  <2>3. b \in Nat
    <3>1. c \in 1..Len(h.calls)
      BY <1>1
    <3>2. DOMAIN h.calls[c].body = 1..Len(h.calls[c].body)
      BY <3>1, HandlersAssumption
    <3> QED
      BY <3>2
  <2>4. cb \in AllBranches
    BY DEF AllBranches
  <2>5. cb \in Id
    BY <2>4 DEF Id
  <2>6. cb[1] = c /\ cb[2] = b
    BY <2>2
  <2> QED
    BY <1>1, <2>2, <2>3, <2>4, <2>5, <2>6
<1>6. \A c \in 1..Len(h.calls) : \A b \in DOMAIN h.calls[c].body : <<c, b>> \in BranchesOf(h)
  BY <1>1 DEF BranchesOf
<1> QED
  BY <1>1, <1>4, <1>5, <1>6


-----------------------------------------------------------------------------
(* Replay.                                                                 *)

ItemType == [c : Nat, b : Nat, ok : BOOLEAN]

ErrorType == {"none", "SerDes", "UserCodeError", "InternalError", "ValidationError",
              "AnyCombinatorError", "AllCombinatorError"}

\* What a branch ends with, and what a combinator does.
Leaf == {r \in [ok : BOOLEAN, shape : {"one", "error"}, type : ErrorType,
                items : Seq(ItemType)] : r.ok => r.shape = "one"}

Result == [ok : BOOLEAN, shape : {"one", "error", "list", "batch"}, type : ErrorType,
           items : Seq(ItemType) \cup Seq(Leaf)]

Operation == [status : {"NONE", "STARTED", "SUCCEEDED", "FAILED"}, result : Result]

Task == [pc : {"none", "spawned", "running", "done", "gone"}, id : Nat \X Nat, result : Leaf]

TypeInv ==
  /\ handler \in Handlers
  /\ log \in [Id -> Operation]
  /\ counter \in Nat
  /\ pc \in {"call", "check", "wait"}
  /\ returned \in Seq(Result)
  /\ branch \in [AllBranches -> Task]
  /\ settled \in Seq([b : Nat, result : Leaf])
  /\ observed \in Seq(Result)

\* A recorded combinator has the shape of its results, everything else on record that of
\* a step.
LogInv ==
  /\ \A i \in Id : log[i].status \in Terminal =>
       (log[i].result.ok <=> log[i].status = "SUCCEEDED")
  /\ \A i \in Id : (\A c \in Combinator : i # ContextId(c)) => log[i].result \in Leaf
  /\ \A c \in Combinator : log[ContextId(c)].status = "SUCCEEDED" =>
       log[ContextId(c)].result.shape = Shape(Kind(c))

\* A combinator has the same id in every invocation.
ProgressInv ==
  /\ Len(returned) <= Len(observed)
  /\ Len(observed) <= Len(handler.calls)
  /\ pc # "call" => Len(returned) < Len(handler.calls) /\ id = ContextId(Current)
  /\ OwnIds => counter = Len(returned) + (IF pc = "call" THEN 0 ELSE 1)
  /\ ~OwnIds => IF pc = "call" /\ Len(returned) = 0 THEN counter = 0 ELSE counter >= 1
  /\ pc = "wait" => log[id].status \notin Terminal

\* Only branches of combinators that have started run, and they record nothing under the
\* id of a combinator.
BranchInv ==
  \A cb \in AllBranches : branch[cb].pc # "none" =>
    /\ cb \in BranchesOf(handler)
    /\ cb[1] < Current \/ (cb[1] = Current /\ pc = "wait")
    /\ branch[cb].pc = "running" /\ Body(cb[1], cb[2]) = "step" =>
         /\ OwnIds => branch[cb].id = cb
         /\ \A c \in Combinator : branch[cb].id # ContextId(c)

\* What a combinator has ever returned is what is on record.
AgreeInv ==
  /\ \A c \in 1..Len(observed) :
       /\ log[ContextId(c)].status \in Terminal
       /\ Untyped(observed[c]) = Untyped(log[ContextId(c)].result)
  /\ \A c \in 1..Len(returned) : Untyped(returned[c]) = Untyped(observed[c])

ReplayInv == TypeInv /\ LogInv /\ ProgressInv /\ BranchInv /\ AgreeInv


\* The ids of the executed handler.
HandlerIds ==
  /\ Len(handler.calls) \in Nat /\ Combinator = 1..Len(handler.calls)
  /\ handler.own \in BOOLEAN
  /\ \A c \in Combinator :
       /\ ContextId(c) \in Id
       /\ Kind(c) \in {"all", "all_settled", "race", "any"}
       /\ Branch(c) = 1..Len(handler.calls[c].body) /\ Len(handler.calls[c].body) \in Nat
       /\ \A b \in Branch(c) : <<c, b>> \in BranchesOf(handler)
  /\ \A cb \in AllBranches : cb = <<cb[1], cb[2]>>
  /\ \A cb \in BranchesOf(handler) :
       /\ cb \in AllBranches /\ cb \in Id
       /\ cb[1] \in Combinator /\ cb[2] \in Branch(cb[1])
  /\ \A c, d \in Combinator : ContextId(c) = ContextId(d) => c = d
  /\ \A cb \in BranchesOf(handler) : \A c \in Combinator : cb # ContextId(c)

LEMMA HandlerHasIds ==
  ASSUME handler \in Handlers
  PROVE  HandlerIds
<1>1. /\ Len(handler.calls) \in Nat /\ Combinator = 1..Len(handler.calls)
      /\ handler.own \in BOOLEAN
  BY CombinatorIds, HandlersAssumption DEF Combinator
<1>2. ASSUME NEW c \in Combinator
      PROVE  /\ Kind(c) \in {"all", "all_settled", "race", "any"}
             /\ Branch(c) = 1..Len(handler.calls[c].body) /\ Len(handler.calls[c].body) \in Nat
  <2>1. handler.calls[c] \in [kind : {"all", "all_settled", "race", "any"},
                             body : Seq({"step", "plain"})]
    <3>1. handler.calls \in Seq([kind : {"all", "all_settled", "race", "any"},
                                 body : Seq({"step", "plain"})])
      BY HandlersAssumption
    <3>2. \A S : handler.calls \in Seq(S) => handler.calls[c] \in S
      BY <1>1
    <3> QED
      BY <3>1, <3>2
  <2> QED
    BY <2>1 DEF Kind, Branch
<1>3. \A c \in Combinator : \A b \in Branch(c) : <<c, b>> \in BranchesOf(handler)
  BY <1>1, CombinatorIds DEF Branch
<1>4. \A cb \in BranchesOf(handler) :
        /\ cb \in AllBranches /\ cb \in Id /\ cb = <<cb[1], cb[2]>>
        /\ cb[1] \in Combinator /\ cb[2] \in Branch(cb[1])
  BY <1>1, CombinatorIds DEF Branch
<1>5. \A c, d \in Combinator : ContextId(c) = ContextId(d) => c = d
  BY DEF ContextId
<1>6. ASSUME NEW cb \in BranchesOf(handler), NEW c \in Combinator
      PROVE  cb # ContextId(c)
  <2>1. cb = <<cb[1], cb[2]>> /\ cb[1] # 0
    BY <1>1, <1>4
  <2> QED
    BY <2>1 DEF ContextId
<1>7. \A c \in Combinator : ContextId(c) \in Id
  BY <1>1, CombinatorIds
<1>8. \A cb \in AllBranches : cb = <<cb[1], cb[2]>>
  BY CombinatorIds DEF AllBranches
<1> QED
  BY <1>1, <1>2, <1>3, <1>4, <1>5, <1>6, <1>7, <1>8 DEF HandlerIds

LEMMA BodyType ==
  ASSUME handler \in Handlers, NEW c \in Combinator, NEW b \in Branch(c)
  PROVE  Body(c, b) \in {"step", "plain"}
<1>1. Combinator = 1..Len(handler.calls) /\ Branch(c) = 1..Len(handler.calls[c].body)
  BY HandlerHasIds DEF HandlerIds
<1>2. \A S : handler.calls \in Seq(S) => handler.calls[c] \in S
  BY <1>1
<1>3. handler.calls[c].body \in Seq({"step", "plain"})
  BY <1>2, HandlersAssumption
<1> QED
  BY <1>1, <1>3 DEF Body

LEMMA Results ==
  /\ Leaf \subseteq Result
  /\ \A t \in ErrorType : \A s \in Seq(ItemType) : Failed(t, s) \in Leaf
  /\ \A t \in ErrorType : Failed(t, <<>>) \in Leaf
  /\ \A s \in Seq(ItemType) : Succeeded("one", s) \in Leaf
<1>1. Leaf \subseteq Result
  BY DEF Leaf, Result
<1>2. \A t \in ErrorType : \A s \in Seq(ItemType) : Failed(t, s) \in Leaf
  BY DEF Leaf, Failed
<1>3. <<>> \in Seq(ItemType)
  OBVIOUS
<1>4. \A s \in Seq(ItemType) : Succeeded("one", s) \in Leaf
  BY DEF Leaf, Succeeded, ErrorType
<1> QED
  BY <1>1, <1>2, <1>3, <1>4

LEMMA ReplayInit == Init => ReplayInv
<1> SUFFICES ASSUME Init
             PROVE  ReplayInv
  OBVIOUS
<1>1. HandlerIds
  BY HandlerHasIds DEF Init
<1>2. Failed("none", <<>>) \in Leaf /\ Failed("none", <<>>) \in Result
  BY Results DEF ErrorType
<1>3. TypeInv
  BY <1>2 DEF Init, TypeInv, Operation, Task, Absent, Unspawned
<1>4. LogInv /\ BranchInv
  BY <1>1, <1>2 DEF Init, LogInv, BranchInv, HandlerIds, Absent, Unspawned, Terminal
<1>5. ProgressInv /\ AgreeInv
  BY <1>1 DEF Init, ProgressInv, AgreeInv, HandlerIds
<1> QED
  BY <1>3, <1>4, <1>5 DEF ReplayInv

LEMMA ReplayCrash ==
  ASSUME ReplayInv, Crash
  PROVE  ReplayInv'
<1>1. HandlerIds
  BY HandlerHasIds DEF ReplayInv, TypeInv
<1>2. Failed("none", <<>>) \in Leaf
  BY Results DEF ErrorType
<1>3. TypeInv'
  BY <1>2 DEF Crash, ReplayInv, TypeInv, Task, Unspawned
<1>4. LogInv' /\ BranchInv'
  BY DEF Crash, ReplayInv, LogInv, BranchInv, Unspawned, Combinator, Kind
<1>5. ProgressInv' /\ AgreeInv'
  BY <1>1 DEF Crash, ReplayInv, TypeInv, ProgressInv, AgreeInv, HandlerIds, OwnIds
<1> QED
  BY <1>3, <1>4, <1>5 DEF ReplayInv

LEMMA ReplayCall ==
  ASSUME Apart, ReplayInv, Call \/ End
  PROVE  ReplayInv'
<1>1. HandlerIds
  BY HandlerHasIds DEF ReplayInv, TypeInv
<1>2. CASE Call
  <2>1. Len(returned) \in Nat /\ handler \in Handlers
    BY DEF ReplayInv, TypeInv
  <2>2. handler.own \/ Len(handler.calls) <= 1
    BY <2>1 DEF Apart, OwnIds
  <2>3. counter = Len(returned)
    BY <1>1, <1>2, <2>1, <2>2 DEF Call, ReplayInv, ProgressInv, HandlerIds, OwnIds
  <2>4. TypeInv' /\ LogInv' /\ AgreeInv'
    <3>1. TypeInv'
      BY <1>2 DEF Call, ReplayInv, TypeInv
    <3>2. LogInv'
      BY <1>2 DEF Call, ReplayInv, LogInv, Combinator, Kind
    <3>3. AgreeInv'
      BY <1>2 DEF Call, ReplayInv, AgreeInv
    <3> QED
      BY <3>1, <3>2, <3>3
  <2>5. ProgressInv'
    BY <1>2, <2>1, <2>3 DEF Call, ReplayInv, ProgressInv, Current, OwnIds
  <2>6. BranchInv'
    BY <1>2 DEF Call, ReplayInv, BranchInv, Current, Combinator, Body, OwnIds
  <2> QED
    BY <2>4, <2>5, <2>6 DEF ReplayInv
<1>3. CASE End
  BY <1>3 DEF End, ReplayInv, TypeInv, LogInv, ProgressInv, BranchInv, AgreeInv, OwnIds,
     Combinator, Kind, Current, Body
<1> QED
  BY <1>2, <1>3


\* What a combinator returns is on record under its id: the invariant is preserved.
LEMMA ReplayReturn ==
  ASSUME ReplayInv, HandlerIds, pc # "call", UNCHANGED <<handler, counter, id, branch, settled>>,
         NEW result \in Result, Return(result),
         log' \in [Id -> Operation], LogInv',
         log'[id].status \in Terminal, Untyped(result) = Untyped(log'[id].result),
         log[id].status \in Terminal => log' = log,
         \A i \in Id : i # id => log'[i] = log[i]
  PROVE  ReplayInv'
<1>1. /\ Current \in Combinator /\ id = ContextId(Current) /\ id \in Id
      /\ Len(returned) \in Nat /\ Len(observed) \in Nat
      /\ returned \in Seq(Result) /\ observed \in Seq(Result)
  BY DEF ReplayInv, TypeInv, ProgressInv, Current, HandlerIds
<1>2. /\ returned' \in Seq(Result) /\ Len(returned') = Current
      /\ \A c \in 1..Len(returned) : returned'[c] = returned[c]
      /\ returned'[Current] = result
  BY <1>1 DEF Return, Current
<1>3. TypeInv'
  BY <1>1, <1>2 DEF Return, ReplayInv, TypeInv
<1>4. \A c \in Combinator : c # Current => log'[ContextId(c)] = log[ContextId(c)]
  BY <1>1 DEF HandlerIds
<1>7. BranchInv'
  <2>1. /\ Combinator' = Combinator /\ OwnIds' = OwnIds
        /\ \A cb \in AllBranches : Body(cb[1], cb[2])' = Body(cb[1], cb[2])
    BY DEF Combinator, OwnIds, Body
  <2>2. \A cb \in BranchesOf(handler) : cb[1] \in Nat
    BY DEF HandlerIds
  <2>3. \A cb \in BranchesOf(handler) : cb[1] <= Current => cb[1] < Current'
    BY <1>1, <1>2, <2>2 DEF Current
  <2> QED
    BY <2>1, <2>2, <2>3, <1>1 DEF Return, ReplayInv, BranchInv, Current
<1>5. CASE Len(returned) = Len(observed)
  <2>1. /\ Len(observed') = Current
        /\ \A c \in 1..Len(observed) : observed'[c] = observed[c]
        /\ observed'[Current] = result
    BY <1>1, <1>5 DEF Return, Current
  <2>2. \A c \in 1..Current : c = Current \/ (c \in 1..Len(returned) /\ c \in Combinator)
    BY <1>1 DEF Current, HandlerIds
  <2>3. AgreeInv'
    BY <1>1, <1>2, <1>4, <1>5, <2>1, <2>2 DEF ReplayInv, AgreeInv
  <2>4. ProgressInv'
    BY <1>1, <1>2, <1>5, <2>1 DEF Return, ReplayInv, ProgressInv, OwnIds, Current, HandlerIds
  <2> QED
    BY <1>3, <1>7, <2>3, <2>4 DEF ReplayInv
<1>6. CASE Len(returned) # Len(observed)
  <2>1. observed' = observed /\ Current \in 1..Len(observed)
    BY <1>1, <1>6 DEF Return, ReplayInv, ProgressInv, Current
  <2>2. log' = log
    BY <1>1, <2>1 DEF ReplayInv, AgreeInv
  <2>3. \A c \in 1..Current : c = Current \/ c \in 1..Len(returned)
    BY <1>1 DEF Current
  <2>4. AgreeInv'
    BY <1>1, <1>2, <2>1, <2>2, <2>3 DEF ReplayInv, AgreeInv
  <2>5. ProgressInv'
    BY <1>1, <1>2, <2>1 DEF Return, ReplayInv, ProgressInv, OwnIds, Current, HandlerIds
  <2> QED
    BY <1>3, <1>7, <2>2, <2>4, <2>5 DEF ReplayInv
<1> QED
  BY <1>5, <1>6

LEMMA ReplayReplay ==
  ASSUME ReplayInv, Replay
  PROVE  ReplayInv'
<1>1. HandlerIds
  BY HandlerHasIds DEF ReplayInv, TypeInv
<1>2. /\ Current \in Combinator /\ id = ContextId(Current) /\ id \in Id /\ pc = "check"
      /\ log[id] \in Operation
  BY <1>1 DEF Replay, ReplayInv, TypeInv, ProgressInv, Current, HandlerIds
<1>3. Replayed(log[id], Shape(Kind(Current))) = log[id].result
  BY <1>2 DEF Replayed, ReplayInv, LogInv
<1>4. log[id].result \in Result
  BY <1>2 DEF Operation
<1>5. log' = log /\ LogInv'
  BY DEF Replay, ReplayInv, LogInv, Combinator, Kind
<1>6. Return(log[id].result) /\ log[id].status \in Terminal
  BY <1>3 DEF Replay
<1>7. UNCHANGED <<handler, counter, id, branch, settled>>
  BY DEF Replay
<1> QED
  BY <1>1, <1>2, <1>4, <1>5, <1>6, <1>7, ReplayReturn DEF ReplayInv, TypeInv

LEMMA ReplayStart ==
  ASSUME ReplayInv, Start
  PROVE  ReplayInv'
<1>1. HandlerIds
  BY HandlerHasIds DEF ReplayInv, TypeInv
<1>2. /\ Current \in Combinator /\ id = ContextId(Current) /\ id \in Id /\ pc = "check"
      /\ log[id] \in Operation /\ Len(returned) \in Nat
  BY <1>1 DEF Start, ReplayInv, TypeInv, ProgressInv, Current, HandlerIds
<1>3. /\ log' \in [Id -> Operation]
      /\ log'[id].status = "STARTED" /\ log'[id].result = log[id].result
      /\ \A i \in Id : i # id => log'[i] = log[i]
      /\ log[id].status \notin Terminal
  BY <1>2 DEF Start, ReplayInv, TypeInv, Operation
<1>4. \A cb \in AllBranches :
        branch'[cb] = IF cb[1] = Current /\ cb[2] \in Branch(Current)
                      THEN [Unspawned EXCEPT !.pc = "spawned"] ELSE branch[cb]
  BY DEF Start
<1>5. TypeInv'
  <2>1. [Unspawned EXCEPT !.pc = "spawned"] \in Task
    BY Results DEF Unspawned, Task, ErrorType
  <2> QED
    BY <1>3, <2>1 DEF Start, ReplayInv, TypeInv
<1>6. LogInv'
  BY <1>1, <1>2, <1>3
     DEF Start, ReplayInv, LogInv, Combinator, Kind, Terminal, HandlerIds
<1>7. ProgressInv'
  BY <1>2, <1>3 DEF Start, ReplayInv, ProgressInv, Current, OwnIds, Terminal
<1>8. BranchInv'
  <2>1. /\ Combinator' = Combinator /\ OwnIds' = OwnIds /\ Current' = Current
        /\ handler' = handler /\ pc' = "wait"
        /\ \A cb \in AllBranches : Body(cb[1], cb[2])' = Body(cb[1], cb[2])
    BY DEF Start, Combinator, OwnIds, Body, Current
  <2>2. ASSUME NEW cb \in AllBranches, cb[1] = Current, cb[2] \in Branch(Current)
        PROVE  cb \in BranchesOf(handler) /\ branch'[cb].pc = "spawned"
    <3>1. cb = <<cb[1], cb[2]>>
      BY <1>1 DEF HandlerIds
    <3> QED
      BY <1>1, <1>2, <1>4, <2>2, <3>1 DEF HandlerIds, Unspawned
  <2>3. ASSUME NEW cb \in AllBranches, ~(cb[1] = Current /\ cb[2] \in Branch(Current))
        PROVE  branch'[cb] = branch[cb]
    BY <1>4, <2>3
  <2> QED
    BY <1>2, <2>1, <2>2, <2>3 DEF ReplayInv, BranchInv
<1>9. AgreeInv'
  BY <1>1, <1>2, <1>3 DEF Start, ReplayInv, ProgressInv, AgreeInv, HandlerIds
<1> QED
  BY <1>5, <1>6, <1>7, <1>8, <1>9 DEF ReplayInv


\* What has been received of a branch.
LEMMA Received ==
  ASSUME TypeInv, NEW b, Settled(b) # {}
  PROVE  \E i \in DOMAIN settled : settled[i].b = b /\ ResultOf(b) = settled[i].result
<1> DEFINE i == CHOOSE i \in Settled(b) : TRUE
<1>1. i \in Settled(b)
  OBVIOUS
<1>2. i \in DOMAIN settled /\ settled[i].b = b
  BY <1>1 DEF Settled
<1>3. ResultOf(b) = settled[i].result
  BY DEF ResultOf
<1> QED
  BY <1>2, <1>3

LEMMA ReceivedType ==
  ASSUME TypeInv
  PROVE  /\ \A i \in DOMAIN settled : settled[i].result \in Leaf
         /\ \A b : Settled(b) # {} => ResultOf(b) \in Leaf
<1>1. \A i \in DOMAIN settled : settled[i] \in [b : Nat, result : Leaf]
  <2>1. \A S : settled \in Seq(S) => \A i \in DOMAIN settled : settled[i] \in S
    OBVIOUS
  <2> QED
    BY <2>1 DEF TypeInv
<1>2. \A i \in DOMAIN settled : settled[i].result \in Leaf
  BY <1>1
<1> QED
  BY <1>2, Received

\* The branch that all blames, if it does not succeed.
LEMMA Blamed ==
  ASSUME HandlerIds, NEW c \in Combinator, Unsuccessful(c) # {}
  PROVE  /\ Min(Unsuccessful(c)) \in Branch(c)
         /\ Settled(Min(Unsuccessful(c))) # {} => ~ResultOf(Min(Unsuccessful(c))).ok
         /\ \A b \in Branch(c) : b < Min(Unsuccessful(c)) =>
              Settled(b) # {} /\ ResultOf(b).ok
<1>1. Branch(c) \subseteq Nat
  BY DEF HandlerIds
<1>2. Unsuccessful(c) \subseteq Nat
  BY <1>1 DEF Unsuccessful
<1>3. /\ Min(Unsuccessful(c)) \in Unsuccessful(c)
      /\ \A y \in Unsuccessful(c) : Min(Unsuccessful(c)) <= y
  BY <1>2, LeastOfNaturals
<1> DEFINE least == Min(Unsuccessful(c))
<1>4. \A b \in Branch(c) : b < least => b \notin Unsuccessful(c)
  <2> HIDE DEF least
  <2> QED
    BY <1>1, <1>2, <1>3 DEF least
<1> QED
  BY <1>3, <1>4 DEF Unsuccessful

LEMMA FirstSuccess ==
  ASSUME TypeInv, Successes # {}
  PROVE  /\ Min(Successes) \in DOMAIN settled
         /\ settled[Min(Successes)].result.ok
<1>1. Successes \subseteq Nat
  BY DEF Successes, TypeInv
<1>2. Min(Successes) \in Successes
  BY <1>1, LeastOfNaturals
<1> QED
  BY <1>2 DEF Successes

\* A decision is a result, of the shape that the combinator returns.
LEMMA DecisionType ==
  ASSUME TypeInv, HandlerIds, NEW c \in Combinator
  PROVE  /\ Decision(c) \in Result
         /\ Decision(c).ok => Decision(c).shape = Shape(Kind(c))
<1>1. Branch(c) = 1..Len(handler.calls[c].body) /\ Len(handler.calls[c].body) \in Nat
  BY DEF HandlerIds
<1>2. \A f \in [Branch(c) -> Leaf] : f \in Seq(Leaf)
  BY <1>1
<1>3. \A t \in ErrorType : Failed(t, <<>>) \in Result /\ ~Failed(t, <<>>).ok
  BY Results DEF Failed
<1>4. CASE Kind(c) = "all"
  <2>1. Decision(c) = AllResult(c) /\ Shape(Kind(c)) = "list"
    BY <1>4 DEF Decision, Shape
  <2>2. CASE Unsuccessful(c) = {}
    <3>1. [b \in Branch(c) |-> ResultOf(b)] \in Seq(Leaf)
      BY <1>2, <2>2, ReceivedType DEF Unsuccessful
    <3> QED
      BY <2>1, <2>2, <3>1 DEF AllResult, Succeeded, Result, ErrorType
  <2>3. CASE Unsuccessful(c) # {}
    BY <1>3, <2>1, <2>3, Blamed, ReceivedType, Results DEF AllResult, ErrorType
  <2> QED
    BY <2>2, <2>3
<1>5. CASE Kind(c) = "all_settled"
  <2>1. Decision(c) = AllSettledResult(c) /\ Shape(Kind(c)) = "batch"
    BY <1>5 DEF Decision, Shape
  <2>2. Absent.result \in Leaf
    BY Results DEF Absent, ErrorType
  <2>3. [b \in Branch(c) |-> IF Settled(b) = {} THEN Absent.result ELSE ResultOf(b)] \in Seq(Leaf)
    BY <1>2, <2>2, ReceivedType
  <2> QED
    BY <2>1, <2>3 DEF AllSettledResult, Succeeded, Result, ErrorType
<1>6. CASE Kind(c) = "race"
  <2>1. Decision(c) = RaceResult(c) /\ Shape(Kind(c)) = "one"
    BY <1>6 DEF Decision, Shape
  <2>2. CASE Branch(c) = {} \/ settled = <<>>
    BY <1>3, <2>1, <2>2 DEF RaceResult, ErrorType
  <2>3. CASE ~(Branch(c) = {} \/ settled = <<>>)
    <3>1. 1 \in DOMAIN settled
      BY <2>3 DEF TypeInv
    <3>2. Decision(c) \in Leaf
      BY <2>1, <2>3, <3>1, ReceivedType DEF RaceResult
    <3> QED
      BY <2>1, <3>2, Results DEF Leaf
  <2> QED
    BY <2>2, <2>3
<1>7. CASE Kind(c) = "any"
  <2>1. Decision(c) = AnyResult(c) /\ Shape(Kind(c)) = "one"
    BY <1>7 DEF Decision, Shape
  <2>2. CASE Branch(c) = {}
    BY <1>3, <2>1, <2>2 DEF AnyResult, ErrorType
  <2>3. CASE Branch(c) # {} /\ Successes # {}
    <3>1. Decision(c) \in Leaf
      BY <2>1, <2>3, FirstSuccess, ReceivedType DEF AnyResult
    <3> QED
      BY <2>1, <3>1, Results DEF Leaf
  <2>4. CASE Branch(c) # {} /\ Successes = {}
    <3>1. [i \in DOMAIN settled |-> settled[i].result] \in Seq(Leaf)
      <4>1. DOMAIN settled = 1..Len(settled) /\ Len(settled) \in Nat
        BY DEF TypeInv
      <4> QED
        BY <4>1, ReceivedType
    <3> QED
      BY <2>1, <2>4, <3>1 DEF AnyResult, Failed, Result, ErrorType
  <2> QED
    BY <2>2, <2>3, <2>4
<1> QED
  BY <1>4, <1>5, <1>6, <1>7 DEF HandlerIds

LEMMA ReplayDecide ==
  ASSUME ReplayInv, Decide
  PROVE  ReplayInv'
<1>1. HandlerIds
  BY HandlerHasIds DEF ReplayInv, TypeInv
<1> DEFINE result == Decision(Current)
<1>2. /\ Current \in Combinator /\ id = ContextId(Current) /\ id \in Id /\ pc = "wait"
      /\ log[id].status \notin Terminal
  BY <1>1 DEF Decide, ReplayInv, TypeInv, ProgressInv, Current, HandlerIds
<1>3. result \in Result /\ (result.ok => result.shape = Shape(Kind(Current)))
  BY <1>1, <1>2, DecisionType DEF ReplayInv
<1>4. /\ Live(Current, result) \in Result
      /\ Untyped(Live(Current, result)) = Untyped(result)
  <2> HIDE DEF result
  <2> QED
    BY <1>3 DEF Live, Untyped, Result, ErrorType
<1>5. log' = [log EXCEPT ![id] = Recorded(result)] /\ Return(Live(Current, result))
  BY DEF Decide
<1> HIDE DEF result
<1>6. /\ log' \in [Id -> Operation] /\ log'[id] = Recorded(result)
      /\ \A i \in Id : i # id => log'[i] = log[i]
  BY <1>2, <1>3, <1>5 DEF ReplayInv, TypeInv, Recorded, Operation
<1>7. LogInv'
  <2>1. handler' = handler
    BY DEF Decide
  <2> QED
    BY <1>1, <1>2, <1>3, <1>6, <2>1
       DEF ReplayInv, LogInv, Combinator, Kind, HandlerIds, Recorded, Terminal
<1>8. UNCHANGED <<handler, counter, id, branch, settled>>
  BY DEF Decide
<1> QED
  BY <1>1, <1>2, <1>4, <1>5, <1>6, <1>7, <1>8, ReplayReturn DEF Recorded, Terminal



\* The branches that have not begun.
Waiting == {cb \in BranchesOf(handler) : branch[cb].pc \in {"none", "spawned"}}

\* The ids that the branches can still take from the handler's context are ids.
CountInv == ~OwnIds => counter + Cardinality(Waiting) <= IdsOf(handler)

LEMMA CountFacts ==
  ASSUME TypeInv
  PROVE  /\ IsFiniteSet(Waiting) /\ Cardinality(Waiting) \in Nat
         /\ Cardinality(Waiting) <= Cardinality(BranchesOf(handler))
         /\ \A S : S \subseteq Waiting => IsFiniteSet(S) /\ Cardinality(S) \in Nat
                                          /\ Cardinality(S) <= Cardinality(Waiting)
         /\ Cardinality(BranchesOf(handler)) \in Nat
         /\ ~OwnIds => IdsOf(handler) = Len(handler.calls) + Cardinality(BranchesOf(handler))
<1>1. IsFiniteSet(BranchesOf(handler))
  BY FiniteBranches DEF TypeInv
<1>2. Waiting \subseteq BranchesOf(handler)
  BY DEF Waiting
<1>3. /\ IsFiniteSet(Waiting) /\ Cardinality(Waiting) \in Nat
      /\ Cardinality(Waiting) <= Cardinality(BranchesOf(handler))
      /\ Cardinality(BranchesOf(handler)) \in Nat
  BY <1>1, <1>2, FS_Subset, FS_CardinalityType
<1>4. ASSUME NEW S, S \subseteq Waiting
      PROVE  IsFiniteSet(S) /\ Cardinality(S) \in Nat /\ Cardinality(S) <= Cardinality(Waiting)
  BY <1>3, <1>4, FS_Subset, FS_CardinalityType
<1>5. ~OwnIds => IdsOf(handler) = Len(handler.calls) + Cardinality(BranchesOf(handler))
  BY DEF OwnIds, IdsOf
<1> QED
  BY <1>3, <1>4, <1>5

LEMMA CountInit == Init => CountInv
<1> SUFFICES ASSUME Init
             PROVE  CountInv
  OBVIOUS
<1>1. TypeInv
  BY ReplayInit DEF ReplayInv
<1>2. Len(handler.calls) \in Nat /\ counter = 0
  BY <1>1, HandlerHasIds DEF HandlerIds, TypeInv, Init
<1> QED
  BY <1>1, <1>2, CountFacts DEF CountInv

LEMMA CountStep ==
  ASSUME Apart, ReplayInv, CountInv, TypeInv', [Next]_vars
  PROVE  CountInv'
<1>1. HandlerIds
  BY HandlerHasIds DEF ReplayInv, TypeInv
<1>2. handler' = handler
  BY DEF Next, HandlerStep, BranchStep, vars, Call, Replay, Start, Decide, End, Crash,
         BeginBranch, EndBranch, Panic, Deliver
<1>3. /\ OwnIds' = OwnIds /\ IdsOf(handler)' = IdsOf(handler)
      /\ BranchesOf(handler)' = BranchesOf(handler)
  BY <1>2 DEF OwnIds
<1> SUFFICES ASSUME ~OwnIds
             PROVE  counter' + Cardinality(Waiting') <= IdsOf(handler)
  BY <1>3 DEF CountInv
<1>4. /\ Len(handler.calls) \in Nat /\ Cardinality(Waiting) \in Nat /\ counter \in Nat
      /\ Cardinality(BranchesOf(handler)) \in Nat
      /\ IdsOf(handler) = Len(handler.calls) + Cardinality(BranchesOf(handler))
      /\ counter + Cardinality(Waiting) <= IdsOf(handler)
      /\ Cardinality(Waiting) <= Cardinality(BranchesOf(handler))
  BY <1>1, CountFacts DEF HandlerIds, ReplayInv, TypeInv, CountInv
<1>5. /\ Cardinality(Waiting') \in Nat
      /\ Cardinality(Waiting') <= Cardinality(BranchesOf(handler))
  <2>1. Waiting' \subseteq BranchesOf(handler) /\ IsFiniteSet(BranchesOf(handler))
    BY <1>3, FiniteBranches DEF Waiting, ReplayInv, TypeInv
  <2> QED
    BY <2>1, FS_Subset, FS_CardinalityType
<1>6. counter' = counter /\ Waiting' \subseteq Waiting
        => counter' + Cardinality(Waiting') <= IdsOf(handler)
  BY <1>4, <1>5, CountFacts DEF ReplayInv
<1>7. CASE Crash
  BY <1>4, <1>5, <1>7 DEF Crash
<1>8. CASE Call
  <2>0. /\ Len(returned) \in Nat /\ Len(returned) < Len(handler.calls) /\ pc = "call"
        /\ Len(handler.calls) <= 1
    BY <1>8 DEF Call, ReplayInv, TypeInv, Apart, OwnIds
  <2>a. Len(handler.calls) = 1 /\ Len(returned) = 0
    <3>1. \A m, n \in Nat : m < n /\ n <= 1 => n = 1 /\ m = 0
      OBVIOUS
    <3> QED
      BY <1>4, <2>0, <3>1
  <2>b. counter = 0
    BY <2>0, <2>a, Zenon DEF ReplayInv, ProgressInv
  <2>1. Len(handler.calls) = 1 /\ counter = 0
    BY <2>a, <2>b
  <2>2. counter' = counter + 1
    BY <1>8 DEF Call
  <2> QED
    BY <1>4, <1>5, <2>1, <2>2
<1>9. CASE Start
  <2>1. ASSUME NEW cb \in BranchesOf(handler), branch'[cb].pc \in {"none", "spawned"}
        PROVE  branch[cb].pc \in {"none", "spawned"}
    <3>1. cb \in AllBranches
      BY <1>1 DEF HandlerIds
    <3>2. CASE cb[1] = Current /\ cb[2] \in Branch(Current)
      <4>1. Current \in Nat /\ pc = "check"
        BY <1>9 DEF Start, Current, ReplayInv, TypeInv
      <4> QED
        BY <3>1, <3>2, <4>1 DEF ReplayInv, BranchInv
    <3>3. CASE ~(cb[1] = Current /\ cb[2] \in Branch(Current))
      BY <1>9, <2>1, <3>1, <3>3 DEF Start
    <3> QED
      BY <3>2, <3>3
  <2>2. Waiting' \subseteq Waiting /\ counter' = counter
    BY <1>3, <1>9, <2>1 DEF Waiting, Start
  <2> QED
    BY <1>6, <2>2
<1>10. ASSUME NEW cb \in AllBranches, BranchStep(cb[1], cb[2])
       PROVE  counter' + Cardinality(Waiting') <= IdsOf(handler)
  <2>1. cb = <<cb[1], cb[2]>> /\ branch \in [AllBranches -> Task]
    BY <1>1 DEF HandlerIds, ReplayInv, TypeInv
  <2>2. CASE BeginBranch(cb[1], cb[2])
    <3>1. /\ branch[cb].pc = "spawned" /\ branch'[cb].pc \notin {"none", "spawned"}
          /\ \A a \in AllBranches : a # cb => branch'[a] = branch[a]
      <4>1. branch[cb].pc = "spawned"
        BY <2>1, <2>2 DEF BeginBranch, MayBegin
      <4>2. CASE Body(cb[1], cb[2]) = "plain"
        BY <2>1, <2>2, <4>1, <4>2 DEF BeginBranch, Task
      <4>3. CASE Body(cb[1], cb[2]) # "plain"
        <5>1. PICK t : branch' = [branch EXCEPT ![cb] = t] /\ t.pc \in {"done", "running"}
          <6> DEFINE mine == IF OwnIds THEN cb ELSE ContextId(counter + 1)
                     ended == [pc |-> "done", id |-> mine, result |-> Replayed(log[mine], "one")]
                     begun == [pc |-> "running", id |-> mine, result |-> branch[cb].result]
                     t == IF log[mine].status \in Terminal THEN ended ELSE begun
          <6>1. branch' = [branch EXCEPT ![cb] = t]
            BY <2>1, <2>2, <4>3, Zenon DEF BeginBranch
          <6>2. t.pc \in {"done", "running"}
            OBVIOUS
          <6> QED
            BY <6>1, <6>2
        <5> QED
          BY <2>1, <4>1, <5>1
      <4> QED
        BY <4>2, <4>3
    <3>2. cb \in BranchesOf(handler)
      BY <3>1 DEF ReplayInv, BranchInv
    <3>3. BranchesOf(handler) \subseteq AllBranches
      BY <1>1 DEF HandlerIds
    <3>4. cb \in Waiting /\ Waiting' \subseteq Waiting \ {cb}
      BY <1>3, <3>1, <3>2, <3>3 DEF Waiting
    <3>5. /\ Cardinality(Waiting \ {cb}) = Cardinality(Waiting) - 1
          /\ IsFiniteSet(Waiting \ {cb})
      BY <3>4, CountFacts, FS_RemoveElement DEF ReplayInv
    <3>6. Cardinality(Waiting') <= Cardinality(Waiting) - 1
      BY <3>4, <3>5, FS_Subset
    <3>7. counter' \in {counter, counter + 1}
      BY <2>2 DEF BeginBranch
    <3> QED
      BY <1>4, <1>5, <3>6, <3>7
  <2>3. CASE ~BeginBranch(cb[1], cb[2])
    <3>1. /\ counter' = counter /\ branch'[cb].pc \in {"done", "gone"}
          /\ branch[cb].pc \notin {"none", "spawned"}
          /\ \A a \in AllBranches : a # cb => branch'[a] = branch[a]
      <4>1. CASE EndBranch(cb[1], cb[2])
        BY <2>1, <4>1, SMTT(60) DEF EndBranch, Task
      <4>2. CASE Panic(cb[1], cb[2])
        BY <2>1, <4>2 DEF Panic, Task
      <4>3. CASE Deliver(cb[1], cb[2])
        BY <2>1, <4>3 DEF Deliver, Task
      <4> QED
        BY <1>10, <2>3, <4>1, <4>2, <4>3 DEF BranchStep
    <3>2. BranchesOf(handler) \subseteq AllBranches
      BY <1>1 DEF HandlerIds
    <3>3. Waiting' \subseteq Waiting
      BY <1>3, <3>1, <3>2 DEF Waiting
    <3> QED
      BY <1>6, <3>1, <3>3
  <2> QED
    BY <2>2, <2>3
<1>11. CASE Replay \/ Decide \/ End \/ UNCHANGED vars
  <2>1. branch' = branch /\ counter' = counter
    BY <1>11 DEF Replay, Decide, End, vars
  <2> QED
    BY <1>3, <1>6, <2>1 DEF Waiting
<1> QED
  BY <1>7, <1>8, <1>9, <1>10, <1>11 DEF Next, HandlerStep



\* The id that a step of a branch takes is an id, and no combinator's.
Mine(c, b) == IF OwnIds THEN <<c, b>> ELSE ContextId(counter + 1)

LEMMA MineIsApart ==
  ASSUME Apart, ReplayInv, CountInv, NEW cb \in AllBranches, branch[cb].pc = "spawned"
  PROVE  /\ Mine(cb[1], cb[2]) \in Id /\ Mine(cb[1], cb[2]) \in Nat \X Nat
         /\ \A c \in Combinator : Mine(cb[1], cb[2]) # ContextId(c)
         /\ ~OwnIds => counter >= 1 /\ ~(pc = "call" /\ Len(returned) = 0)
<1>1. HandlerIds
  BY HandlerHasIds DEF ReplayInv, TypeInv
<1>2. /\ cb \in BranchesOf(handler) /\ cb = <<cb[1], cb[2]>>
      /\ cb[1] < Current \/ (cb[1] = Current /\ pc = "wait")
  BY <1>1 DEF ReplayInv, BranchInv, HandlerIds
<1>3. cb[1] \in 1..Len(handler.calls) /\ cb[2] \in Nat /\ Len(handler.calls) \in Nat
  BY <1>1, <1>2 DEF HandlerIds
<1>4. CASE OwnIds
  BY <1>1, <1>2, <1>3, <1>4 DEF Mine, HandlerIds
<1>5. CASE ~OwnIds
  <2>1. /\ Len(handler.calls) = 1 /\ Combinator = {1}
    <3>1. Len(handler.calls) <= 1
      BY <1>5 DEF Apart, ReplayInv, TypeInv, OwnIds
    <3>2. \A n \in Nat : n <= 1 /\ cb[1] \in 1..n => n = 1 /\ 1..n = {1}
      OBVIOUS
    <3> QED
      BY <1>1, <1>3, <3>1, <3>2 DEF HandlerIds
  <2>2. ~(pc = "call" /\ Len(returned) = 0)
    BY <1>2, <1>3 DEF Current
  <2>3. counter >= 1
    BY <1>5, <2>2, Zenon DEF ReplayInv, ProgressInv
  <2>4. counter \in Nat
    BY DEF ReplayInv, TypeInv
  <2>5. cb \in Waiting
    BY <1>2 DEF Waiting
  <2>6. Cardinality(Waiting) \in Nat /\ Cardinality(Waiting) # 0
    BY <2>5, CountFacts, FS_EmptySet DEF ReplayInv
  <2>7. IdsOf(handler) \in Nat
    BY <1>3, <1>5, CountFacts DEF ReplayInv
  <2>8. counter + 1 \in 1..IdsOf(handler)
    BY <1>5, <2>4, <2>6, <2>7 DEF CountInv
  <2>9. ContextId(counter + 1) \in Id
    BY <2>8 DEF Id, ReplayInv, TypeInv
  <2>10. ContextId(counter + 1) # ContextId(1)
    BY <2>3, <2>4 DEF ContextId
  <2>11. Mine(cb[1], cb[2]) = ContextId(counter + 1)
    BY <1>5 DEF Mine
  <2> QED
    BY <1>5, <2>1, <2>2, <2>3, <2>4, <2>9, <2>10, <2>11 DEF ContextId
<1> QED
  BY <1>4, <1>5

LEMMA ReplayBeginBranch ==
  ASSUME Apart, ReplayInv, CountInv, NEW cb \in AllBranches, BeginBranch(cb[1], cb[2])
  PROVE  ReplayInv'
<1>1. HandlerIds
  BY HandlerHasIds DEF ReplayInv, TypeInv
<1>2. cb = <<cb[1], cb[2]>> /\ branch \in [AllBranches -> Task]
  BY <1>1 DEF HandlerIds, ReplayInv, TypeInv
<1>3. branch[cb].pc = "spawned"
  BY <1>2 DEF BeginBranch, MayBegin
<1> DEFINE mine == Mine(cb[1], cb[2])
<1>4. /\ mine \in Id /\ mine \in Nat \X Nat
      /\ \A c \in Combinator : mine # ContextId(c)
      /\ ~OwnIds => counter >= 1 /\ ~(pc = "call" /\ Len(returned) = 0)
  BY <1>3, MineIsApart
<1>5. Replayed(log[mine], "one") \in Leaf
  <2>1. log[mine].result \in Leaf
    BY <1>4 DEF ReplayInv, LogInv
  <2> QED
    BY <2>1, Results DEF Replayed, ErrorType
<1>6. PICK t \in Task : /\ branch' = [branch EXCEPT ![cb] = t]
                        /\ t.pc \in {"running", "done"}
                        /\ t.pc = "running" /\ Body(cb[1], cb[2]) = "step" => t.id = mine
  <2>1. CASE Body(cb[1], cb[2]) = "plain"
    <3> DEFINE begun == [branch[cb] EXCEPT !.pc = "running"]
    <3>1. branch' = [branch EXCEPT ![cb] = begun]
      BY <1>2, <2>1 DEF BeginBranch
    <3>2. begun \in Task /\ begun.pc = "running"
      BY <1>2 DEF Task
    <3> HIDE DEF begun
    <3> QED
      BY <2>1, <3>1, <3>2
  <2>2. CASE Body(cb[1], cb[2]) # "plain"
    <3> DEFINE ended == [pc |-> "done", id |-> mine, result |-> Replayed(log[mine], "one")]
               begun == [pc |-> "running", id |-> mine, result |-> branch[cb].result]
               t == IF log[mine].status \in Terminal THEN ended ELSE begun
    <3>1. branch' = [branch EXCEPT ![cb] = t]
      BY <1>2, <2>2, Zenon DEF BeginBranch, Mine
    <3>2. branch[cb].result \in Leaf
      BY <1>2 DEF Task
    <3>3. ended \in Task /\ begun \in Task
      <4> HIDE DEF mine
      <4> QED
        BY <1>4, <1>5, <3>2 DEF Task
    <3> QED
      BY <3>1, <3>3
  <2> QED
    BY <2>1, <2>2
<1>7. /\ UNCHANGED <<handler, log, pc, id, returned, settled, observed>>
      /\ OwnIds => counter' = counter
      /\ ~OwnIds => counter' \in {counter, counter + 1}
      /\ counter' \in {counter, counter + 1}
  BY DEF BeginBranch
<1> HIDE DEF mine
<1>8. TypeInv'
  BY <1>2, <1>6, <1>7 DEF ReplayInv, TypeInv
<1>9. LogInv'
  BY <1>7 DEF ReplayInv, LogInv, Combinator, Kind
<1>10. ProgressInv'
  <2>1. OwnIds' = OwnIds /\ Current' = Current /\ counter \in Nat
    BY <1>7 DEF OwnIds, Current, ReplayInv, TypeInv
  <2>2. ~OwnIds => counter' >= 1
    BY <1>4, <1>7, <2>1
  <2> QED
    BY <1>4, <1>7, <2>1, <2>2 DEF ReplayInv, ProgressInv
<1>11. BranchInv'
  <2>1. /\ OwnIds' = OwnIds /\ Current' = Current /\ Combinator' = Combinator
        /\ \A c, b : Body(c, b)' = Body(c, b)
    BY <1>7 DEF OwnIds, Current, Combinator, Body
  <2>2. OwnIds => mine = cb
    BY <1>2 DEF mine, Mine
  <2>3. ASSUME NEW a \in AllBranches, a # cb
        PROVE  branch'[a] = branch[a]
    BY <1>2, <1>6, <2>3
  <2>4. branch'[cb] = t
    BY <1>2, <1>6
  <2>5. branch[cb].pc # "none"
    BY <1>3
  <2> QED
    BY <1>4, <1>6, <1>7, <2>1, <2>2, <2>3, <2>4, <2>5 DEF ReplayInv, BranchInv
<1>12. AgreeInv'
  BY <1>7 DEF ReplayInv, AgreeInv
<1> QED
  BY <1>8, <1>9, <1>10, <1>11, <1>12 DEF ReplayInv

LEMMA ReplayEndBranch ==
  ASSUME ReplayInv, NEW cb \in AllBranches,
         EndBranch(cb[1], cb[2]) \/ Panic(cb[1], cb[2]) \/ Deliver(cb[1], cb[2])
  PROVE  ReplayInv'
<1>1. HandlerIds
  BY HandlerHasIds DEF ReplayInv, TypeInv
<1>2. cb = <<cb[1], cb[2]>> /\ branch \in [AllBranches -> Task]
  BY <1>1 DEF HandlerIds, ReplayInv, TypeInv
<1>3. /\ UNCHANGED <<handler, counter, pc, id, returned, observed>>
      /\ OwnIds' = OwnIds /\ Current' = Current /\ Combinator' = Combinator
      /\ \A c, b : Body(c, b)' = Body(c, b)
      /\ \A c : Kind(c)' = Kind(c)
  BY DEF EndBranch, Panic, Deliver, OwnIds, Current, Combinator, Body, Kind
<1>4. PICK t \in Task : /\ branch' = [branch EXCEPT ![cb] = t]
                        /\ t.pc \in {"done", "gone"} /\ branch[cb].pc # "none"
  <2>1. CASE EndBranch(cb[1], cb[2])
    <3>1. PICK ok \in BOOLEAN : branch' =
             [branch EXCEPT ![cb].pc = "done",
                ![cb].result = IF ok THEN Succeeded("one", <<Item(cb[1], cb[2], ok)>>)
                               ELSE Failed("UserCodeError", <<Item(cb[1], cb[2], ok)>>)]
      BY <1>2, <2>1, Zenon DEF EndBranch
    <3> DEFINE r == IF ok THEN Succeeded("one", <<Item(cb[1], cb[2], ok)>>)
                    ELSE Failed("UserCodeError", <<Item(cb[1], cb[2], ok)>>)
    <3>2. cb \in BranchesOf(handler) /\ branch[cb].pc = "running"
      BY <1>2, <2>1 DEF EndBranch, ReplayInv, BranchInv
    <3>3. <<Item(cb[1], cb[2], ok)>> \in Seq(ItemType)
      BY <1>1, <3>2 DEF HandlerIds, Item, ItemType
    <3>4. r \in Leaf
      BY <3>3, Results DEF ErrorType
    <3> HIDE DEF r
    <3> DEFINE done == [branch[cb] EXCEPT !.pc = "done", !.result = r]
    <3>5. branch' = [branch EXCEPT ![cb] = done]
      BY <1>2, <3>1 DEF r
    <3>6. done \in Task /\ done.pc = "done"
      BY <1>2, <3>4 DEF Task
    <3> HIDE DEF done
    <3> QED
      BY <3>2, <3>5, <3>6
  <2>2. CASE Panic(cb[1], cb[2]) \/ Deliver(cb[1], cb[2])
    <3> DEFINE gone == [branch[cb] EXCEPT !.pc = "gone"]
    <3>1. branch' = [branch EXCEPT ![cb] = gone] /\ branch[cb].pc \in {"running", "done"}
      BY <1>2, <2>2 DEF Panic, Deliver
    <3>2. gone \in Task /\ gone.pc = "gone"
      BY <1>2 DEF Task
    <3> HIDE DEF gone
    <3> QED
      BY <3>1, <3>2
  <2> QED
    BY <2>1, <2>2
<1>5. settled' \in Seq([b : Nat, result : Leaf])
  <2>1. settled \in Seq([b : Nat, result : Leaf])
    BY DEF ReplayInv, TypeInv
  <2>2. cb[2] \in Nat /\ branch[cb].result \in Leaf
    <3>1. cb \in BranchesOf(handler)
      BY <1>4 DEF ReplayInv, BranchInv
    <3> QED
      BY <1>1, <1>2, <3>1 DEF HandlerIds, Task
  <2>3. \/ settled' = settled
        \/ settled' = Append(settled, [b |-> cb[2], result |-> branch[cb].result])
    BY <1>2 DEF EndBranch, Panic, Deliver
  <2>4. \A S, s, e : s \in Seq(S) /\ e \in S => Append(s, e) \in Seq(S)
    OBVIOUS
  <2> QED
    BY <2>1, <2>2, <2>3, <2>4
\* What a step records is not under the id of a combinator.
<1>6. \/ log' = log
      \/ \E i : \E r \in Leaf : /\ \A c \in Combinator : i # ContextId(c)
                                /\ log' = [log EXCEPT ![i] = Recorded(r)]
  <2>1. CASE EndBranch(cb[1], cb[2])
    <3>1. PICK ok \in BOOLEAN : log' =
             IF Body(cb[1], cb[2]) = "plain" THEN log
             ELSE [log EXCEPT ![branch[cb].id] =
                     Recorded(IF ok THEN Succeeded("one", <<Item(cb[1], cb[2], ok)>>)
                              ELSE Failed("UserCodeError", <<Item(cb[1], cb[2], ok)>>))]
      BY <1>2, <2>1, Zenon DEF EndBranch
    <3> DEFINE r == IF ok THEN Succeeded("one", <<Item(cb[1], cb[2], ok)>>)
                    ELSE Failed("UserCodeError", <<Item(cb[1], cb[2], ok)>>)
    <3>2. cb \in BranchesOf(handler) /\ branch[cb].pc = "running"
      BY <1>2, <2>1 DEF EndBranch, ReplayInv, BranchInv
    <3>3. <<Item(cb[1], cb[2], ok)>> \in Seq(ItemType)
      BY <1>1, <3>2 DEF HandlerIds, Item, ItemType
    <3>4. r \in Leaf
      BY <3>3, Results DEF ErrorType
    <3>5. log' = log \/ log' = [log EXCEPT ![branch[cb].id] = Recorded(r)]
      BY <3>1
    <3>6. Body(cb[1], cb[2]) \in {"plain", "step"}
      <4>1. Body(cb[1], cb[2]) \in {"plain", "step"}
        BY <1>1, <3>2, BodyType DEF HandlerIds, ReplayInv, TypeInv
      <4> QED
        BY <4>1
    <3> HIDE DEF r
    <3>7. CASE Body(cb[1], cb[2]) = "step"
      BY <3>2, <3>4, <3>5, <3>7 DEF ReplayInv, BranchInv
    <3>8. CASE Body(cb[1], cb[2]) = "plain"
      BY <3>1, <3>8
    <3> QED
      BY <3>6, <3>7, <3>8
  <2>2. CASE Panic(cb[1], cb[2]) \/ Deliver(cb[1], cb[2])
    BY <2>2 DEF Panic, Deliver
  <2> QED
    BY <2>1, <2>2
<1>7. /\ log' \in [Id -> Operation]
      /\ \A c \in Combinator : log'[ContextId(c)] = log[ContextId(c)]
      /\ \A i \in Id : \/ log'[i] = log[i]
                       \/ \E r \in Leaf : log'[i] = Recorded(r)
  <2>1. log \in [Id -> Operation]
    BY DEF ReplayInv, TypeInv
  <2>2. \A r \in Leaf : Recorded(r) \in Operation
    BY Results DEF Recorded, Operation, Leaf
  <2>3. \A c \in Combinator : ContextId(c) \in Id
    BY <1>1 DEF HandlerIds
  <2> QED
    BY <1>6, <2>1, <2>2, <2>3
<1>8. TypeInv'
  BY <1>2, <1>3, <1>4, <1>5, <1>7 DEF ReplayInv, TypeInv
<1>9. LogInv'
  <2>1. \A r \in Leaf : /\ Recorded(r).result = r
                        /\ r.ok <=> Recorded(r).status = "SUCCEEDED"
    BY DEF Recorded, Leaf
  <2>2. \A i \in Id : log'[i].status \in Terminal =>
          (log'[i].result.ok <=> log'[i].status = "SUCCEEDED")
    BY <1>7, <2>1 DEF ReplayInv, LogInv
  <2>3. \A i \in Id : (\A c \in Combinator : i # ContextId(c)) => log'[i].result \in Leaf
    BY <1>7, <2>1 DEF ReplayInv, LogInv
  <2>4. \A c \in Combinator : log'[ContextId(c)].status = "SUCCEEDED" =>
          log'[ContextId(c)].result.shape = Shape(Kind(c))
    BY <1>7 DEF ReplayInv, LogInv
  <2> QED
    BY <1>3, <2>2, <2>3, <2>4 DEF LogInv
<1>10. ProgressInv'
  <2>1. pc = "wait" => id = ContextId(Current) /\ Current \in Combinator
    BY <1>1 DEF ReplayInv, TypeInv, ProgressInv, Current, HandlerIds
  <2>2. pc = "wait" => log'[id].status = log[id].status
    BY <1>7, <2>1
  <2> QED
    BY <1>3, <2>2 DEF ReplayInv, ProgressInv
<1>11. BranchInv'
  <2>1. ASSUME NEW a \in AllBranches, a # cb
        PROVE  branch'[a] = branch[a]
    BY <1>2, <1>4, <2>1
  <2>2. branch'[cb] = t /\ t.pc # "running"
    BY <1>2, <1>4
  <2> QED
    BY <1>3, <1>4, <2>1, <2>2 DEF ReplayInv, BranchInv
<1>12. AgreeInv'
  <2>1. \A c \in 1..Len(observed) : c \in Combinator
    BY <1>1 DEF ReplayInv, TypeInv, ProgressInv, HandlerIds
  <2> QED
    BY <1>3, <1>7, <2>1 DEF ReplayInv, AgreeInv
<1> QED
  BY <1>8, <1>9, <1>10, <1>11, <1>12 DEF ReplayInv



LEMMA ReplayStep ==
  ASSUME Apart, ReplayInv, CountInv, [Next]_vars
  PROVE  ReplayInv' /\ CountInv'
<1>1. CASE End \/ UNCHANGED vars
  <2>1. UNCHANGED <<handler, log, counter, pc, id, returned, branch, settled, observed>>
    BY <1>1 DEF End, vars
  <2> QED
    BY <2>1 DEF ReplayInv, CountInv, TypeInv, LogInv, ProgressInv, BranchInv, AgreeInv, OwnIds,
                Current, Combinator, Kind, Body, Waiting
<1>2. CASE ~(End \/ UNCHANGED vars)
  <2>1. ReplayInv'
    BY <1>2, ReplayCrash, ReplayCall, ReplayReplay, ReplayStart, ReplayDecide,
       ReplayBeginBranch, ReplayEndBranch
       DEF Next, HandlerStep, BranchStep
  <2> QED
    BY <2>1, CountStep DEF ReplayInv
<1> QED
  BY <1>1, <1>2

\* The executed handler never changes, so that this holds of every execution whose handler
\* keeps its ids apart.
ApartInv == handler \in Handlers /\ (Apart => ReplayInv /\ CountInv)

LEMMA ReplayInvariant == Spec => []ApartInv
<1>1. Init => ApartInv
  BY ReplayInit, CountInit DEF ApartInv, Init
<1>2. ApartInv /\ [Next]_vars => ApartInv'
  <2> SUFFICES ASSUME ApartInv, [Next]_vars
               PROVE  ApartInv'
    OBVIOUS
  <2>1. handler' = handler
    BY DEF Next, HandlerStep, BranchStep, vars, Call, Replay, Start, Decide, End, Crash,
           BeginBranch, EndBranch, Panic, Deliver
  <2>2. Apart' = Apart
    BY <2>1 DEF Apart, OwnIds
  <2> QED
    BY <2>1, <2>2, ReplayStep DEF ApartInv
<1> QED
  BY <1>1, <1>2, PTL DEF Spec

\* Whatever branch was first in an earlier invocation, and whatever other branches have
\* recorded since, each combinator that is called again returns what it returned then: of
\* every handler whose combinators keep their ids apart.
THEOREM CombinatorsReplay ==
  ASSUME IdsApart
  PROVE  Spec => []CombinatorReplays
<1>1. ASSUME ReplayInv
      PROVE  CombinatorReplays
  <2> DEFINE s == AllUntyped(returned)
             t == AllUntyped(observed)
  <2>1. /\ returned \in Seq(Result) /\ observed \in Seq(Result)
        /\ Len(returned) <= Len(observed)
        /\ \A c \in 1..Len(returned) : Untyped(returned[c]) = Untyped(observed[c])
    BY <1>1 DEF ReplayInv, TypeInv, ProgressInv, AgreeInv
  <2>2. \A r \in Result : Untyped(r) \in Result
    BY DEF Untyped, Result, ErrorType
  <2>3. /\ s = [i \in 1..Len(returned) |-> Untyped(returned[i])]
        /\ t = [i \in 1..Len(observed) |-> Untyped(observed[i])]
    BY <2>1 DEF AllUntyped
  <2>4. /\ s \in Seq(Result) /\ Len(s) = Len(returned)
        /\ t \in Seq(Result) /\ Len(t) = Len(observed)
        /\ \A c \in 1..Len(s) : s[c] = t[c]
    <3> HIDE DEF s, t
    <3>1. \A c \in 1..Len(returned) : returned[c] \in Result
      BY <2>1
    <3>2. \A c \in 1..Len(observed) : observed[c] \in Result
      BY <2>1
    <3> QED
      BY <2>1, <2>2, <2>3, <3>1, <3>2
  <2> HIDE DEF s, t
  <2>5. SubSeq(s, 1, Len(s)) = SubSeq(t, 1, Len(s))
    BY <2>1, <2>4
  <2>6. IsPrefix(s, t)
    BY <2>1, <2>4, <2>5 DEF IsPrefix
  <2> QED
    BY <2>6 DEF CombinatorReplays, s, t
<1>2. ApartInv => ReplayInv
  BY DEF ApartInv, IdsApart, Apart, OwnIds
<1> QED
  BY <1>1, <1>2, ReplayInvariant, PTL


-----------------------------------------------------------------------------
(* Durability, of handlers whose branches have contexts of their own.      *)

\* What the code of a branch ends with.
OwnResult(c, b) ==
  {Succeeded("one", <<Item(c, b, TRUE)>>), Failed("UserCodeError", <<Item(c, b, FALSE)>>)}

\* The result is that of the branch, and its step, if it is one, has recorded it.
Durable(c, b, result) ==
  /\ result \in OwnResult(c, b)
  /\ Body(c, b) = "step" => StepOf(c, b) = Recorded(result)

\* What is on record, in a task and in the channel are the results of the branches
\* themselves; and a task that is gone has delivered what it has recorded.
TaskInv ==
  \A c \in Combinator : \A b \in Branch(c) :
    LET task == branch[<<c, b>>]
    IN  /\ StepOf(c, b).status \in Terminal =>
             Body(c, b) = "step" /\ Durable(c, b, StepOf(c, b).result)
        /\ task.pc = "done" => Durable(c, b, task.result)
        /\ task.pc = "running" => StepOf(c, b).status \notin Terminal
        /\ pc = "wait" /\ c = Current /\ task.pc = "gone" /\ StepOf(c, b).status \in Terminal =>
             Settled(b) # {}

ChannelInv ==
  pc = "wait" => \A i \in DOMAIN settled :
    settled[i].b \in Branch(Current) /\ Durable(Current, settled[i].b, settled[i].result)

\* Once all branches have failed none of them runs.
FailedInv ==
  \A c \in Combinator :
    Kind(c) = "any" /\ log[ContextId(c)].status = "FAILED" =>
      \A b \in Branch(c) : branch[<<c, b>>].pc \in {"none", "gone"}

\* What the two properties say of one combinator.
DecidedWell(c) ==
  LET op == log[ContextId(c)]
  IN  /\ op.status \in Terminal =>
           /\ \A leaf \in Leaves(op.result) : \A i \in DOMAIN leaf.items :
                leaf.items[i].b \in Steps(c) => StepOf(c, leaf.items[i].b) = Recorded(leaf)
           /\ Kind(c) = "all" /\ op.status = "SUCCEEDED" =>
                \A b \in Steps(c) : StepOf(c, b).status = "SUCCEEDED"
           /\ Kind(c) = "any" /\ op.status = "FAILED" =>
                \A b \in Steps(c) : StepOf(c, b).status # "SUCCEEDED"
      /\ Kind(c) = "all" =>
           /\ op.status = "SUCCEEDED" =>
                op.result.items =
                  [b \in Branch(c) |-> Succeeded("one", <<Item(c, b, TRUE)>>)]
           /\ op.status = "FAILED" /\ op.result.items # <<>> =>
                \A b \in Steps(c) :
                  b < op.result.items[1].b => StepOf(c, b).status = "SUCCEEDED"

DurableInv ==
  OwnIds => TaskInv /\ ChannelInv /\ FailedInv /\ \A c \in Combinator : DecidedWell(c)

LEMMA DecidedProperties ==
  ASSUME OwnIds, \A c \in Combinator : DecidedWell(c)
  PROVE  DecisionIsDurable /\ AllKeepsIndices
BY DEF DecisionIsDurable, AllKeepsIndices, DecidedWell

LEMMA OwnResults ==
  ASSUME NEW c, NEW b, NEW r, Durable(c, b, r)
  PROVE  /\ r.ok \in BOOLEAN /\ r.items = <<Item(c, b, r.ok)>>
         /\ r.ok => r = Succeeded("one", <<Item(c, b, TRUE)>>)
         /\ r.shape = (IF r.ok THEN "one" ELSE "error")
         /\ r.type # "AnyCombinatorError" /\ r.type # "InternalError"
         /\ Body(c, b) = "step" => StepOf(c, b) = Recorded(r)
<1>1. CASE r = Succeeded("one", <<Item(c, b, TRUE)>>)
  <2>1. Body(c, b) = "step" => StepOf(c, b) = Recorded(r)
    BY DEF Durable
  <2> QED
    BY <1>1, <2>1 DEF Succeeded
<1>2. CASE r = Failed("UserCodeError", <<Item(c, b, FALSE)>>)
  <2>1. Body(c, b) = "step" => StepOf(c, b) = Recorded(r)
    BY DEF Durable
  <2> QED
    BY <1>2, <2>1 DEF Failed
<1> QED
  BY <1>1, <1>2 DEF Durable, OwnResult

\* A decision stays durable as long as nothing recorded of a branch changes and no branch
\* succeeds after `any` has failed.
LEMMA DecidedKept ==
  ASSUME UNCHANGED handler, NEW c \in Combinator, DecidedWell(c),
         \/ log'[ContextId(c)] = log[ContextId(c)]
         \/ log'[ContextId(c)].status \notin Terminal,
         \A b \in Branch(c) : StepOf(c, b).status \in Terminal => log'[<<c, b>>] = log[<<c, b>>],
         Kind(c) = "any" /\ log[ContextId(c)].status = "FAILED" =>
           \A b \in Branch(c) : log'[<<c, b>>] = log[<<c, b>>]
  PROVE  DecidedWell(c)'
<1>1. /\ Kind(c)' = Kind(c) /\ Branch(c)' = Branch(c) /\ Steps(c)' = Steps(c)
      /\ Steps(c) \subseteq Branch(c)
  BY DEF Kind, Branch, Steps, Body
<1>2. \A b : StepOf(c, b) = log[<<c, b>>] /\ StepOf(c, b)' = log'[<<c, b>>]
  BY DEF StepOf
<1>3. \A r : Recorded(r).status \in Terminal
  BY DEF Recorded, Terminal
<1>4. CASE log'[ContextId(c)].status \notin Terminal
  BY <1>4 DEF DecidedWell, Terminal
<1>5. CASE log'[ContextId(c)] = log[ContextId(c)] /\ log[ContextId(c)].status \in Terminal
  <2> DEFINE op == log[ContextId(c)]
  <2>1. ASSUME NEW leaf \in Leaves(op.result), NEW i \in DOMAIN leaf.items,
               leaf.items[i].b \in Steps(c)
        PROVE  log'[<<c, leaf.items[i].b>>] = Recorded(leaf)
    <3>1. StepOf(c, leaf.items[i].b) = Recorded(leaf)
      BY <1>5, <2>1 DEF DecidedWell
    <3> QED
      BY <1>1, <1>2, <1>3, <2>1, <3>1
  <2>2. \A b \in Steps(c) : StepOf(c, b).status = "SUCCEEDED" => log'[<<c, b>>].status = "SUCCEEDED"
    BY <1>1, <1>2 DEF Terminal
  <2>3. Kind(c) = "any" /\ op.status = "FAILED" =>
          \A b \in Steps(c) : log'[<<c, b>>].status # "SUCCEEDED"
    BY <1>1, <1>2, <1>5 DEF DecidedWell
  <2> HIDE DEF op
  <2>4. log'[ContextId(c)] = op /\ log[ContextId(c)] = op
    BY <1>5 DEF op
  <2>5. \A leaf \in Leaves(op.result) : \A i \in DOMAIN leaf.items :
          leaf.items[i].b \in Steps(c) => log'[<<c, leaf.items[i].b>>] = Recorded(leaf)
    BY <2>1
  <2>6. Kind(c) = "all" /\ op.status = "SUCCEEDED" =>
          /\ \A b \in Steps(c) : log'[<<c, b>>].status = "SUCCEEDED"
          /\ op.result.items = [b \in Branch(c) |-> Succeeded("one", <<Item(c, b, TRUE)>>)]
    BY <1>5, <2>2, <2>4 DEF DecidedWell
  <2>7. Kind(c) = "all" /\ op.status = "FAILED" /\ op.result.items # <<>> =>
          \A b \in Steps(c) :
            b < op.result.items[1].b => log'[<<c, b>>].status = "SUCCEEDED"
    BY <2>2, <2>4 DEF DecidedWell
  <2> DEFINE items == [b \in Branch(c) |-> Succeeded("one", <<Item(c, b, TRUE)>>)]
  <2>8. items' = items
    BY <1>1
  <2> HIDE DEF items
  <2> QED
    BY <1>1, <2>3, <2>4, <2>5, <2>6, <2>7, <2>8, Zenon DEF DecidedWell, StepOf, items
<1> QED
  BY <1>4, <1>5



\* The steps of the branches named in a result of a branch have recorded it.
LeafIsDurable(c, leaf) ==
  \A i \in DOMAIN leaf.items :
    leaf.items[i].b \in Steps(c) => StepOf(c, leaf.items[i].b) = Recorded(leaf)

LEMMA LeavesAreDurable ==
  ASSUME NEW c
  PROVE  /\ \A b, r : Durable(c, b, r) =>
              /\ LeafIsDurable(c, r)
              /\ r.shape \notin {"list", "batch"} /\ r.type # "AnyCombinatorError"
         /\ \A t : LeafIsDurable(c, Failed(t, <<>>))
<1>1. ASSUME NEW b, NEW r, Durable(c, b, r)
      PROVE  /\ LeafIsDurable(c, r)
             /\ r.shape \notin {"list", "batch"} /\ r.type # "AnyCombinatorError"
  <2>1. /\ r.items = <<Item(c, b, r.ok)>>
        /\ r.shape = (IF r.ok THEN "one" ELSE "error") /\ r.type # "AnyCombinatorError"
        /\ Body(c, b) = "step" => StepOf(c, b) = Recorded(r)
    BY <1>1, OwnResults
  <2>2. \A i \in DOMAIN r.items : r.items[i].b = b
    BY <2>1 DEF Item
  <2>3. LeafIsDurable(c, r)
    BY <2>1, <2>2 DEF LeafIsDurable, Steps
  <2>4. r.shape \in {"one", "error"}
    BY <2>1
  <2> QED
    BY <2>1, <2>3, <2>4
<1>2. \A t : LeafIsDurable(c, Failed(t, <<>>))
  BY DEF LeafIsDurable, Failed
<1> QED
  BY <1>1, <1>2

LEMMA DecisionIsWell ==
  ASSUME ReplayInv, OwnIds, TaskInv, ChannelInv, pc = "wait", MayDecide(Current),
         Current \in Combinator
  PROVE  LET c == Current
             result == Decision(c)
         IN  /\ \A leaf \in Leaves(result) : LeafIsDurable(c, leaf)
             /\ Kind(c) = "all" /\ result.ok =>
                  /\ \A b \in Steps(c) : StepOf(c, b).status = "SUCCEEDED"
                  /\ result.items = [b \in Branch(c) |-> Succeeded("one", <<Item(c, b, TRUE)>>)]
             /\ Kind(c) = "all" /\ ~result.ok /\ result.items # <<>> =>
                  \A b \in Steps(c) :
                    b < result.items[1].b => StepOf(c, b).status = "SUCCEEDED"
             /\ Kind(c) = "any" /\ ~result.ok =>
                  /\ \A b \in Branch(c) : branch[<<c, b>>].pc = "gone"
                  /\ \A b \in Steps(c) : StepOf(c, b).status # "SUCCEEDED"
<1> DEFINE c == Current
           result == Decision(c)
<1>1. HandlerIds /\ TypeInv /\ c \in Combinator
  BY HandlerHasIds DEF ReplayInv, TypeInv
<1>2. \A i \in DOMAIN settled : /\ settled[i].b \in Branch(c)
                                /\ Durable(c, settled[i].b, settled[i].result)
  BY DEF ChannelInv
<1>3. \A b : Settled(b) # {} => Durable(c, b, ResultOf(b))
  BY <1>1, <1>2, Received
<1>4. Steps(c) \subseteq Branch(c) /\ Branch(c) \subseteq Nat
  BY <1>1 DEF Steps, HandlerIds
\* A branch whose result has been received and is a success has recorded one.
<1>5. ASSUME NEW b \in Steps(c), Settled(b) # {}, ResultOf(b).ok
      PROVE  StepOf(c, b).status = "SUCCEEDED"
  <2>1. StepOf(c, b) = Recorded(ResultOf(b))
    BY <1>3, <1>5, OwnResults DEF Steps
  <2> QED
    BY <1>5, <2>1 DEF Recorded
<1> HIDE DEF c, result
<1>6. CASE Kind(c) = "all"
  <2>1. result = AllResult(c)
    BY <1>6 DEF Decision, result
  <2>2. CASE Unsuccessful(c) = {}
    <3>1. \A b \in Branch(c) : Settled(b) # {} /\ ResultOf(b).ok
      BY <2>2 DEF Unsuccessful
    <3>2. result.ok /\ result.shape = "list" /\ result.items = [b \in Branch(c) |-> ResultOf(b)]
      BY <2>1, <2>2 DEF AllResult, Succeeded
    <3>3. \A b \in Branch(c) : ResultOf(b) = Succeeded("one", <<Item(c, b, TRUE)>>)
      BY <1>3, <3>1, OwnResults
    <3>4. ASSUME NEW leaf \in Leaves(result)
          PROVE  LeafIsDurable(c, leaf)
      <4>1. PICK b \in Branch(c) : leaf = ResultOf(b)
        BY <3>2 DEF Leaves, ToSet
      <4> QED
        BY <1>3, <3>1, <4>1, LeavesAreDurable
    <3>5. \A b \in Steps(c) : StepOf(c, b).status = "SUCCEEDED"
      BY <1>4, <1>5, <3>1
    <3> QED
      BY <1>6, <3>2, <3>3, <3>4, <3>5 DEF c, result
  <2>3. CASE Unsuccessful(c) # {} /\ Settled(Min(Unsuccessful(c))) = {}
    <3>1. result = Failed("InternalError", <<>>)
      BY <2>1, <2>3 DEF AllResult
    <3>2. ~result.ok /\ result.items = <<>> /\ Leaves(result) = {result}
      BY <3>1 DEF Failed, Leaves
    <3>3. LeafIsDurable(c, result)
      BY <3>1, LeavesAreDurable
    <3> QED
      BY <1>6, <3>2, <3>3 DEF c, result
  <2>4. CASE Unsuccessful(c) # {} /\ Settled(Min(Unsuccessful(c))) # {}
    <3> DEFINE least == Min(Unsuccessful(c))
    <3>1. result = ResultOf(least) /\ Settled(least) # {}
      BY <2>1, <2>4 DEF AllResult
    <3>2. /\ least \in Branch(c) /\ ~result.ok
          /\ \A b \in Branch(c) : b < least => Settled(b) # {} /\ ResultOf(b).ok
      BY <1>1, <2>4, <3>1, Blamed
    <3> HIDE DEF least
    <3>3. Durable(c, least, result)
      BY <1>3, <3>1
    <3>4. result.items = <<Item(c, least, result.ok)>> /\ result.items[1].b = least
      <4>1. result.items = <<Item(c, least, result.ok)>>
        BY <3>3, OwnResults
      <4>2. Item(c, least, result.ok).b = least
        BY DEF Item
      <4> QED
        BY <4>1, <4>2
    <3>5. Leaves(result) = {result} /\ LeafIsDurable(c, result)
      BY <3>3, LeavesAreDurable DEF Leaves
    <3>6. \A b \in Steps(c) : b < least => StepOf(c, b).status = "SUCCEEDED"
      BY <1>4, <1>5, <3>2
    <3> QED
      BY <1>6, <3>2, <3>4, <3>5, <3>6 DEF c, result
  <2> QED
    BY <2>2, <2>3, <2>4
<1>7. CASE Kind(c) = "all_settled"
  <2>1. result = AllSettledResult(c)
    BY <1>7 DEF Decision, result
  <2>2. /\ result.shape = "batch"
        /\ result.items =
             [b \in Branch(c) |-> IF Settled(b) = {} THEN Absent.result ELSE ResultOf(b)]
    BY <2>1 DEF AllSettledResult, Succeeded
  <2>3. ASSUME NEW leaf \in Leaves(result)
        PROVE  LeafIsDurable(c, leaf)
    <3>1. PICK b \in Branch(c) : leaf = IF Settled(b) = {} THEN Absent.result ELSE ResultOf(b)
      BY <2>2 DEF Leaves, ToSet
    <3>2. Absent.result = Failed("none", <<>>)
      BY DEF Absent
    <3> QED
      BY <1>3, <3>1, <3>2, LeavesAreDurable
  <2> QED
    BY <1>7, <2>3 DEF c, result
<1>8. CASE Kind(c) = "race"
  <2>1. result = RaceResult(c)
    BY <1>8 DEF Decision, result
  <2>2. CASE Branch(c) = {} \/ settled = <<>>
    <3>1. PICK t \in {"ValidationError", "InternalError"} : result = Failed(t, <<>>)
      BY <2>1, <2>2 DEF RaceResult
    <3>2. Leaves(result) = {result}
      BY <3>1 DEF Failed, Leaves
    <3> QED
      BY <1>8, <3>1, <3>2, LeavesAreDurable DEF c, result
  <2>3. CASE Branch(c) # {} /\ settled # <<>>
    <3>1. 1 \in DOMAIN settled
      BY <1>1, <2>3 DEF TypeInv
    <3>2. result = settled[1].result
      BY <2>1, <2>3 DEF RaceResult
    <3>3. Durable(c, settled[1].b, result)
      BY <1>2, <3>1, <3>2
    <3>4. Leaves(result) = {result} /\ LeafIsDurable(c, result)
      BY <3>3, LeavesAreDurable DEF Leaves
    <3> QED
      BY <1>8, <3>4 DEF c, result
  <2> QED
    BY <2>2, <2>3
<1>9. CASE Kind(c) = "any"
  <2>1. result = AnyResult(c)
    BY <1>9 DEF Decision, result
  <2>2. CASE Branch(c) = {}
    <3>1. result = Failed("ValidationError", <<>>)
      BY <2>1, <2>2 DEF AnyResult
    <3>2. Leaves(result) = {result}
      BY <3>1 DEF Failed, Leaves
    <3> QED
      BY <1>4, <1>9, <2>2, <3>1, <3>2, LeavesAreDurable DEF c, result
  <2>3. CASE Branch(c) # {} /\ Successes # {}
    <3>1. Min(Successes) \in DOMAIN settled /\ settled[Min(Successes)].result.ok
      BY <1>1, <2>3, FirstSuccess
    <3>2. result = settled[Min(Successes)].result
      BY <2>1, <2>3 DEF AnyResult
    <3>3. Durable(c, settled[Min(Successes)].b, result)
      BY <1>2, <3>1, <3>2
    <3>4. Leaves(result) = {result} /\ LeafIsDurable(c, result)
      BY <3>3, LeavesAreDurable DEF Leaves
    <3> QED
      BY <1>9, <3>1, <3>2, <3>4 DEF c, result
  <2>4. CASE Branch(c) # {} /\ Successes = {}
    <3>1. result = Failed("AnyCombinatorError", [i \in DOMAIN settled |-> settled[i].result])
      BY <2>1, <2>4 DEF AnyResult
    <3>2. /\ ~result.ok /\ result.type = "AnyCombinatorError"
          /\ result.items = [i \in DOMAIN settled |-> settled[i].result]
      BY <3>1 DEF Failed
    <3>3. ASSUME NEW leaf \in Leaves(result)
          PROVE  LeafIsDurable(c, leaf)
      <4>1. PICK i \in DOMAIN settled : leaf = settled[i].result
        BY <3>2 DEF Leaves, ToSet
      <4> QED
        BY <1>2, <4>1, LeavesAreDurable
    <3>4. \A b \in Branch(c) : branch[<<c, b>>].pc = "gone"
      BY <1>9, <2>4 DEF MayDecide, Closed, c
    <3>5. ASSUME NEW b \in Steps(c), StepOf(c, b).status = "SUCCEEDED"
          PROVE  FALSE
      <4>1. Settled(b) # {}
        BY <1>1, <1>4, <3>4, <3>5 DEF TaskInv, Terminal, c
      <4>2. PICK i \in DOMAIN settled : settled[i].b = b /\ ResultOf(b) = settled[i].result
        BY <1>1, <4>1, Received
      <4>3. ResultOf(b).ok \in BOOLEAN /\ StepOf(c, b) = Recorded(ResultOf(b))
        BY <1>3, <4>1, OwnResults DEF Steps
      <4>4. ResultOf(b).ok
        BY <3>5, <4>3 DEF Recorded
      <4> QED
        BY <2>4, <4>2, <4>4 DEF Successes
    <3> QED
      BY <1>9, <3>2, <3>3, <3>4, <3>5 DEF c, result
  <2> QED
    BY <2>2, <2>3, <2>4
<1> QED
  BY <1>1, <1>6, <1>7, <1>8, <1>9 DEF HandlerIds



\* What is known of a branch stays known while what its step has recorded is kept.
LEMMA DurableStays ==
  ASSUME UNCHANGED handler, NEW c, NEW b, NEW r, Durable(c, b, r),
         StepOf(c, b).status \in Terminal => log'[<<c, b>>] = log[<<c, b>>]
  PROVE  Durable(c, b, r)'
<1>1. Body(c, b)' = Body(c, b) /\ StepOf(c, b) = log[<<c, b>>] /\ StepOf(c, b)' = log'[<<c, b>>]
  BY DEF Body, StepOf
<1>2. Body(c, b) = "step" => log'[<<c, b>>] = Recorded(r)
  BY <1>1 DEF Durable, Recorded, Terminal
<1> QED
  BY <1>1, <1>2 DEF Durable, OwnResult

LEMMA DurableInit == Init => DurableInv
<1> SUFFICES ASSUME Init
             PROVE  DurableInv
  OBVIOUS
<1>1. HandlerIds
  BY HandlerHasIds DEF Init
<1>2. \A c \in Combinator : /\ log[ContextId(c)] = Absent
                            /\ \A b \in Branch(c) : /\ StepOf(c, b) = Absent
                                                    /\ branch[<<c, b>>] = Unspawned
  BY <1>1 DEF HandlerIds, Init, StepOf
<1>3. TaskInv
  <2>1. Absent.status \notin Terminal /\ Unspawned.pc = "none"
    BY DEF Absent, Unspawned, Terminal
  <2> QED
    BY <1>2, <2>1, Zenon DEF TaskInv
<1>4. ChannelInv /\ FailedInv
  BY <1>2 DEF ChannelInv, FailedInv, Init, Absent
<1>5. \A c \in Combinator : DecidedWell(c)
  BY <1>2 DEF DecidedWell, Absent, Terminal
<1> QED
  BY <1>3, <1>4, <1>5 DEF DurableInv

LEMMA DurableDecide ==
  ASSUME ReplayInv, OwnIds, TaskInv, ChannelInv, Decide, Current \in Combinator,
         \A b \in Branch(Current) : log'[<<Current, b>>] = log[<<Current, b>>]
  PROVE  \A c \in Combinator : c = Current =>
           /\ Kind(c) = "any" /\ log'[ContextId(c)].status = "FAILED" =>
                \A b \in Branch(c) : branch'[<<c, b>>].pc \in {"none", "gone"}
           /\ DecidedWell(c)'
<1> SUFFICES ASSUME NEW c \in Combinator, c = Current
             PROVE  /\ Kind(c) = "any" /\ log'[ContextId(c)].status = "FAILED" =>
                         \A b \in Branch(c) : branch'[<<c, b>>].pc \in {"none", "gone"}
                    /\ DecidedWell(c)'
  OBVIOUS
<1>1. HandlerIds /\ log \in [Id -> Operation]
  BY HandlerHasIds DEF ReplayInv, TypeInv
<1>2. pc = "wait" /\ MayDecide(Current) /\ handler' = handler /\ branch' = branch
  BY DEF Decide
<1> DEFINE result == Decision(c)
<1>3. id = ContextId(c) /\ id \in Id
  BY <1>1, <1>2 DEF ReplayInv, ProgressInv, HandlerIds
<1>4. log'[ContextId(c)] = Recorded(result)
  BY <1>1, <1>3 DEF Decide
<1>5. result.ok \in BOOLEAN
  BY <1>1, DecisionType DEF ReplayInv, Result
<1>6. /\ \A leaf \in Leaves(result) : LeafIsDurable(c, leaf)
      /\ Kind(c) = "all" /\ result.ok =>
           /\ \A b \in Steps(c) : StepOf(c, b).status = "SUCCEEDED"
           /\ result.items = [b \in Branch(c) |-> Succeeded("one", <<Item(c, b, TRUE)>>)]
      /\ Kind(c) = "all" /\ ~result.ok /\ result.items # <<>> =>
           \A b \in Steps(c) :
             b < result.items[1].b => StepOf(c, b).status = "SUCCEEDED"
      /\ Kind(c) = "any" /\ ~result.ok =>
           /\ \A b \in Branch(c) : branch[<<c, b>>].pc = "gone"
           /\ \A b \in Steps(c) : StepOf(c, b).status # "SUCCEEDED"
  BY <1>2, DecisionIsWell
<1> HIDE DEF result
<1> DEFINE op == Recorded(result)
<1>8. /\ op.status = (IF result.ok THEN "SUCCEEDED" ELSE "FAILED") /\ op.result = result
  BY DEF Recorded
<1>9. /\ Kind(c)' = Kind(c) /\ Branch(c)' = Branch(c) /\ Steps(c)' = Steps(c)
      /\ Steps(c) \subseteq Branch(c)
  BY <1>2 DEF Kind, Branch, Steps, Body
<1> HIDE DEF op
<1>10. \A b \in Steps(c) : StepOf(c, b) = log[<<c, b>>] /\ log'[<<c, b>>] = log[<<c, b>>]
  BY <1>9 DEF StepOf
<1>11. DecidedWell(c)'
  <2>1. \A leaf \in Leaves(op.result) : \A i \in DOMAIN leaf.items :
          leaf.items[i].b \in Steps(c) => log'[<<c, leaf.items[i].b>>] = Recorded(leaf)
    BY <1>6, <1>8, <1>10 DEF LeafIsDurable
  <2>2. Kind(c) = "all" /\ op.status = "SUCCEEDED" =>
          /\ \A b \in Steps(c) : log'[<<c, b>>].status = "SUCCEEDED"
          /\ op.result.items = [b \in Branch(c) |-> Succeeded("one", <<Item(c, b, TRUE)>>)]
    BY <1>5, <1>6, <1>8, <1>10
  <2>3. Kind(c) = "all" /\ op.status = "FAILED" /\ op.result.items # <<>> =>
          \A b \in Steps(c) :
            b < op.result.items[1].b => log'[<<c, b>>].status = "SUCCEEDED"
    BY <1>5, <1>6, <1>8, <1>10
  <2>4. Kind(c) = "any" /\ op.status = "FAILED" =>
          \A b \in Steps(c) : log'[<<c, b>>].status # "SUCCEEDED"
    BY <1>5, <1>6, <1>8, <1>10
  <2> DEFINE items == [b \in Branch(c) |-> Succeeded("one", <<Item(c, b, TRUE)>>)]
  <2>5. items' = items
    BY <1>9
  <2>6. log'[ContextId(c)] = op
    BY <1>4 DEF op
  <2> HIDE DEF items
  <2> QED
    BY <1>9, <2>1, <2>2, <2>3, <2>4, <2>5, <2>6, ZenonT(60) DEF DecidedWell, StepOf, items
<1>12. log'[ContextId(c)].status = "FAILED" => ~result.ok
  BY <1>4 DEF Recorded
<1> QED
  BY <1>2, <1>6, <1>11, <1>12

\* The steps of the handler, and a crash: none of them touches what branches have recorded.
LEMMA DurableHandler ==
  ASSUME ReplayInv, DurableInv, HandlerStep \/ Crash
  PROVE  DurableInv'
<1>1. HandlerIds
  BY HandlerHasIds DEF ReplayInv, TypeInv
<1>2. handler' = handler
  BY DEF HandlerStep, Call, Replay, Start, Decide, End, Crash
<1>3. /\ OwnIds' = OwnIds /\ Combinator' = Combinator
      /\ \A c : Branch(c)' = Branch(c) /\ Kind(c)' = Kind(c)
      /\ \A c, b : Body(c, b)' = Body(c, b)
  BY <1>2 DEF OwnIds, Combinator, Branch, Kind, Body
<1> SUFFICES ASSUME OwnIds
             PROVE  (TaskInv /\ ChannelInv /\ FailedInv /\ \A c \in Combinator : DecidedWell(c))'
  BY <1>3 DEF DurableInv
<1>4. TaskInv /\ ChannelInv /\ FailedInv /\ \A c \in Combinator : DecidedWell(c)
  BY DEF DurableInv
<1>5. pc # "call" => Current \in Combinator /\ id = ContextId(Current) /\ id \in Id
  <2>1. Len(returned) \in Nat /\ Len(handler.calls) \in Nat
    BY <1>1 DEF ReplayInv, TypeInv, HandlerIds
  <2>2. pc # "call" => Len(returned) < Len(handler.calls) /\ id = ContextId(Current)
    BY DEF ReplayInv, ProgressInv
  <2>3. pc # "call" => Current \in Combinator
    BY <1>1, <2>1, <2>2 DEF Current, HandlerIds
  <2> QED
    BY <1>1, <2>2, <2>3 DEF HandlerIds
<1>6. log \in [Id -> Operation] /\ branch \in [AllBranches -> Task]
  BY DEF ReplayInv, TypeInv
<1>7. \A c \in Combinator : /\ ContextId(c) \in Id
                            /\ \A b \in Branch(c) : <<c, b>> \in AllBranches /\ <<c, b>> \in Id
  BY <1>1 DEF HandlerIds
<1>8. \A c \in Combinator : \A b \in Branch(c) : log'[<<c, b>>] = log[<<c, b>>]
  <2>1. \A c \in Combinator : \A b \in Branch(c) : pc # "call" => <<c, b>> # id
    BY <1>1, <1>5 DEF HandlerIds
  <2> QED
    BY <1>6, <1>7, <2>1 DEF HandlerStep, Call, Replay, Start, Decide, End, Crash
<1>9. \A c \in Combinator : \A b \in Branch(c) : StepOf(c, b)' = StepOf(c, b)
  BY <1>8 DEF StepOf
<1>10. \A c \in Combinator : \A b \in Branch(c) :
         /\ \/ branch'[<<c, b>>] = branch[<<c, b>>]
            \/ branch'[<<c, b>>].pc \in {"none", "spawned"}
         /\ pc' = "wait" /\ c = Current' => branch'[<<c, b>>].pc = "spawned" \/ pc = "wait"
         /\ pc' = "wait" /\ pc = "wait" => Current' = Current /\ settled' = settled
  <2>1. CASE Start
    <3>1. Current' = Current
      BY <2>1 DEF Start, Current
    <3> QED
      BY <1>7, <2>1, <3>1 DEF Start, Unspawned
  <2>2. CASE Crash
    BY <1>7, <2>2 DEF Crash, Unspawned
  <2>3. CASE Call \/ Replay \/ Decide \/ End
    BY <2>3 DEF Call, Replay, Decide, End, Return
  <2> QED
    BY <2>1, <2>2, <2>3 DEF HandlerStep
<1>11. TaskInv'
  <2> SUFFICES ASSUME NEW c \in Combinator, NEW b \in Branch(c)
               PROVE  /\ StepOf(c, b)'.status \in Terminal =>
                           Body(c, b) = "step" /\ Durable(c, b, StepOf(c, b).result)'
                      /\ branch'[<<c, b>>].pc = "done" => Durable(c, b, branch[<<c, b>>].result)'
                      /\ branch'[<<c, b>>].pc = "running" => StepOf(c, b)'.status \notin Terminal
                      /\ pc' = "wait" /\ c = Current' /\ branch'[<<c, b>>].pc = "gone"
                           /\ StepOf(c, b)'.status \in Terminal => Settled(b)' # {}
    BY <1>3 DEF TaskInv
  <2>1. StepOf(c, b)' = StepOf(c, b) /\ log'[<<c, b>>] = log[<<c, b>>]
    BY <1>8, <1>9
  <2>2. StepOf(c, b).status \in Terminal =>
          Body(c, b) = "step" /\ Durable(c, b, StepOf(c, b).result)'
    <3>1. StepOf(c, b).status \in Terminal =>
            Body(c, b) = "step" /\ Durable(c, b, StepOf(c, b).result)
      BY <1>4 DEF TaskInv
    <3> DEFINE r == StepOf(c, b).result
    <3>2. r' = r
      BY <2>1
    <3>3. \A s : Durable(c, b, s) => Durable(c, b, s)'
      BY <1>2, <2>1, DurableStays
    <3> QED
      BY <3>1, <3>2, <3>3 DEF Durable, OwnResult
  <2>3. branch'[<<c, b>>].pc = "done" => Durable(c, b, branch[<<c, b>>].result)'
    <3>1. branch'[<<c, b>>].pc = "done" => branch'[<<c, b>>] = branch[<<c, b>>]
      BY <1>10
    <3>2. branch[<<c, b>>].pc = "done" => Durable(c, b, branch[<<c, b>>].result)
      BY <1>4 DEF TaskInv
    <3>3. \A s : Durable(c, b, s) => Durable(c, b, s)'
      BY <1>2, <2>1, DurableStays
    <3> QED
      BY <3>1, <3>2, <3>3 DEF Durable, OwnResult
  <2>4. branch'[<<c, b>>].pc = "running" => StepOf(c, b).status \notin Terminal
    BY <1>4, <1>10 DEF TaskInv
  <2>5. pc' = "wait" /\ c = Current' /\ branch'[<<c, b>>].pc = "gone"
          /\ StepOf(c, b).status \in Terminal => Settled(b)' # {}
    BY <1>4, <1>10 DEF TaskInv, Settled
  <2> QED
    BY <2>1, <2>2, <2>3, <2>4, <2>5
<1>12. ChannelInv'
  <2>1. CASE pc' = "wait" /\ pc = "wait"
    BY <1>5, <2>1 DEF HandlerStep, Call, Replay, Start, Decide, End, Crash, Return
  <2>2. CASE pc' = "wait" /\ pc # "wait"
    <3>1. settled' = <<>>
      BY <2>2 DEF HandlerStep, Call, Replay, Start, Decide, End, Crash, Return
    <3> QED
      BY <3>1 DEF ChannelInv
  <2>3. CASE pc' # "wait"
    BY <2>3 DEF ChannelInv
  <2> QED
    BY <2>1, <2>2, <2>3
<1>13. FailedInv' /\ \A c \in Combinator : DecidedWell(c)'
  <2> SUFFICES ASSUME NEW c \in Combinator
               PROVE  /\ Kind(c) = "any" /\ log'[ContextId(c)].status = "FAILED" =>
                           \A b \in Branch(c) : branch'[<<c, b>>].pc \in {"none", "gone"}
                      /\ DecidedWell(c)'
    BY <1>3 DEF FailedInv
  <2>1. ASSUME log'[ContextId(c)] = log[ContextId(c)],
               \A b \in Branch(c) : \/ branch'[<<c, b>>] = branch[<<c, b>>]
                                    \/ branch'[<<c, b>>].pc = "none"
        PROVE  /\ Kind(c) = "any" /\ log'[ContextId(c)].status = "FAILED" =>
                    \A b \in Branch(c) : branch'[<<c, b>>].pc \in {"none", "gone"}
               /\ DecidedWell(c)'
    <3>1. DecidedWell(c)'
      BY <1>2, <1>4, <1>8, <2>1, DecidedKept
    <3> QED
      BY <1>4, <2>1, <3>1 DEF FailedInv
  <2>2. CASE Call \/ Replay \/ End \/ Crash
    <3>1. log' = log
      BY <2>2 DEF Call, Replay, End, Crash
    <3>2. \A b \in Branch(c) : \/ branch'[<<c, b>>] = branch[<<c, b>>]
                               \/ branch'[<<c, b>>].pc = "none"
      BY <1>7, <2>2 DEF Call, Replay, End, Crash, Unspawned
    <3> QED
      BY <2>1, <3>1, <3>2
  <2>3. CASE Start
    <3>1. CASE c = Current
      <4>1. log'[ContextId(c)].status = "STARTED"
        BY <1>5, <1>6, <1>7, <2>3, <3>1 DEF Start
      <4>2. DecidedWell(c)'
        BY <1>2, <1>4, <1>8, <4>1, DecidedKept DEF Terminal
      <4> QED
        BY <4>1, <4>2
    <3>2. CASE c # Current
      <4>1. log'[ContextId(c)] = log[ContextId(c)]
        BY <1>1, <1>5, <1>6, <1>7, <2>3, <3>2 DEF Start, HandlerIds
      <4>2. \A b \in Branch(c) : branch'[<<c, b>>] = branch[<<c, b>>]
        BY <1>7, <2>3, <3>2 DEF Start
      <4> QED
        BY <2>1, <4>1, <4>2
    <3> QED
      BY <3>1, <3>2
  <2>4. CASE Decide
    <3>1. branch' = branch
      BY <2>4 DEF Decide
    <3>2. CASE c # Current
      <4>1. log'[ContextId(c)] = log[ContextId(c)]
        BY <1>1, <1>5, <1>6, <1>7, <2>4, <3>2 DEF Decide, HandlerIds
      <4> QED
        BY <2>1, <3>1, <4>1
    <3>3. CASE c = Current
      BY <1>3, <1>4, <1>5, <1>6, <1>7, <1>8, <2>4, <3>1, <3>3, DurableDecide
    <3> QED
      BY <3>2, <3>3
  <2> QED
    BY <2>2, <2>3, <2>4 DEF HandlerStep
<1> QED
  BY <1>3, <1>11, <1>12, <1>13



\* A branch that begins either runs, and its step has not ended, or has what its step has
\* recorded.
LEMMA BeginsDurable ==
  ASSUME ReplayInv, OwnIds, TaskInv, NEW c \in Combinator, NEW b \in Branch(c),
         <<c, b>> \in AllBranches, BeginBranch(c, b)
  PROVE  \/ branch'[<<c, b>>].pc = "running" /\ StepOf(c, b).status \notin Terminal
         \/ branch'[<<c, b>>].pc = "done" /\ Durable(c, b, branch'[<<c, b>>].result)
<1>1. branch \in [AllBranches -> Task] /\ Body(c, b) \in {"step", "plain"}
  BY BodyType DEF ReplayInv, TypeInv
<1> DEFINE mine == <<c, b>>
<1>2. CASE Body(c, b) = "plain"
  <2>1. branch'[mine].pc = "running"
    BY <1>1, <1>2 DEF BeginBranch, Task
  <2>2. StepOf(c, b).status \notin Terminal
    BY <1>2 DEF TaskInv
  <2> QED
    BY <2>1, <2>2
<1>3. CASE Body(c, b) = "step"
  <2> DEFINE ended == [pc |-> "done", id |-> mine, result |-> Replayed(log[mine], "one")]
             begun == [pc |-> "running", id |-> mine, result |-> branch[mine].result]
             t == IF log[mine].status \in Terminal THEN ended ELSE begun
  <2>1. branch' = [branch EXCEPT ![mine] = t]
    BY <1>3, Zenon DEF BeginBranch
  <2>2. branch'[mine] = t
    BY <1>1, <2>1
  <2>3. CASE log[mine].status \notin Terminal
    BY <2>2, <2>3 DEF StepOf
  <2>4. CASE log[mine].status \in Terminal
    <3>1. branch'[mine].pc = "done" /\ branch'[mine].result = Replayed(log[mine], "one")
      BY <2>2, <2>4
    <3>2. Durable(c, b, log[mine].result)
      BY <2>4 DEF TaskInv, StepOf
    <3>a. StepOf(c, b) = log[mine]
      BY DEF StepOf
    <3>b. \A r : Durable(c, b, r) => /\ r.ok => r.shape = "one"
                                     /\ Body(c, b) = "step" => StepOf(c, b) = Recorded(r)
      BY OwnResults
    <3>3. /\ log[mine] = Recorded(log[mine].result)
          /\ log[mine].result.ok => log[mine].result.shape = "one"
      BY <1>3, <3>2, <3>a, <3>b
    <3>4. log[mine].status = "SUCCEEDED" => log[mine].result.ok
      BY <3>3 DEF Recorded
    <3>5. Replayed(log[mine], "one") = log[mine].result
      BY <3>3, <3>4 DEF Replayed
    <3> QED
      BY <3>1, <3>2, <3>5
  <2> QED
    BY <2>3, <2>4
<1> QED
  BY <1>1, <1>2, <1>3

\* The code of a branch ends with a result of its own, which its step records.
LEMMA EndsDurable ==
  ASSUME ReplayInv, OwnIds, TaskInv, NEW c \in Combinator, NEW b \in Branch(c),
         <<c, b>> \in AllBranches, <<c, b>> \in Id, EndBranch(c, b)
  PROVE  /\ StepOf(c, b).status \notin Terminal /\ branch[<<c, b>>].pc = "running"
         /\ branch'[<<c, b>>].pc = "done"
         /\ \E r \in OwnResult(c, b) :
              /\ branch'[<<c, b>>].result = r
              /\ IF Body(c, b) = "step" THEN log' = [log EXCEPT ![<<c, b>>] = Recorded(r)]
                 ELSE log' = log
<1> DEFINE mine == <<c, b>>
<1>1. /\ branch \in [AllBranches -> Task] /\ Body(c, b) \in {"step", "plain"}
      /\ branch[mine].pc = "running" /\ StepOf(c, b).status \notin Terminal
  BY BodyType DEF ReplayInv, TypeInv, EndBranch, TaskInv
<1>2. Body(c, b) = "step" => branch[mine].id = mine
  BY <1>1 DEF ReplayInv, BranchInv
<1>3. PICK r \in OwnResult(c, b) :
        /\ branch' = [branch EXCEPT ![mine].pc = "done", ![mine].result = r]
        /\ log' = IF Body(c, b) = "plain" THEN log
                  ELSE [log EXCEPT ![branch[mine].id] = Recorded(r)]
  <2> DEFINE r(ok) == IF ok THEN Succeeded("one", <<Item(c, b, ok)>>)
                      ELSE Failed("UserCodeError", <<Item(c, b, ok)>>)
  <2>1. PICK ok \in BOOLEAN :
          /\ branch' = [branch EXCEPT ![mine].pc = "done", ![mine].result = r(ok)]
          /\ log' = IF Body(c, b) = "plain" THEN log
                    ELSE [log EXCEPT ![branch[mine].id] = Recorded(r(ok))]
    BY Zenon DEF EndBranch
  <2>2. r(ok) \in OwnResult(c, b)
    BY <2>1 DEF OwnResult
  <2> HIDE DEF r
  <2> QED
    BY <2>1, <2>2
<1>4. branch'[mine].pc = "done" /\ branch'[mine].result = r
  BY <1>1, <1>3 DEF Task
<1> QED
  BY <1>1, <1>2, <1>3, <1>4

LEMMA DurableBranch ==
  ASSUME ReplayInv, DurableInv, NEW cb \in AllBranches, BranchStep(cb[1], cb[2])
  PROVE  DurableInv'
<1>1. HandlerIds
  BY HandlerHasIds DEF ReplayInv, TypeInv
<1>2. UNCHANGED <<handler, pc, returned>>
  BY DEF BranchStep, BeginBranch, EndBranch, Panic, Deliver
<1>3. /\ OwnIds' = OwnIds /\ Combinator' = Combinator /\ Current' = Current
      /\ \A c : Branch(c)' = Branch(c) /\ Kind(c)' = Kind(c)
      /\ \A c, b : Body(c, b)' = Body(c, b)
  BY <1>2 DEF OwnIds, Combinator, Current, Branch, Kind, Body
<1> SUFFICES ASSUME OwnIds
             PROVE  (TaskInv /\ ChannelInv /\ FailedInv /\ \A c \in Combinator : DecidedWell(c))'
  BY <1>3 DEF DurableInv
<1>4. TaskInv /\ ChannelInv /\ FailedInv /\ \A c \in Combinator : DecidedWell(c)
  BY DEF DurableInv
<1>5. log \in [Id -> Operation] /\ branch \in [AllBranches -> Task] /\ cb = <<cb[1], cb[2]>>
  BY <1>1 DEF ReplayInv, TypeInv, HandlerIds
<1>6. branch[cb].pc \in {"spawned", "running", "done"}
  BY <1>5 DEF BranchStep, BeginBranch, MayBegin, EndBranch, Panic, Deliver
<1>7. cb \in BranchesOf(handler)
  BY <1>6 DEF ReplayInv, BranchInv
<1>a. PICK x \in Combinator : \E y \in Branch(x) : cb = <<x, y>>
  BY <1>1, <1>5, <1>7 DEF HandlerIds
<1>8. PICK y \in Branch(x) : cb = <<x, y>>
  BY <1>a
<1>9. cb \in Id /\ BranchStep(x, y)
  BY <1>1, <1>7, <1>8 DEF HandlerIds
<1>10. /\ EndBranch(x, y) => /\ StepOf(x, y).status \notin Terminal
                             /\ branch[<<x, y>>].pc = "running"
                             /\ branch'[<<x, y>>].pc = "done"
       /\ EndBranch(x, y) => \E r \in OwnResult(x, y) :
            /\ branch'[<<x, y>>].result = r
            /\ IF Body(x, y) = "step" THEN log' = [log EXCEPT ![<<x, y>>] = Recorded(r)]
               ELSE log' = log
       /\ ~EndBranch(x, y) => log' = log
  <2>1. CASE EndBranch(x, y)
    BY <1>4, <1>8, <1>9, <2>1, EndsDurable
  <2>2. CASE ~EndBranch(x, y)
    BY <1>9, <2>2 DEF BranchStep, BeginBranch, Panic, Deliver
  <2> QED
    BY <2>1, <2>2
\* The step of a branch records once, and nothing else is recorded.
<1>11. /\ \A c \in Combinator : log'[ContextId(c)] = log[ContextId(c)]
       /\ \A c \in Combinator : \A b \in Branch(c) :
            \/ log'[<<c, b>>] = log[<<c, b>>]
            \/ c = x /\ b = y /\ EndBranch(x, y)
       /\ \A c \in Combinator : \A b \in Branch(c) :
            StepOf(c, b).status \in Terminal => log'[<<c, b>>] = log[<<c, b>>]
  <2>1. \A i \in Id : i # cb => log'[i] = log[i]
    BY <1>5, <1>8, <1>10
  <2>2. \A c \in Combinator : log'[ContextId(c)] = log[ContextId(c)]
    BY <1>1, <1>7, <2>1 DEF HandlerIds
  <2>3. \A c \in Combinator : \A b \in Branch(c) : <<c, b>> \in Id
    BY <1>1 DEF HandlerIds
  <2>4. \A c \in Combinator : \A b \in Branch(c) :
          \/ log'[<<c, b>>] = log[<<c, b>>]
          \/ c = x /\ b = y /\ EndBranch(x, y)
    BY <1>8, <1>10, <2>1, <2>3
  <2> QED
    BY <1>10, <2>2, <2>4
<1>12. \A c \in Combinator : \A b \in Branch(c) : \A r : Durable(c, b, r) => Durable(c, b, r)'
  BY <1>2, <1>11, DurableStays
\* Every other branch is as it was.
<1>13. \A c \in Combinator : \A b \in Branch(c) :
         ~(c = x /\ b = y) => branch'[<<c, b>>] = branch[<<c, b>>]
  <2>1. \A a \in AllBranches : a # cb => branch'[a] = branch[a]
    BY <1>5 DEF BranchStep, BeginBranch, EndBranch, Panic, Deliver
  <2>2. \A c \in Combinator : \A b \in Branch(c) : <<c, b>> \in AllBranches
    BY <1>1 DEF HandlerIds
  <2> QED
    BY <1>8, <2>1, <2>2
<1>14. \/ branch'[<<x, y>>].pc = "running" /\ log'[<<x, y>>].status \notin Terminal
       \/ /\ branch'[<<x, y>>].pc = "done"
          /\ \E r : branch'[<<x, y>>].result = r /\ Durable(x, y, r)'
       \/ branch'[<<x, y>>].pc = "gone"
  <2>1. CASE BeginBranch(x, y)
    <3>1. \/ branch'[<<x, y>>].pc = "running" /\ StepOf(x, y).status \notin Terminal
          \/ branch'[<<x, y>>].pc = "done" /\ Durable(x, y, branch'[<<x, y>>].result)
      BY <1>4, <1>8, <2>1, BeginsDurable
    <3>2. log' = log
      BY <2>1 DEF BeginBranch
    <3>3. \A r : Durable(x, y, r) => Durable(x, y, r)'
      BY <1>12
    <3> QED
      BY <3>1, <3>2, <3>3 DEF StepOf
  <2>2. CASE EndBranch(x, y)
    <3>1. PICK r \in OwnResult(x, y) :
            /\ branch'[<<x, y>>].result = r
            /\ IF Body(x, y) = "step" THEN log' = [log EXCEPT ![<<x, y>>] = Recorded(r)]
               ELSE log' = log
      BY <1>10, <2>2
    <3>2. Body(x, y) = "step" => log'[<<x, y>>] = Recorded(r)
      BY <1>5, <1>8, <1>9, <3>1
    <3>3. Durable(x, y, r)'
      BY <1>3, <3>1, <3>2 DEF Durable, OwnResult, StepOf
    <3> QED
      BY <1>10, <2>2, <3>1, <3>3 DEF Durable, OwnResult
  <2>3. CASE Panic(x, y) \/ Deliver(x, y)
    BY <1>5, <1>8, <2>3 DEF Panic, Deliver, Task
  <2> QED
    BY <1>9, <2>1, <2>2, <2>3 DEF BranchStep
\* What is sent is received, in this or an earlier combinator.
<1>15. pc = "wait" =>
         \/ settled' = settled
         \/ /\ Deliver(x, y) /\ x = Current
            /\ settled' = Append(settled, [b |-> y, result |-> branch[<<x, y>>].result])
  BY <1>9 DEF BranchStep, BeginBranch, EndBranch, Panic, Deliver
<1>16. settled \in Seq([b : Nat, result : Leaf]) /\ y \in Nat /\ branch[<<x, y>>].result \in Leaf
  <2>1. settled \in Seq([b : Nat, result : Leaf]) /\ branch[cb] \in Task
    BY <1>5 DEF ReplayInv, TypeInv
  <2>2. y \in Nat
    BY <1>1, <1>8 DEF HandlerIds
  <2>3. branch[cb].result \in Leaf
    BY <2>1 DEF Task
  <2> QED
    BY <1>8, <2>1, <2>2, <2>3
<1>17. pc = "wait" =>
         /\ \A b : Settled(b) # {} => Settled(b)' # {}
         /\ Deliver(x, y) /\ x = Current => Settled(y)' # {}
         /\ \A i \in DOMAIN settled' :
              \/ i \in DOMAIN settled /\ settled'[i] = settled[i]
              \/ /\ Deliver(x, y) /\ x = Current
                 /\ settled'[i] = [b |-> y, result |-> branch[<<x, y>>].result]
  <2> SUFFICES ASSUME pc = "wait"
               PROVE  /\ \A b : Settled(b) # {} => Settled(b)' # {}
                      /\ Deliver(x, y) /\ x = Current => Settled(y)' # {}
                      /\ \A i \in DOMAIN settled' :
                           \/ i \in DOMAIN settled /\ settled'[i] = settled[i]
                           \/ /\ Deliver(x, y) /\ x = Current
                              /\ settled'[i] = [b |-> y, result |-> branch[<<x, y>>].result]
    OBVIOUS
  <2> DEFINE e == [b |-> y, result |-> branch[<<x, y>>].result]
  <2>1. CASE settled' = Append(settled, e) /\ Deliver(x, y) /\ x = Current
    <3>1. e \in [b : Nat, result : Leaf] /\ e.b = y
      BY <1>16
    <3> HIDE DEF e
    <3>2. \A S, s, f : s \in Seq(S) /\ f \in S =>
            /\ \A i \in DOMAIN s : i \in DOMAIN Append(s, f) /\ Append(s, f)[i] = s[i]
            /\ Len(s) + 1 \in DOMAIN Append(s, f) /\ Append(s, f)[Len(s) + 1] = f
            /\ \A i \in DOMAIN Append(s, f) : i \in DOMAIN s \/ i = Len(s) + 1
      OBVIOUS
    <3>3. /\ \A i \in DOMAIN settled : i \in DOMAIN settled' /\ settled'[i] = settled[i]
          /\ Len(settled) + 1 \in DOMAIN settled' /\ settled'[Len(settled) + 1] = e
          /\ \A i \in DOMAIN settled' : i \in DOMAIN settled \/ i = Len(settled) + 1
      BY <1>16, <2>1, <3>1, <3>2
    <3>4. \A i \in DOMAIN settled' :
            (i \in DOMAIN settled /\ settled'[i] = settled[i]) \/ settled'[i] = e
      BY <3>3
    <3> QED
      BY <2>1, <3>1, <3>3, <3>4 DEF Settled, e
  <2>2. CASE settled' = settled /\ ~(Deliver(x, y) /\ x = Current)
    BY <2>2 DEF Settled
  <2> QED
    BY <1>15, <2>1, <2>2 DEF Deliver
<1>18. TaskInv'
  <2> SUFFICES ASSUME NEW c \in Combinator, NEW b \in Branch(c)
               PROVE  /\ StepOf(c, b)'.status \in Terminal =>
                           /\ Body(c, b) = "step"
                           /\ \E r : StepOf(c, b)'.result = r /\ Durable(c, b, r)'
                      /\ branch'[<<c, b>>].pc = "done" =>
                           \E r : branch'[<<c, b>>].result = r /\ Durable(c, b, r)'
                      /\ branch'[<<c, b>>].pc = "running" => StepOf(c, b)'.status \notin Terminal
                      /\ pc = "wait" /\ c = Current /\ branch'[<<c, b>>].pc = "gone"
                           /\ StepOf(c, b)'.status \in Terminal => Settled(b)' # {}
    BY <1>2, <1>3, ZenonT(60) DEF TaskInv, Durable, OwnResult
  <2>1. StepOf(c, b)' = log'[<<c, b>>] /\ StepOf(c, b) = log[<<c, b>>]
    BY DEF StepOf
  <2>2. StepOf(c, b).status \in Terminal =>
          Body(c, b) = "step" /\ Durable(c, b, StepOf(c, b).result)
    BY <1>4 DEF TaskInv
  <2>3. log'[<<c, b>>].status \in Terminal =>
          /\ Body(c, b) = "step"
          /\ \E r : log'[<<c, b>>].result = r /\ Durable(c, b, r)'
    <3>1. CASE log'[<<c, b>>] = log[<<c, b>>]
      BY <1>12, <2>1, <2>2, <3>1
    <3>2. CASE log'[<<c, b>>] # log[<<c, b>>]
      <4>1. c = x /\ b = y /\ EndBranch(x, y)
        BY <1>11, <3>2
      <4>2. PICK r \in OwnResult(x, y) :
              /\ branch'[<<x, y>>].result = r
              /\ IF Body(x, y) = "step" THEN log' = [log EXCEPT ![<<x, y>>] = Recorded(r)]
                 ELSE log' = log
        BY <1>10, <4>1
      <4>3. Body(x, y) = "step" /\ log'[<<x, y>>] = Recorded(r)
        BY <1>5, <1>8, <1>9, <3>2, <4>1, <4>2
      <4>4. Durable(x, y, r)'
        BY <1>3, <4>3 DEF Durable, OwnResult, StepOf
      <4> QED
        BY <4>1, <4>3, <4>4 DEF Recorded
    <3> QED
      BY <3>1, <3>2
  <2>4. CASE ~(c = x /\ b = y)
    <3>1. branch'[<<c, b>>] = branch[<<c, b>>] /\ log'[<<c, b>>] = log[<<c, b>>]
      BY <1>11, <1>13, <2>4
    <3>2. branch[<<c, b>>].pc = "done" => Durable(c, b, branch[<<c, b>>].result)
      BY <1>4 DEF TaskInv
    <3>3. branch[<<c, b>>].pc = "running" => StepOf(c, b).status \notin Terminal
      BY <1>4 DEF TaskInv
    <3>4. pc = "wait" /\ c = Current /\ branch[<<c, b>>].pc = "gone"
            /\ StepOf(c, b).status \in Terminal => Settled(b)' # {}
      BY <1>4, <1>17 DEF TaskInv
    <3> QED
      BY <1>12, <2>1, <2>3, <3>1, <3>2, <3>3, <3>4
  <2>5. CASE c = x /\ b = y
    <3>1. pc = "wait" /\ x = Current /\ branch'[<<x, y>>].pc = "gone"
            /\ log'[<<x, y>>].status \in Terminal => Settled(y)' # {}
      <4>1. CASE Deliver(x, y)
        BY <1>17, <4>1
      <4>2. CASE Panic(x, y)
        <5>1. branch[<<x, y>>].pc = "running" /\ log' = log
          BY <4>2 DEF Panic
        <5> QED
          BY <1>4, <5>1 DEF TaskInv, StepOf
      <4>3. CASE EndBranch(x, y)
        BY <1>10, <4>3
      <4>4. CASE BeginBranch(x, y)
        <5>1. branch'[<<x, y>>].pc # "gone"
          BY <1>4, <1>8, <4>4, BeginsDurable
        <5> QED
          BY <5>1
      <4> QED
        BY <1>9, <4>1, <4>2, <4>3, <4>4 DEF BranchStep
    <3> QED
      BY <1>14, <2>1, <2>3, <2>5, <3>1
  <2> QED
    BY <2>4, <2>5
<1>19. ChannelInv'
  <2>1. pc = "wait" => Current \in Combinator
    <3>1. Len(returned) \in Nat /\ Len(handler.calls) \in Nat
      BY <1>1 DEF ReplayInv, TypeInv, HandlerIds
    <3>2. pc = "wait" => Len(returned) < Len(handler.calls)
      BY DEF ReplayInv, ProgressInv
    <3> QED
      BY <1>1, <3>1, <3>2 DEF Current, HandlerIds
  <2>2. ASSUME pc = "wait", NEW c \in Combinator, c = Current, NEW i \in DOMAIN settled'
        PROVE  \E b \in Branch(c) : \E r :
                 settled'[i].b = b /\ settled'[i].result = r /\ Durable(c, b, r)'
    <3>1. CASE i \in DOMAIN settled /\ settled'[i] = settled[i]
      <4>1. PICK b \in Branch(c) :
              \E r : settled[i].b = b /\ settled[i].result = r /\ Durable(c, b, r)
        BY <1>4, <2>2, <3>1 DEF ChannelInv
      <4>2. PICK r : settled[i].b = b /\ settled[i].result = r /\ Durable(c, b, r)
        BY <4>1
      <4> QED
        BY <1>12, <3>1, <4>2
    <3>2. CASE /\ Deliver(x, y) /\ x = Current
               /\ settled'[i] = [b |-> y, result |-> branch[<<x, y>>].result]
      <4>1. branch[<<x, y>>].pc = "done"
        BY <3>2 DEF Deliver
      <4>2. PICK r : r = branch[<<x, y>>].result /\ Durable(x, y, r)
        BY <1>4, <4>1 DEF TaskInv
      <4> QED
        BY <1>12, <2>2, <3>2, <4>2
    <3> QED
      BY <1>17, <2>2, <3>1, <3>2
  <2> QED
    BY <1>2, <1>3, <2>1, <2>2 DEF ChannelInv, Durable, OwnResult, StepOf
<1>20. FailedInv' /\ \A c \in Combinator : DecidedWell(c)'
  <2>1. ASSUME NEW c \in Combinator, Kind(c) = "any", log[ContextId(c)].status = "FAILED"
        PROVE  c # x
    BY <1>4, <1>6, <1>8, <2>1 DEF FailedInv
  <2>2. FailedInv'
    BY <1>3, <1>4, <1>11, <1>13, <2>1 DEF FailedInv
  <2>3. ASSUME NEW c \in Combinator
        PROVE  DecidedWell(c)'
    <3>1. Kind(c) = "any" /\ log[ContextId(c)].status = "FAILED" =>
            \A b \in Branch(c) : log'[<<c, b>>] = log[<<c, b>>]
      BY <1>11, <2>1
    <3> QED
      BY <1>2, <1>4, <1>11, <3>1, DecidedKept
  <2> QED
    BY <2>2, <2>3
<1> QED
  BY <1>3, <1>18, <1>19, <1>20

LEMMA DurableInvariant == Spec => []DurableInv
<1>1. Init => DurableInv
  BY DurableInit
<1>2. ASSUME ApartInv, DurableInv, [Next]_vars
      PROVE  DurableInv'
  <2>1. handler' = handler
    BY <1>2 DEF Next, HandlerStep, BranchStep, vars, Call, Replay, Start, Decide, End, Crash,
                BeginBranch, EndBranch, Panic, Deliver
  <2>2. CASE ~OwnIds
    BY <2>1, <2>2 DEF DurableInv, OwnIds
  <2>3. CASE OwnIds /\ UNCHANGED vars
    <3>1. TaskInv' = TaskInv /\ ChannelInv' = ChannelInv /\ FailedInv' = FailedInv
      BY <2>3 DEF vars, TaskInv, ChannelInv, FailedInv, Durable, OwnResult, Combinator, Branch,
                  Body, Kind, StepOf, Settled, Current
    <3>2. \A c : DecidedWell(c)' = DecidedWell(c)
      BY <2>3 DEF vars, DecidedWell, Branch, Body, Kind, Steps, StepOf
    <3>3. Combinator' = Combinator
      BY <2>1 DEF Combinator
    <3> QED
      BY <1>2, <2>3, <3>1, <3>2, <3>3 DEF DurableInv
  <2>4. CASE OwnIds /\ Next
    <3>1. ReplayInv
      BY <1>2, <2>4 DEF ApartInv, Apart
    <3> QED
      BY <1>2, <2>4, <3>1, DurableHandler, DurableBranch DEF Next
  <2> QED
    BY <1>2, <2>2, <2>3, <2>4
<1> QED
  BY <1>1, <1>2, ReplayInvariant, PTL DEF Spec

\* A combinator never records a decision that rests on a step of a branch which a crash
\* could still undo: the steps it reports have recorded what it reports; and once `any` has
\* failed no step of it can succeed any more.
THEOREM DecisionsAreDurable == Spec => []DecisionIsDurable
<1>1. DurableInv => DecisionIsDurable
  BY DecidedProperties DEF DurableInv, DecisionIsDurable
<1> QED
  BY <1>1, DurableInvariant, PTL

\* `all` gives each value at its branch's index and blames the first branch by index that
\* has failed, however late that one came.
THEOREM AllInOrder == Spec => []AllKeepsIndices
<1>1. DurableInv => AllKeepsIndices
  BY DecidedProperties DEF DurableInv, AllKeepsIndices
<1> QED
  BY <1>1, DurableInvariant, PTL

=============================================================================
