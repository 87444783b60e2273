----------------------- MODULE DurableContextsProofs -----------------------
(***************************************************************************)
(* Theorems about DurableContexts.  Every call has a place in the handler: *)
(* the bodies around it and its position in each.  The stack is at one     *)
(* place, and the ids of the operations are a function of their places, so *)
(* what is recorded under an id, and what has been observed at a place,    *)
(* can be said to agree whatever invocation is at it.                      *)
(***************************************************************************)
EXTENDS DurableContexts, FiniteSetTheorems, SequenceTheorems, WellFoundedInduction, TLAPS

(* Induction over the numbers, as sets of them.                            *)

LEMMA LeastIn ==
  ASSUME NEW R, IsWellFoundedOn(R, Nat),
         \A x, y \in Nat : y < x => <<y, x>> \in R,
         NEW T \in SUBSET Nat, T # {}
  PROVE  \E x \in T : \A y \in T : x <= y
<1>1. PICK x \in T : \A y \in T : ~ (<<y, x>> \in R)
  BY WFMin
<1>2. \A y \in T : ~ (y < x)
  BY <1>1, Zenon
<1> QED
  BY <1>2

LEMMA Least ==
  ASSUME NEW T \in SUBSET Nat, T # {}
  PROVE  \E x \in T : \A y \in T : x <= y
<1>1. \A x, y \in Nat : y < x => <<y, x>> \in OpToRel(<, Nat)
  BY DEF OpToRel
<1> QED
  BY <1>1, NatLessThanWellFounded, LeastIn

LEMMA Induct ==
  ASSUME NEW S \in SUBSET Nat, 0 \in S, \A n \in S : n + 1 \in S
  PROVE  S = Nat
<1> SUFFICES ASSUME Nat \ S # {} PROVE FALSE
  OBVIOUS
<1>1. PICK x \in Nat \ S : \A y \in Nat \ S : x <= y
  BY Least
<1>2. x # 0 /\ x - 1 \in Nat
  BY <1>1
<1>3. x - 1 \in S
  BY <1>1, <1>2
<1> QED
  BY <1>1, <1>2, <1>3

-----------------------------------------------------------------------------
(* Sequences whose elements are of no type.                                *)

IsSeq(s) == \E S : s \in Seq(S)

LEMMA SeqIs ==
  ASSUME NEW s, IsSeq(s)
  PROVE  Len(s) \in Nat /\ DOMAIN s = 1..Len(s)
BY DEF IsSeq

LEMMA EmptyIs ==
  IsSeq(<<>>) /\ Len(<<>>) = 0
BY DEF IsSeq

LEMMA SingleIs ==
  ASSUME NEW e
  PROVE  IsSeq(<<e>>) /\ Len(<<e>>) = 1 /\ <<e>>[1] = e
<1>1. <<e>> \in Seq({e})
  OBVIOUS
<1> QED
  BY <1>1 DEF IsSeq

LEMMA AppendIs ==
  ASSUME NEW s, IsSeq(s), NEW e
  PROVE  /\ IsSeq(Append(s, e))
         /\ Len(Append(s, e)) = Len(s) + 1
         /\ \A i \in 1..Len(s) : Append(s, e)[i] = s[i]
         /\ Append(s, e)[Len(s) + 1] = e
<1>1. PICK S : s \in Seq(S)
  BY DEF IsSeq
<1>2. s \in Seq(S \cup {e}) /\ e \in S \cup {e}
  BY <1>1
<1>3. Append(s, e) \in Seq(S \cup {e})
  BY <1>2
<1> QED
  BY <1>2, <1>3 DEF IsSeq

LEMMA FrontIs ==
  ASSUME NEW s, IsSeq(s), Len(s) > 0
  PROVE  /\ IsSeq(Front(s))
         /\ Len(Front(s)) = Len(s) - 1
         /\ \A i \in 1..(Len(s) - 1) : Front(s)[i] = s[i]
<1>1. PICK S : s \in Seq(S)
  BY DEF IsSeq
<1>2. Front(s) \in Seq(S) /\ Len(Front(s)) = Len(s) - 1
      /\ \A i \in 1..(Len(s) - 1) : Front(s)[i] = s[i]
  <2> DEFINE k == Len(s) - 1
  <2>1. k \in Nat /\ \A i \in 1..k : s[i] \in S
    BY <1>1
  <2> HIDE DEF k
  <2>2. /\ SubSeq(s, 1, k) \in Seq(S)
        /\ Len(SubSeq(s, 1, k)) = IF 1 <= k THEN k - 1 + 1 ELSE 0
        /\ \A i \in 1..(k - 1 + 1) : SubSeq(s, 1, k)[i] = s[1 + i - 1]
    BY <2>1, SubSeqProperties
  <2>3. \A i \in 1..k : SubSeq(s, 1, k)[i] = s[i]
    BY <2>1, <2>2
  <2>4. k = Len(s) - 1
    BY DEF k
  <2>5. Front(s) = SubSeq(s, 1, k)
    BY Zenon DEF Front, k
  <2>6. Front(s) \in Seq(S) /\ Len(Front(s)) = k /\ \A i \in 1..k : Front(s)[i] = s[i]
    BY <2>1, <2>2, <2>3, <2>5
  <2> QED
    BY <2>4, <2>6
<1> QED
  BY <1>2 DEF IsSeq

LEMMA ExceptIs ==
  ASSUME NEW s, IsSeq(s), NEW i \in 1..Len(s), NEW e
  PROVE  /\ IsSeq([s EXCEPT ![i] = e])
         /\ Len([s EXCEPT ![i] = e]) = Len(s)
         /\ \A j \in 1..Len(s) : [s EXCEPT ![i] = e][j] = IF j = i THEN e ELSE s[j]
<1>1. PICK S : s \in Seq(S)
  BY DEF IsSeq
<1>2. s \in Seq(S \cup {e}) /\ e \in S \cup {e}
  BY <1>1
<1> QED
  BY <1>2, ExceptSeq DEF IsSeq

LEMMA TableIs ==
  ASSUME NEW s, NEW n \in Nat, s = [i \in 1..n |-> s[i]]
  PROVE  IsSeq(s) /\ Len(s) = n
<1> DEFINE S == {s[i] : i \in 1..n}
<1>1. s \in [1..n -> S]
  OBVIOUS
<1>2. s \in Seq(S) /\ Len(s) = n
  <2> HIDE DEF S
  <2> QED
    BY <1>1
<1> QED
  BY <1>2 DEF IsSeq

LEMMA SameSeq ==
  ASSUME NEW s, NEW t, IsSeq(s), IsSeq(t), Len(s) = Len(t),
         \A i \in 1..Len(s) : s[i] = t[i]
  PROVE  s = t
<1>1. PICK S : s \in Seq(S)
  BY DEF IsSeq
<1>2. PICK T : t \in Seq(T)
  BY DEF IsSeq
<1>3. s \in Seq(S \cup T) /\ t \in Seq(S \cup T)
  BY <1>1, <1>2
<1> QED
  BY <1>3, SeqEqual

-----------------------------------------------------------------------------
(* The ids that a body has taken after so many calls.                      *)

Taking(body, n) == {m \in 1..n : TakesId(body[m])}

Count(body, n) == Cardinality(Taking(body, n))

LEMMA TakingIsFinite ==
  ASSUME NEW body, NEW n \in Nat
  PROVE  IsFiniteSet(Taking(body, n))
<1>1. IsFiniteSet(1..n)
  BY FS_Interval
<1> QED
  BY <1>1, FS_Subset DEF Taking

LEMMA CountIsNat ==
  ASSUME NEW body, NEW n \in Nat
  PROVE  Count(body, n) \in Nat
BY TakingIsFinite, FS_CardinalityType DEF Count

LEMMA CountNone ==
  ASSUME NEW body
  PROVE  Count(body, 0) = 0
<1>1. Taking(body, 0) = {}
  BY DEF Taking
<1> QED
  BY <1>1, FS_EmptySet DEF Count

LEMMA CountNext ==
  ASSUME NEW body, NEW n \in Nat
  PROVE  Count(body, n + 1) = Count(body, n) + IF TakesId(body[n + 1]) THEN 1 ELSE 0
<1>1. Taking(body, n + 1) = IF TakesId(body[n + 1]) THEN Taking(body, n) \cup {n + 1}
                            ELSE Taking(body, n)
  BY DEF Taking
<1>2. n + 1 \notin Taking(body, n)
  BY DEF Taking
<1> QED
  BY <1>1, <1>2, TakingIsFinite, FS_AddElement, CountIsNat DEF Count

LEMMA CountGrows ==
  ASSUME NEW body, NEW m \in Nat, NEW n \in Nat, m < n, TakesId(body[n])
  PROVE  Count(body, m) < Count(body, n)
<1>1. /\ Taking(body, m) \subseteq Taking(body, n)
      /\ n \in Taking(body, n)
      /\ n \notin Taking(body, m)
  BY DEF Taking
<1>2. Taking(body, m) # Taking(body, n)
  BY <1>1
<1> QED
  BY <1>1, <1>2, TakingIsFinite, FS_Subset, CountIsNat DEF Count

\* Two calls of a body that take an id take different ones.
LEMMA CountIsInjective ==
  ASSUME NEW body, NEW m \in Nat, NEW n \in Nat, TakesId(body[m]), TakesId(body[n]),
         Count(body, m) = Count(body, n)
  PROVE  m = n
<1>1. ~ (m < n) /\ ~ (n < m)
  BY CountGrows, CountIsNat
<1> QED
  BY <1>1

-----------------------------------------------------------------------------
(* Places.                                                                 *)

LEMMA BodyIs ==
  ASSUME NEW body \in Bodies
  PROVE  IsSeq(body) /\ Len(body) \in Nat /\ DOMAIN body = 1..Len(body)
<1>1. IsSeq(body)
  BY BodyAssumption DEF IsSeq
<1> QED
  BY <1>1, SeqIs

\* The call at position p[i] of body b[i] is the child context whose closure is b[i + 1].
Place(b, p) ==
  /\ IsSeq(b) /\ IsSeq(p) /\ Len(b) > 0 /\ Len(p) = Len(b)
  /\ b[1] = handler
  /\ \A i \in 1..Len(b) : b[i] \in Bodies /\ p[i] \in 1..Len(b[i])
  /\ \A i \in 1..(Len(b) - 1) : b[i][p[i]].kind = "child" /\ b[i + 1] = b[i][p[i]].body

CallAt(b, p) == b[Len(b)][p[Len(b)]]

IdAt(b, p) == [i \in 1..Len(b) |-> Count(b[i], p[i])]

LEMMA PlaceIs ==
  ASSUME NEW b, NEW p, Place(b, p)
  PROVE  /\ Len(b) \in Nat
         /\ \A i \in 1..Len(b) : p[i] \in Nat
         /\ \A i \in 1..(Len(b) - 1) : TakesId(b[i][p[i]])
<1>1. Len(b) \in Nat
  BY SeqIs DEF Place
<1>2. ASSUME NEW i \in 1..Len(b) PROVE p[i] \in Nat
  BY BodyIs DEF Place
<1> QED
  BY <1>1, <1>2 DEF Place, TakesId

\* The positions tell the bodies.
LEMMA BodiesOfPath ==
  ASSUME NEW b, NEW c, NEW p, Place(b, p), Place(c, p)
  PROVE  b = c
<1> DEFINE S == {n \in Nat : n + 1 \in 1..Len(b) => b[n + 1] = c[n + 1]}
<1>1. Len(b) \in Nat /\ Len(c) = Len(b)
  BY PlaceIs DEF Place
<1>2. 0 \in S
  BY DEF Place
<1>3. ASSUME NEW n \in S PROVE n + 1 \in S
  <2> SUFFICES ASSUME n + 1 + 1 \in 1..Len(b) PROVE b[n + 1 + 1] = c[n + 1 + 1]
    OBVIOUS
  <2>1. n + 1 \in 1..(Len(b) - 1)
    BY <1>1
  <2>2. b[n + 1] = c[n + 1]
    BY <2>1, <1>1
  <2> QED
    BY <2>1, <2>2, <1>1 DEF Place
<1>4. S = Nat
  <2> HIDE DEF S
  <2>1. S \in SUBSET Nat
    BY DEF S
  <2> QED
    BY <2>1, <1>2, <1>3, Induct
<1>5. ASSUME NEW i \in 1..Len(b) PROVE b[i] = c[i]
  <2>1. i - 1 \in Nat /\ (i - 1) + 1 = i
    BY <1>1
  <2>2. i - 1 \in S
    <3> HIDE DEF S
    <3> QED
      BY <2>1, <1>4
  <2> QED
    BY <2>1, <2>2
<1> QED
  BY <1>1, <1>5, SameSeq DEF Place

\* The id of a call that takes one tells its place.
LEMMA PlaceOfId ==
  ASSUME NEW b, NEW p, NEW c, NEW q, Place(b, p), Place(c, q), IdAt(b, p) = IdAt(c, q),
         TakesId(CallAt(b, p)), TakesId(CallAt(c, q))
  PROVE  b = c /\ p = q
<1> DEFINE S == {n \in Nat : n + 1 \in 1..Len(b) => b[n + 1] = c[n + 1] /\ p[n + 1] = q[n + 1]}
<1>1. Len(b) \in Nat /\ Len(c) \in Nat
  BY PlaceIs
<1>2. Len(c) = Len(b)
  <2>1. 1..Len(b) = 1..Len(c)
    BY DEF IdAt
  <2> QED
    BY <2>1, <1>1 DEF Place
<1>3. ASSUME NEW i \in 1..Len(b), b[i] = c[i] PROVE p[i] = q[i]
  <2>1. Count(b[i], p[i]) = Count(c[i], q[i])
    <3>1. IdAt(b, p)[i] = Count(b[i], p[i]) /\ IdAt(c, q)[i] = Count(c[i], q[i])
      BY <1>2 DEF IdAt
    <3> QED
      BY <3>1
  <2>2. p[i] \in Nat /\ q[i] \in Nat
    BY <1>2, PlaceIs
  <2>3. TakesId(b[i][p[i]]) /\ TakesId(c[i][q[i]])
    <3>1. CASE i = Len(b)
      BY <3>1, <1>2 DEF CallAt
    <3>2. CASE i # Len(b)
      BY <3>2, <1>1, <1>2, PlaceIs
    <3> QED
      BY <3>1, <3>2
  <2> QED
    BY <1>3, <2>1, <2>2, <2>3, CountIsInjective
<1>4. 0 \in S
  <2>1. Len(b) > 0 => 1 \in 1..Len(b) /\ b[1] = c[1]
    BY <1>1 DEF Place
  <2> QED
    BY <2>1, <1>3
<1>5. ASSUME NEW n \in S PROVE n + 1 \in S
  <2> SUFFICES ASSUME n + 1 + 1 \in 1..Len(b)
               PROVE  b[n + 1 + 1] = c[n + 1 + 1] /\ p[n + 1 + 1] = q[n + 1 + 1]
    OBVIOUS
  <2>1. n + 1 \in 1..(Len(b) - 1) /\ n + 1 \in 1..Len(b)
    BY <1>1
  <2>2. b[n + 1] = c[n + 1] /\ p[n + 1] = q[n + 1]
    BY <2>1
  <2>3. b[n + 1 + 1] = c[n + 1 + 1]
    BY <2>1, <2>2, <1>2 DEF Place
  <2> QED
    BY <2>3, <1>3
<1>6. S = Nat
  <2> HIDE DEF S
  <2>1. S \in SUBSET Nat
    BY DEF S
  <2> QED
    BY <2>1, <1>4, <1>5, Induct
<1>7. ASSUME NEW i \in 1..Len(b) PROVE b[i] = c[i] /\ p[i] = q[i]
  <2>1. i - 1 \in Nat /\ (i - 1) + 1 = i
    BY <1>1
  <2>2. i - 1 \in S
    <3> HIDE DEF S
    <3> QED
      BY <2>1, <1>6
  <2> QED
    BY <2>1, <2>2
<1> QED
  BY <1>1, <1>2, <1>7, SameSeq DEF Place

-----------------------------------------------------------------------------
(* The stack.                                                              *)

IsOutcome(o) == o \in {Success(o.value), Failed(o.error)}

\* The context that has made so many calls.
IdsOf(id, body, made) ==
  [n \in 1..made |-> IF TakesId(body[n]) THEN Append(id, Count(body, n)) ELSE <<>>]

FrameOf(id, body, made, results) ==
  [id |-> id, body |-> body, counter |-> Count(body, made), ids |-> IdsOf(id, body, made),
   results |-> results]

\* The position that the i-th context is at, and the call there.
Position(i) == Len(stack[i].results) + 1

CallIn(i) == stack[i].body[Position(i)]

Made(i) == IF i < Len(stack) \/ pc = "run" THEN Position(i) ELSE Len(stack[i].results)

ContextId(i) == [j \in 1..(i - 1) |-> Count(stack[j].body, Position(j))]

UserCode == {"atLeastOnce", "atMostOnce", "condition", "submit"}

\* An open context has made all its calls but the last, and gone on after each.
FrameOK(i) ==
  LET f == stack[i]
  IN  /\ f = FrameOf(ContextId(i), f.body, Made(i), f.results)
      /\ f.body \in Bodies /\ IsSeq(f.results) /\ Made(i) <= Len(f.body)
      /\ \A n \in 1..Len(f.results) :
           IsOutcome(f.results[n]) /\ (n < Made(i) => GoesOn(f.body[n], f.results[n]))

StackOK ==
  /\ handler \in Handlers
  /\ IsSeq(stack)
  /\ invocation = "running" <=> Len(stack) > 0
  /\ pc \in {"call", "run"}
  /\ pc = "run" => Len(stack) > 0 /\ CallIn(Len(stack)).kind \in UserCode
  /\ Len(stack) > 0 => stack[1].body = handler
  /\ \A i \in 1..Len(stack) : FrameOK(i)
  /\ \A i \in 1..(Len(stack) - 1) :
       CallIn(i).kind = "child" /\ stack[i + 1].body = CallIn(i).body

\* The i-th context has a call to make, or has begun it.
Going(i) ==
  /\ i \in 1..Len(stack)
  /\ Position(i) <= Len(stack[i].body)
  /\ \A n \in 1..Len(stack[i].results) : GoesOn(stack[i].body[n], stack[i].results[n])

LEMMA FrameIs ==
  ASSUME StackOK, NEW i \in 1..Len(stack)
  PROVE  /\ stack[i].id = ContextId(i)
         /\ stack[i].body \in Bodies
         /\ IsSeq(stack[i].body) /\ Len(stack[i].body) \in Nat
         /\ IsSeq(stack[i].results) /\ Len(stack[i].results) \in Nat
         /\ i < Len(stack) \/ pc = "run" => Going(i)
<1>1. FrameOK(i) /\ Len(stack) \in Nat
  BY SeqIs DEF StackOK
<1>2. /\ stack[i].body \in Bodies /\ IsSeq(stack[i].body) /\ Len(stack[i].body) \in Nat
      /\ IsSeq(stack[i].results) /\ Len(stack[i].results) \in Nat
  BY <1>1, BodyIs, SeqIs DEF FrameOK
<1>3. stack[i].id = ContextId(i)
  BY <1>1 DEF FrameOK, FrameOf
<1>4. ASSUME i < Len(stack) \/ pc = "run" PROVE Going(i)
  BY <1>1, <1>2, <1>4 DEF FrameOK, Made, Going, Position
<1> QED
  BY <1>2, <1>3, <1>4

\* A call is made, or its user code runs: its context is the innermost.
LEMMA TopGoes ==
  ASSUME StackOK, NEW point \in {"call", "run"}, At(point)
  PROVE  /\ Len(stack) \in Nat \ {0}
         /\ Top = stack[Len(stack)]
         /\ Going(Len(stack))
         /\ Here = CallIn(Len(stack))
<1>1. Len(stack) \in Nat \ {0} /\ Top = stack[Len(stack)]
  BY SeqIs DEF StackOK, At, Top, Last
<1>2. FrameOK(Len(stack))
  BY <1>1 DEF StackOK
<1>3. Here = CallIn(Len(stack))
  BY <1>1 DEF Here, CallIn, Position
<1>4. Going(Len(stack))
  <2> DEFINE f == stack[Len(stack)]
  <2>1. Len(f.results) \in Nat /\ Len(f.body) \in Nat
    BY <1>1, FrameIs
  <2>2. ~BodyOver(f)
    BY <1>1 DEF At
  <2>3. /\ Len(f.results) # Len(f.body)
        /\ Len(f.results) > 0 =>
             GoesOn(f.body[Len(f.results)], f.results[Len(f.results)])
    BY <2>1, <2>2 DEF BodyOver
  <2>4. /\ Made(Len(stack)) <= Len(f.body)
        /\ \A n \in 1..Len(f.results) :
             n < Made(Len(stack)) => GoesOn(f.body[n], f.results[n])
    BY <1>2 DEF FrameOK
  <2>5. Made(Len(stack)) \in {Len(f.results), Len(f.results) + 1}
    BY DEF Made, Position
  <2>6. Len(f.results) + 1 <= Len(f.body)
    BY <2>1, <2>3, <2>4, <2>5
  <2>7. ASSUME NEW n \in 1..Len(f.results) PROVE GoesOn(f.body[n], f.results[n])
    BY <2>1, <2>3, <2>4, <2>5
  <2> QED
    BY <1>1, <2>6, <2>7 DEF Going, Position
<1> QED
  BY <1>1, <1>3, <1>4

-----------------------------------------------------------------------------
(* What becomes of the stack.                                              *)

\* Every body makes its calls on its own context.
OwnContexts == \A body \in Bodies : OwnContext(body)

\* The id of the call that the i-th context is at, if it takes one.
CallId(i) == Append(ContextId(i), Count(stack[i].body, Position(i)))

LEMMA IdsAre ==
  ASSUME NEW id, NEW body, NEW k \in Nat
  PROVE  IsSeq(IdsOf(id, body, k)) /\ Len(IdsOf(id, body, k)) = k
BY TableIs DEF IdsOf

LEMMA IdsNext ==
  ASSUME NEW id, NEW body, NEW k \in Nat
  PROVE  IdsOf(id, body, k + 1) =
           Append(IdsOf(id, body, k), IF TakesId(body[k + 1]) THEN Append(id, Count(body, k) + 1)
                                      ELSE <<>>)
<1> DEFINE old  == IdsOf(id, body, k)
           new  == IdsOf(id, body, k + 1)
           last == IF TakesId(body[k + 1]) THEN Append(id, Count(body, k) + 1) ELSE <<>>
<1>1. TakesId(body[k + 1]) => Count(body, k + 1) = Count(body, k) + 1
  BY CountNext, CountIsNat
<1>2. IsSeq(old) /\ Len(old) = k
  BY IdsAre
<1>3. IsSeq(new) /\ Len(new) = k + 1
  BY IdsAre
<1>4. new[k + 1] = last /\ \A n \in 1..k : new[n] = old[n]
  BY <1>1 DEF IdsOf
<1> HIDE DEF old, new, last
<1>5. /\ IsSeq(Append(old, last)) /\ Len(Append(old, last)) = k + 1
      /\ \A n \in 1..k : Append(old, last)[n] = old[n]
      /\ Append(old, last)[k + 1] = last
  BY <1>2, AppendIs
<1>6. \A n \in 1..(k + 1) : new[n] = Append(old, last)[n]
  BY <1>4, <1>5
<1>7. new = Append(old, last)
  BY <1>3, <1>5, <1>6, SameSeq
<1> QED
  BY <1>7 DEF old, new, last

LEMMA FrameFields ==
  ASSUME NEW g, g = [x \in DOMAIN g |-> g[x]],
         DOMAIN g = {"id", "body", "counter", "ids", "results"},
         NEW n, g.counter = Count(g.body, n), g.ids = IdsOf(g.id, g.body, n)
  PROVE  g = FrameOf(g.id, g.body, n, g.results)
BY DEF FrameOf

LEMMA BegunIs ==
  ASSUME StackOK, OwnContexts, At("call")
  PROVE  /\ IsSeq(Begun) /\ Len(Begun) = Len(stack)
         /\ \A j \in 1..(Len(stack) - 1) : Begun[j] = stack[j]
         /\ Begun[Len(stack)] =
              FrameOf(ContextId(Len(stack)), stack[Len(stack)].body, Position(Len(stack)),
                      stack[Len(stack)].results)
         /\ TakesId(Here) => NextId = CallId(Len(stack))
<1> DEFINE L == Len(stack)
           f == stack[L]
           k == Len(f.results)
<1>1. L \in Nat \ {0} /\ Going(L) /\ Here = CallIn(L)
  BY TopGoes
<1>2. FrameOK(L) /\ k \in Nat /\ Position(L) = k + 1 /\ IsSeq(f.body)
  BY <1>1, FrameIs DEF StackOK, Position
<1>3. Made(L) = k
  BY <1>1 DEF At, Made
<1>4. f = FrameOf(ContextId(L), f.body, k, f.results)
  BY <1>2, <1>3 DEF FrameOK
<1>5. Here = f.body[k + 1]
  BY <1>1, <1>2 DEF CallIn
<1>6. ~Here.outer
  <2>1. f.body \in Bodies /\ k + 1 \in DOMAIN f.body
    BY <1>1, <1>2, FrameIs, BodyIs DEF Going
  <2> QED
    BY <2>1, <1>5 DEF OwnContexts, OwnContext
<1>7. Owner = L
  BY <1>6 DEF Owner
<1>8. /\ f.counter = Count(f.body, k) /\ f.id = ContextId(L)
      /\ NextId = Append(ContextId(L), Count(f.body, k) + 1)
  BY <1>4, <1>7 DEF FrameOf, NextId
<1>9. Begun = [stack EXCEPT ![L] =
                 [f EXCEPT !.counter = IF TakesId(Here) THEN @ + 1 ELSE @,
                           !.ids = Append(@, IF TakesId(Here) THEN NextId ELSE <<>>)]]
  <2>1. L \in DOMAIN stack
    BY <1>1, SeqIs DEF StackOK
  <2>2. CASE TakesId(Here)
    BY <2>1, <2>2, <1>4, <1>7 DEF Begun, FrameOf
  <2>3. CASE ~TakesId(Here)
    BY <2>1, <2>3, <1>4, <1>7 DEF Begun, FrameOf
  <2> QED
    BY <2>2, <2>3
<1>10. [f EXCEPT !.counter = IF TakesId(Here) THEN @ + 1 ELSE @,
                 !.ids = Append(@, IF TakesId(Here) THEN NextId ELSE <<>>)]
         = FrameOf(ContextId(L), f.body, k + 1, f.results)
  <2>1. (IF TakesId(Here) THEN f.counter + 1 ELSE f.counter) = Count(f.body, k + 1)
    <3>1. k \in Nat /\ f.counter = Count(f.body, k)
      BY <1>2, <1>8
    <3>2. /\ Count(f.body, k) \in Nat
          /\ Count(f.body, k + 1) = Count(f.body, k) + IF TakesId(f.body[k + 1]) THEN 1 ELSE 0
      <4> HIDE DEF f, k
      <4> QED
        BY <3>1, CountNext, CountIsNat
    <3> QED
      BY <3>1, <3>2, <1>5
  <2>2. f.ids = IdsOf(ContextId(L), f.body, k)
    BY <1>4 DEF FrameOf
  <2>3. Append(f.ids, IF TakesId(Here) THEN NextId ELSE <<>>)
          = IdsOf(ContextId(L), f.body, k + 1)
    BY <1>2, <1>5, <1>8, <2>2, IdsNext
  <2> DEFINE g == [f EXCEPT !.counter = IF TakesId(Here) THEN @ + 1 ELSE @,
                            !.ids = Append(@, IF TakesId(Here) THEN NextId ELSE <<>>)]
  <2>4. DOMAIN f = {"id", "body", "counter", "ids", "results"}
    BY <1>4 DEF FrameOf
  <2>5. g = [x \in DOMAIN g |-> g[x]] /\ DOMAIN g = DOMAIN f
    OBVIOUS
  <2>6. /\ g.id = ContextId(L) /\ g.body = f.body /\ g.results = f.results
        /\ g.counter = Count(f.body, k + 1) /\ g.ids = IdsOf(ContextId(L), f.body, k + 1)
    BY <2>1, <2>3, <2>4, <1>8
  <2>7. g = FrameOf(g.id, g.body, k + 1, g.results)
    <3> HIDE DEF g, f, k
    <3> QED
      BY <2>4, <2>5, <2>6, FrameFields
  <2> HIDE DEF g
  <2>8. g = FrameOf(ContextId(L), f.body, k + 1, f.results)
    BY <2>6, <2>7
  <2> QED
    BY <2>8 DEF g
<1>11. TakesId(Here) => NextId = CallId(L)
  BY <1>2, <1>5, <1>8, CountNext, CountIsNat DEF CallId
<1>12. IsSeq(stack) /\ L \in 1..Len(stack)
  BY <1>1 DEF StackOK
<1> DEFINE new == FrameOf(ContextId(L), f.body, k + 1, f.results)
<1>13. Begun = [stack EXCEPT ![L] = new]
  BY <1>9, <1>10
<1>14. /\ IsSeq(Begun) /\ Len(Begun) = L
       /\ \A j \in 1..L : Begun[j] = IF j = L THEN new ELSE stack[j]
  <2> HIDE DEF new
  <2>1. /\ Begun = [j \in 1..L |-> Begun[j]]
        /\ \A j \in 1..L : Begun[j] = IF j = L THEN new ELSE stack[j]
    BY <1>12, <1>13, SeqIs
  <2> QED
    BY <1>1, <2>1, TableIs
<1> QED
  BY <1>1, <1>2, <1>11, <1>14

\* The way to the n-th call of the i-th context.
PathTo(i, n) == [j \in 1..i |-> IF j < i THEN Position(j) ELSE n]

\* The stack ends with the i-th context, which is as before or has changed to this.
CutAt(frames, i, frame) ==
  /\ IsSeq(frames) /\ Len(frames) = i
  /\ \A j \in 1..(i - 1) : frames[j] = stack[j]
  /\ frames[i] = frame

\* The i-th context once it has begun its call, and once the call has returned.
Called(i) == FrameOf(ContextId(i), stack[i].body, Position(i), stack[i].results)

Answered(i, o) ==
  FrameOf(ContextId(i), stack[i].body, Position(i), Append(stack[i].results, o))

\* The call of the i-th context returns, and the contexts within it are gone.
Returns(i, o) ==
  /\ Going(i) /\ IsOutcome(o)
  /\ CutAt(stack', i, Answered(i, o))
  /\ observed' = IF o.error = "Suspend" \/ PathTo(i, Position(i)) \in DOMAIN observed THEN observed
                 ELSE Put(observed, PathTo(i, Position(i)), o)
  /\ pc' = "call"
  /\ UNCHANGED <<handler, invocation>>

LEMMA ReturnIs ==
  ASSUME StackOK, NEW i, Going(i), NEW frames, CutAt(frames, i, Called(i)),
         NEW o, IsOutcome(o), Return(frames, o), UNCHANGED <<handler, invocation>>
  PROVE  Returns(i, o)
<1>1. Len(stack) \in Nat /\ i \in 1..Len(stack) /\ i \in Nat \ {0}
  BY SeqIs DEF StackOK, Going
<1>2. /\ IsSeq(frames) /\ Len(frames) = i /\ DOMAIN frames = 1..i
      /\ \A j \in 1..(i - 1) : frames[j] = stack[j]
      /\ frames[i] = Called(i)
  BY SeqIs DEF CutAt
<1>3. frames[i].results = stack[i].results
  BY <1>2 DEF Called, FrameOf
<1>4. PathIn(frames) = PathTo(i, Position(i))
  <2>1. \A j \in 1..i : frames[j].results = stack[j].results
    BY <1>1, <1>2, <1>3
  <2> QED
    BY <1>1, <1>2, <2>1 DEF PathIn, PathTo, Position
<1>5. stack' = [frames EXCEPT ![i].results = Append(@, o)]
  BY <1>2 DEF Return
<1>6. [Called(i) EXCEPT !.results = Append(stack[i].results, o)] = Answered(i, o)
  BY DEF Called, Answered, FrameOf
<1>7. stack' = [j \in 1..i |-> stack'[j]] /\ \A j \in 1..(i - 1) : stack'[j] = stack[j]
  <2>1. stack' = [j \in DOMAIN stack' |-> stack'[j]] /\ DOMAIN stack' = DOMAIN frames
    BY <1>5
  <2>2. \A j \in 1..(i - 1) : stack'[j] = frames[j]
    BY <1>1, <1>2, <1>5
  <2> QED
    BY <2>1, <2>2, <1>2
<1>8. stack'[i] = [Called(i) EXCEPT !.results = Append(stack[i].results, o)]
  BY <1>1, <1>2, <1>3, <1>5
<1>9. IsSeq(stack') /\ Len(stack') = i
  BY <1>1, <1>7, TableIs
<1>10. CutAt(stack', i, Answered(i, o))
  BY <1>6, <1>7, <1>8, <1>9 DEF CutAt
<1> QED
  BY <1>4, <1>10 DEF Return, Returns

\* A call has begun whose user code runs.
Begins ==
  /\ Going(Len(stack)) /\ pc = "call" /\ CallIn(Len(stack)).kind \in UserCode
  /\ CutAt(stack', Len(stack), Called(Len(stack)))
  /\ pc' = "run"
  /\ UNCHANGED <<handler, invocation, observed>>

\* A child context has begun.
Enters ==
  /\ Going(Len(stack)) /\ pc = "call" /\ CallIn(Len(stack)).kind = "child"
  /\ IsSeq(stack') /\ Len(stack') = Len(stack) + 1
  /\ \A j \in 1..(Len(stack) - 1) : stack'[j] = stack[j]
  /\ stack'[Len(stack)] = Called(Len(stack))
  /\ stack'[Len(stack) + 1] =
       FrameOf(CallId(Len(stack)), CallIn(Len(stack)).body, 0, <<>>)
  /\ UNCHANGED <<handler, invocation, pc, observed>>

Forgets ==
  /\ stack' = <<>> /\ pc' = "call" /\ invocation' # "running"
  /\ UNCHANGED <<handler, observed>>

\* What is the same as long as the contexts around the i-th are.
LEMMA BelowIs ==
  ASSUME StackOK, NEW i \in 1..Len(stack), \A j \in 1..(i - 1) : stack'[j] = stack[j]
  PROVE  /\ \A j \in 1..(i - 1) : Position(j)' = Position(j) /\ CallIn(j)' = CallIn(j)
         /\ \A j \in 1..i : ContextId(j)' = ContextId(j)
<1>1. Len(stack) \in Nat /\ i \in Nat
  BY SeqIs DEF StackOK
<1>2. ASSUME NEW j \in 1..(i - 1) PROVE Position(j)' = Position(j) /\ CallIn(j)' = CallIn(j)
  BY DEF Position, CallIn
<1>3. ASSUME NEW j \in 1..i PROVE ContextId(j)' = ContextId(j)
  <2>1. \A k \in 1..(j - 1) : k \in 1..(i - 1)
    BY <1>1
  <2>2. \A k \in 1..(j - 1) :
          Count(stack'[k].body, Position(k)') = Count(stack[k].body, Position(k))
    BY <2>1, <1>2
  <2> QED
    BY <2>2 DEF ContextId
<1> QED
  BY <1>2, <1>3

LEMMA StackReturns ==
  ASSUME StackOK, NEW i, NEW o, Returns(i, o)
  PROVE  StackOK'
<1>1. /\ Len(stack) \in Nat /\ i \in 1..Len(stack) /\ i \in Nat \ {0}
      /\ Going(i) /\ IsOutcome(o) /\ pc' = "call"
      /\ IsSeq(stack') /\ Len(stack') = i /\ \A j \in 1..(i - 1) : stack'[j] = stack[j]
      /\ stack'[i] = Answered(i, o)
  BY SeqIs DEF StackOK, Going, Returns, CutAt
<1>2. /\ \A j \in 1..(i - 1) : Position(j)' = Position(j) /\ CallIn(j)' = CallIn(j)
      /\ \A j \in 1..i : ContextId(j)' = ContextId(j)
  BY <1>1, BelowIs
<1>3. /\ stack'[i].body = stack[i].body
      /\ stack'[i].results = Append(stack[i].results, o)
  BY <1>1 DEF Answered, FrameOf
<1>4. /\ stack[i].body \in Bodies /\ Len(stack[i].body) \in Nat
      /\ IsSeq(stack[i].results) /\ Len(stack[i].results) \in Nat
  BY <1>1, FrameIs
<1>5. /\ IsSeq(stack'[i].results) /\ Len(stack'[i].results) = Position(i)
      /\ \A n \in 1..Len(stack[i].results) : stack'[i].results[n] = stack[i].results[n]
      /\ stack'[i].results[Position(i)] = o
  BY <1>3, <1>4, AppendIs DEF Position
<1>6. FrameOK(i)'
  <2>1. Made(i)' = Position(i)
    BY <1>1, <1>5 DEF Made
  <2>2. stack'[i] = FrameOf(ContextId(i)', stack'[i].body, Made(i)', stack'[i].results)
    BY <1>1, <1>2, <1>3, <2>1 DEF Answered
  <2>3. ASSUME NEW n \in 1..Len(stack'[i].results)
        PROVE  IsOutcome(stack'[i].results[n])
               /\ (n < Position(i) => GoesOn(stack'[i].body[n], stack'[i].results[n]))
    <3>1. FrameOK(i)
      BY <1>1 DEF StackOK
    <3>2. CASE n = Position(i)
      BY <3>2, <1>1, <1>4, <1>5 DEF Position
    <3>3. CASE n # Position(i)
      <4>1. n \in 1..Len(stack[i].results)
        BY <3>3, <1>4, <1>5 DEF Position
      <4> QED
        BY <4>1, <3>1, <1>1, <1>3, <1>5 DEF FrameOK, Going
    <3> QED
      BY <3>2, <3>3
  <2>4. Position(i) <= Len(stack'[i].body)
    BY <1>1, <1>3 DEF Going
  <2> QED
    BY <2>1, <2>2, <2>3, <2>4, <1>3, <1>4, <1>5 DEF FrameOK
<1>7. ASSUME NEW j \in 1..(i - 1) PROVE FrameOK(j)'
  <2>1. FrameOK(j) /\ j \in 1..Len(stack) /\ j < Len(stack) /\ j < i
    BY <1>1 DEF StackOK
  <2>2. Made(j)' = Made(j)
    BY <2>1, <1>1, <1>2 DEF Made
  <2>3. ContextId(j)' = ContextId(j) /\ stack'[j] = stack[j]
    BY <1>1, <1>2
  <2> QED
    BY <2>1, <2>2, <2>3 DEF FrameOK
<1>8. \A j \in 1..Len(stack') : FrameOK(j)'
  <2>1. \A j \in 1..i : j = i \/ j \in 1..(i - 1)
    BY <1>1
  <2> QED
    BY <2>1, <1>1, <1>6, <1>7
<1>9. \A j \in 1..(Len(stack') - 1) :
        CallIn(j)'.kind = "child" /\ stack'[j + 1].body = CallIn(j)'.body
  <2> SUFFICES ASSUME NEW j \in 1..(i - 1)
               PROVE  CallIn(j)'.kind = "child" /\ stack'[j + 1].body = CallIn(j)'.body
    BY <1>1
  <2>1. CallIn(j).kind = "child" /\ stack[j + 1].body = CallIn(j).body
    BY <1>1 DEF StackOK
  <2>2. stack'[j + 1].body = stack[j + 1].body
    <3>1. j + 1 = i \/ j + 1 \in 1..(i - 1)
      BY <1>1
    <3> QED
      BY <3>1, <1>1, <1>3
  <2> QED
    BY <2>1, <2>2, <1>2
<1>10. stack'[1].body = handler'
  <2>1. stack[1].body = handler /\ handler' = handler
    BY <1>1 DEF StackOK, Returns
  <2>2. 1 = i \/ 1 \in 1..(i - 1)
    BY <1>1
  <2> QED
    BY <2>1, <2>2, <1>1, <1>3
<1>11. handler' \in Handlers /\ (invocation' = "running" <=> Len(stack') > 0)
  BY <1>1 DEF StackOK, Returns
<1> QED
  BY <1>1, <1>8, <1>9, <1>10, <1>11 DEF StackOK

LEMMA ContextIdIs ==
  ASSUME NEW i \in Nat \ {0}
  PROVE  /\ IsSeq(ContextId(i)) /\ Len(ContextId(i)) = i - 1
         /\ ContextId(i + 1) = CallId(i)
<1>1. IsSeq(ContextId(i)) /\ Len(ContextId(i)) = i - 1
  BY TableIs DEF ContextId
<1>2. IsSeq(ContextId(i + 1)) /\ Len(ContextId(i + 1)) = i
  BY TableIs DEF ContextId
<1>3. /\ \A j \in 1..(i - 1) : ContextId(i + 1)[j] = ContextId(i)[j]
      /\ ContextId(i + 1)[i] = Count(stack[i].body, Position(i))
  BY DEF ContextId
<1>4. /\ IsSeq(CallId(i)) /\ Len(CallId(i)) = i
      /\ \A j \in 1..(i - 1) : CallId(i)[j] = ContextId(i)[j]
      /\ CallId(i)[i] = Count(stack[i].body, Position(i))
  BY <1>1, AppendIs DEF CallId
<1>5. \A j \in 1..i : ContextId(i + 1)[j] = CallId(i)[j]
  BY <1>3, <1>4
<1> QED
  BY <1>1, <1>2, <1>4, <1>5, SameSeq

LEMMA ContextIdNext ==
  ASSUME NEW i \in Nat \ {0}
  PROVE  (ContextId(i + 1) = CallId(i))'
<1>1. ContextId(i + 1) = CallId(i)
  BY ContextIdIs
<1> QED
  BY <1>1, PTL

LEMMA StackBegins ==
  ASSUME StackOK, Begins
  PROVE  StackOK'
<1> SUFFICES ASSUME NEW L, L = Len(stack) PROVE StackOK'
  OBVIOUS
<1>1. /\ L \in Nat \ {0} /\ L \in 1..L
      /\ Going(L) /\ pc' = "run" /\ CallIn(L).kind \in UserCode
      /\ IsSeq(stack') /\ Len(stack') = L /\ \A j \in 1..(L - 1) : stack'[j] = stack[j]
      /\ stack'[L] = Called(L)
  BY SeqIs DEF StackOK, Going, Begins, CutAt
<1>2. /\ \A j \in 1..(L - 1) : Position(j)' = Position(j) /\ CallIn(j)' = CallIn(j)
      /\ \A j \in 1..L : ContextId(j)' = ContextId(j)
  BY <1>1, BelowIs
<1>3. stack'[L].body = stack[L].body /\ stack'[L].results = stack[L].results
  BY <1>1 DEF Called, FrameOf
<1>4. /\ Position(L)' = Position(L) /\ CallIn(L)' = CallIn(L)
      /\ \A j \in 1..L : Made(j)' = Position(j)
  <2>1. Position(L)' = Position(L) /\ CallIn(L)' = CallIn(L)
    BY <1>1, <1>3 DEF Position, CallIn
  <2>2. \A j \in 1..L : j = L \/ j \in 1..(L - 1)
    BY <1>1
  <2> QED
    BY <2>1, <2>2, <1>1, <1>2 DEF Made
<1>5. FrameOK(L)'
  <2>1. FrameOK(L)
    BY <1>1 DEF StackOK
  <2>2. stack'[L] = FrameOf(ContextId(L)', stack'[L].body, Made(L)', stack'[L].results)
    BY <1>1, <1>2, <1>3, <1>4 DEF Called
  <2> QED
    BY <2>1, <2>2, <1>1, <1>3, <1>4 DEF FrameOK, Going
<1>6. ASSUME NEW j \in 1..(L - 1) PROVE FrameOK(j)'
  <2>1. FrameOK(j) /\ j < L /\ j \in 1..L
    BY <1>1 DEF StackOK
  <2>2. Made(j)' = Made(j)
    BY <2>1, <1>4 DEF Made
  <2> QED
    BY <2>1, <2>2, <1>1, <1>2 DEF FrameOK
<1>7. \A j \in 1..Len(stack') : FrameOK(j)'
  <2>1. \A j \in 1..L : j = L \/ j \in 1..(L - 1)
    BY <1>1
  <2> QED
    BY <2>1, <1>1, <1>5, <1>6
<1>8. \A j \in 1..(Len(stack') - 1) :
        CallIn(j)'.kind = "child" /\ stack'[j + 1].body = CallIn(j)'.body
  <2> SUFFICES ASSUME NEW j \in 1..(L - 1)
               PROVE  CallIn(j)'.kind = "child" /\ stack'[j + 1].body = CallIn(j)'.body
    BY <1>1
  <2>1. CallIn(j).kind = "child" /\ stack[j + 1].body = CallIn(j).body
    BY <1>1 DEF StackOK
  <2>2. j + 1 = L \/ j + 1 \in 1..(L - 1)
    BY <1>1
  <2> QED
    BY <2>1, <2>2, <1>1, <1>2, <1>3
<1>9. stack'[1].body = handler'
  <2>1. stack[1].body = handler /\ handler' = handler
    BY <1>1 DEF StackOK, Begins
  <2>2. 1 = L \/ 1 \in 1..(L - 1)
    BY <1>1
  <2> QED
    BY <2>1, <2>2, <1>1, <1>3
<1>10. handler' \in Handlers /\ (invocation' = "running" <=> Len(stack') > 0)
  BY <1>1 DEF StackOK, Begins
<1> QED
  BY <1>1, <1>4, <1>7, <1>8, <1>9, <1>10 DEF StackOK

LEMMA StackEnters ==
  ASSUME StackOK, Enters
  PROVE  StackOK'
<1> SUFFICES ASSUME NEW L, L = Len(stack) PROVE StackOK'
  OBVIOUS
<1>1. /\ L \in Nat \ {0} /\ L \in 1..L
      /\ Going(L) /\ pc = "call" /\ pc' = "call" /\ CallIn(L).kind = "child"
      /\ IsSeq(stack') /\ Len(stack') = L + 1 /\ \A j \in 1..(L - 1) : stack'[j] = stack[j]
      /\ stack'[L] = Called(L)
      /\ stack'[L + 1] = FrameOf(CallId(L), CallIn(L).body, 0, <<>>)
  BY SeqIs DEF StackOK, Going, Enters
<1>2. /\ \A j \in 1..(L - 1) : Position(j)' = Position(j) /\ CallIn(j)' = CallIn(j)
      /\ \A j \in 1..L : ContextId(j)' = ContextId(j)
  BY <1>1, BelowIs
<1>3. /\ stack'[L].body = stack[L].body /\ stack'[L].results = stack[L].results
      /\ Position(L)' = Position(L) /\ CallIn(L)' = CallIn(L)
  BY <1>1 DEF Called, FrameOf, Position, CallIn
<1>4. \A j \in 1..L : Made(j)' = Position(j)
  <2>1. \A j \in 1..L : j < Len(stack') /\ (j = L \/ j \in 1..(L - 1))
    BY <1>1
  <2> QED
    BY <2>1, <1>2, <1>3 DEF Made
<1>5. FrameOK(L)'
  <2>1. FrameOK(L)
    BY <1>1 DEF StackOK
  <2>2. stack'[L] = FrameOf(ContextId(L)', stack'[L].body, Made(L)', stack'[L].results)
    BY <1>1, <1>2, <1>3, <1>4 DEF Called
  <2> QED
    BY <2>1, <2>2, <1>1, <1>3, <1>4 DEF FrameOK, Going
<1>6. ASSUME NEW j \in 1..(L - 1) PROVE FrameOK(j)'
  <2>1. FrameOK(j) /\ j < L /\ j \in 1..L
    BY <1>1 DEF StackOK
  <2>2. Made(j)' = Made(j)
    BY <2>1, <1>4 DEF Made
  <2> QED
    BY <2>1, <2>2, <1>1, <1>2 DEF FrameOK
<1>7. FrameOK(L + 1)'
  <2>1. stack'[L + 1].body = CallIn(L).body /\ stack'[L + 1].results = <<>>
    BY <1>1 DEF FrameOf
  <2>2. Made(L + 1)' = 0
    BY <1>1, <2>1 DEF Made
  <2>3. ContextId(L + 1)' = CallId(L)
    <3>1. ContextId(L + 1)' = CallId(L)'
      BY <1>1, ContextIdNext
    <3>2. CallId(L)' = CallId(L)
      BY <1>1, <1>2, <1>3 DEF CallId
    <3> QED
      BY <3>1, <3>2
  <2>4. CallIn(L).body \in Bodies
    <3>1. stack[L].body \in Bodies /\ Position(L) \in DOMAIN stack[L].body
      BY <1>1, FrameIs, BodyIs DEF Going, Position
    <3> QED
      BY <3>1, <1>1, BodyAssumption DEF CallIn
  <2>5. 0 <= Len(CallIn(L).body)
    BY <2>4, BodyIs
  <2> QED
    BY <2>1, <2>2, <2>3, <2>4, <2>5, <1>1, EmptyIs DEF FrameOK
<1>8. \A j \in 1..Len(stack') : FrameOK(j)'
  <2>1. \A j \in 1..(L + 1) : j = L + 1 \/ j = L \/ j \in 1..(L - 1)
    BY <1>1
  <2> QED
    BY <2>1, <1>1, <1>5, <1>6, <1>7
<1>9. \A j \in 1..(Len(stack') - 1) :
        CallIn(j)'.kind = "child" /\ stack'[j + 1].body = CallIn(j)'.body
  <2> SUFFICES ASSUME NEW j \in 1..L
               PROVE  CallIn(j)'.kind = "child" /\ stack'[j + 1].body = CallIn(j)'.body
    BY <1>1
  <2>1. CASE j = L
    <3>1. stack'[L + 1].body = CallIn(L).body
      BY <1>1 DEF FrameOf
    <3> QED
      BY <2>1, <3>1, <1>1, <1>3
  <2>2. CASE j # L
    <3>1. CallIn(j).kind = "child" /\ stack[j + 1].body = CallIn(j).body /\ j \in 1..(L - 1)
      BY <2>2, <1>1 DEF StackOK
    <3>2. j + 1 = L \/ j + 1 \in 1..(L - 1)
      BY <3>1, <1>1
    <3> QED
      BY <3>1, <3>2, <1>1, <1>2, <1>3
  <2> QED
    BY <2>1, <2>2
<1>10. stack'[1].body = handler'
  <2>1. stack[1].body = handler /\ handler' = handler
    BY <1>1 DEF StackOK, Enters
  <2>2. 1 = L \/ 1 \in 1..(L - 1)
    BY <1>1
  <2> QED
    BY <2>1, <2>2, <1>1, <1>3
<1>11. handler' \in Handlers /\ (invocation' = "running" <=> Len(stack') > 0)
  BY <1>1 DEF StackOK, Enters
<1> QED
  BY <1>1, <1>8, <1>9, <1>10, <1>11 DEF StackOK

LEMMA StackForgets ==
  ASSUME StackOK, Forgets
  PROVE  StackOK'
<1>1. IsSeq(stack') /\ Len(stack') = 0
  BY EmptyIs DEF Forgets
<1> QED
  BY <1>1 DEF StackOK, Forgets

LEMMA StackInvoked ==
  ASSUME StackOK, Invoke
  PROVE  StackOK'
<1>1. stack' = <<Context(<<>>, handler)>> /\ invocation' = "running" /\ UNCHANGED <<handler, pc>>
  BY DEF Invoke
<1>2. IsSeq(stack') /\ Len(stack') = 1 /\ stack'[1] = Context(<<>>, handler)
  BY <1>1, SingleIs
<1>3. Len(stack) = 0 /\ pc' = "call"
  BY <1>1, SeqIs DEF Invoke, StackOK
<1>4. /\ stack'[1].body = handler /\ stack'[1].results = <<>>
  BY <1>2 DEF Context
<1>5. FrameOK(1)'
  <2>1. ContextId(1)' = <<>>
    <3>1. IsSeq(ContextId(1)) /\ Len(ContextId(1)) = 0
      BY ContextIdIs
    <3>2. ContextId(1) = <<>>
      BY <3>1, EmptyIs, SameSeq
    <3>3. ContextId(1)' = ContextId(1)
      BY DEF ContextId
    <3> QED
      BY <3>2, <3>3
  <2>2. Made(1)' = 0
    BY <1>2, <1>3, <1>4 DEF Made
  <2>3. IdsOf(<<>>, handler, 0) = <<>>
    <3>1. IsSeq(IdsOf(<<>>, handler, 0)) /\ Len(IdsOf(<<>>, handler, 0)) = 0
      BY IdsAre
    <3> QED
      BY <3>1, EmptyIs, SameSeq
  <2>4. Context(<<>>, handler) = FrameOf(<<>>, handler, 0, <<>>)
    BY <2>3, CountNone DEF Context, FrameOf
  <2>5. handler \in Bodies /\ 0 <= Len(handler)
    BY BodyAssumption, BodyIs DEF StackOK
  <2> QED
    BY <1>2, <1>4, <2>1, <2>2, <2>4, <2>5, EmptyIs DEF FrameOK
<1> QED
  BY <1>1, <1>2, <1>3, <1>4, <1>5 DEF StackOK

-----------------------------------------------------------------------------
(* The operations that are recorded.                                       *)

\* What the service can have recorded of an operation.
IsOp(op) ==
  /\ op = [type |-> op.type, status |-> op.status, value |-> op.value, attempt |-> op.attempt]
  /\ op.type \in {"STEP", "WAIT", "CALLBACK", "INVOKE", "CONTEXT"}
  /\ op.status \in CASE op.type = "STEP" -> {"STARTED", "PENDING", "READY", "SUCCEEDED", "FAILED"}
                      [] op.type = "WAIT" -> {"STARTED", "SUCCEEDED", "CANCELLED"}
                      [] OTHER            -> {"STARTED", "SUCCEEDED", "FAILED"}
  /\ op.attempt \in Nat
  /\ op.status = "STARTED" => op.attempt = 0 /\ op.value = Nothing
  /\ op.status = "SUCCEEDED" /\ op.type # "WAIT" => op.value # Nothing

LogOK == /\ log = [id \in DOMAIN log |-> log[id]]
         /\ \A id \in DOMAIN log : IsOp(log[id])

\* An operation that has ended stays as it is, and the others keep their type.
Evolves(old, new) ==
  /\ old.status \notin Terminal
  /\ new.type = old.type
  /\ CurrentAttempt(new) >= CurrentAttempt(old)

Records(id, op) ==
  /\ log' = Put(log, id, op)
  /\ IsOp(op)
  /\ id \in DOMAIN log => Evolves(log[id], op)

\* The operation of the i-th context's n-th call, if it takes an id.
IdIn(i, n) == Append(ContextId(i), Count(stack[i].body, n))

\* What the call of the i-th context makes of its own operation.
Own(i, id, op) ==
  /\ id = CallId(i) /\ TakesId(CallIn(i)) /\ CallIn(i).kind # "nextId"
  /\ op.type = Type(CallIn(i).kind)
  /\ op.attempt = Get(log, id, Absent).attempt \/ CurrentAttempt(op) <= CallIn(i).attempts
  /\ op.type = "CONTEXT" => /\ op.status \in Terminal => i < Len(stack)
                            /\ op.value = Summary => CallIn(i).summary /\ CallIn(i).big

Cancels(id, op) == id \in DOMAIN log /\ log[id].type = "WAIT" /\ op.attempt = log[id].attempt

\* What the call of the i-th context records: its own operation, or a wait that it cancels.
RecordsCall(i) == \E id, op : Records(id, op) /\ (Own(i, id, op) \/ Cancels(id, op))

\* The contexts that are open have not ended, nor has the operation whose code runs.
OpenInv ==
  /\ \A i \in 2..Len(stack) : /\ ContextId(i) \in DOMAIN log
                              /\ log[ContextId(i)].type = "CONTEXT"
                              /\ log[ContextId(i)].status \notin Terminal
  /\ pc = "run" /\ CallIn(Len(stack)).kind # "submit" /\ CallId(Len(stack)) \in DOMAIN log =>
       /\ log[CallId(Len(stack))].type = "STEP"
       /\ log[CallId(Len(stack))].status \notin Terminal

\* Every operation is of the type of the call that has its id.
LogTyped ==
  \A id \in DOMAIN log : \A b, p :
    Place(b, p) /\ TakesId(CallAt(b, p)) /\ IdAt(b, p) = id =>
      CallAt(b, p).kind # "nextId" /\ log[id].type = Type(CallAt(b, p).kind)

\* The callbacks that have been made are recorded.
CallbacksOK ==
  \A i \in 1..Len(stack) : \A n \in 1..Len(stack[i].results) :
    stack[i].body[n].kind = "callback" =>
      IdIn(i, n) \in DOMAIN log /\ log[IdIn(i, n)].type = "CALLBACK"

ContextsInv == StackOK /\ LogOK /\ OpenInv /\ LogTyped /\ CallbacksOK

\* The bodies on the way to the i-th context.
BodiesTo(i) == [j \in 1..i |-> stack[j].body]

LEMMA StackPlace ==
  ASSUME StackOK, NEW i \in 1..Len(stack), NEW n \in 1..Len(stack[i].body)
  PROVE  /\ Place(BodiesTo(i), PathTo(i, n))
         /\ CallAt(BodiesTo(i), PathTo(i, n)) = stack[i].body[n]
         /\ IdAt(BodiesTo(i), PathTo(i, n)) = IdIn(i, n)
<1> DEFINE b == BodiesTo(i)
           p == PathTo(i, n)
<1>1. Len(stack) \in Nat /\ i \in Nat \ {0} /\ i <= Len(stack)
  BY SeqIs DEF StackOK
<1>2. /\ IsSeq(b) /\ Len(b) = i /\ IsSeq(p) /\ Len(p) = i
  BY <1>1, TableIs DEF BodiesTo, PathTo
<1>3. /\ \A j \in 1..i : b[j] = stack[j].body
      /\ \A j \in 1..i : p[j] = IF j < i THEN Position(j) ELSE n
  BY DEF BodiesTo, PathTo
<1>4. ASSUME NEW j \in 1..(i - 1)
      PROVE  /\ p[j] = Position(j) /\ p[j] \in 1..Len(b[j])
             /\ b[j][p[j]].kind = "child" /\ b[j + 1] = b[j][p[j]].body
  <2>1. j \in 1..(Len(stack) - 1) /\ j \in 1..Len(stack) /\ j < Len(stack) /\ j < i
        /\ j \in 1..i /\ j + 1 \in 1..i
    BY <1>1
  <2>2. Going(j) /\ Len(stack[j].results) \in Nat
    BY <2>1, FrameIs
  <2>3. CallIn(j).kind = "child" /\ stack[j + 1].body = CallIn(j).body
    BY <2>1 DEF StackOK
  <2>4. p[j] = Position(j) /\ b[j] = stack[j].body /\ b[j + 1] = stack[j + 1].body
    BY <1>3, <2>1
  <2>5. Position(j) \in 1..Len(stack[j].body)
    <3>1. Len(stack[j].body) \in Nat
      BY <2>1, FrameIs
    <3> QED
      BY <2>2, <3>1 DEF Going, Position
  <2> HIDE DEF b, p
  <2> QED
    BY <2>3, <2>4, <2>5 DEF CallIn
<1>5. \A j \in 1..i : j = i \/ j \in 1..(i - 1)
  BY <1>1
<1>6. \A j \in 1..i : b[j] \in Bodies
  <2>1. \A j \in 1..i : j \in 1..Len(stack)
    BY <1>1
  <2> QED
    BY <1>3, <2>1, FrameIs
<1>7. b[i] = stack[i].body /\ p[i] = n /\ i \in 1..i
  BY <1>1, <1>3
<1>8. b[1] = handler
  <2>1. 1 \in 1..i /\ stack[1].body = handler
    BY <1>1 DEF StackOK
  <2> QED
    BY <2>1, <1>3
<1>9. CallAt(b, p) = stack[i].body[n]
  <2> HIDE DEF b, p
  <2> QED
    BY <1>2, <1>7 DEF CallAt
<1>10. IdAt(b, p) = IdIn(i, n)
  <2>1. IsSeq(IdAt(b, p)) /\ Len(IdAt(b, p)) = i
    <3> HIDE DEF b, p
    <3> QED
      BY <1>1, <1>2, TableIs DEF IdAt
  <2>2. /\ IsSeq(IdIn(i, n)) /\ Len(IdIn(i, n)) = i
        /\ \A j \in 1..(i - 1) : IdIn(i, n)[j] = ContextId(i)[j]
        /\ IdIn(i, n)[i] = Count(stack[i].body, n)
    <3>1. IsSeq(ContextId(i)) /\ Len(ContextId(i)) = i - 1
      BY <1>1, ContextIdIs
    <3> QED
      BY <1>1, <3>1, AppendIs DEF IdIn
  <2>3. ASSUME NEW j \in 1..i PROVE IdAt(b, p)[j] = IdIn(i, n)[j]
    <3>1. IdAt(b, p)[j] = Count(b[j], p[j])
      <4> HIDE DEF b, p
      <4> QED
        BY <1>2 DEF IdAt
    <3>2. CASE j = i
      BY <3>1, <3>2, <2>2, <1>7
    <3>3. CASE j # i
      <4>1. j \in 1..(i - 1)
        BY <1>5, <3>3
      <4>2. ContextId(i)[j] = Count(stack[j].body, Position(j))
        BY <4>1 DEF ContextId
      <4>3. p[j] = Position(j) /\ b[j] = stack[j].body
        BY <4>1, <1>3, <1>4
      <4> QED
        BY <3>1, <4>1, <4>2, <4>3, <2>2
    <3> QED
      BY <3>2, <3>3
  <2> QED
    BY <2>1, <2>2, <2>3, SameSeq
<1>11. Place(b, p)
  <2> HIDE DEF b, p
  <2> QED
    BY <1>1, <1>2, <1>4, <1>5, <1>6, <1>7, <1>8 DEF Place
<1> QED
  BY <1>9, <1>10, <1>11

-----------------------------------------------------------------------------
(* A call that is made.                                                    *)

\* The operation that the call of the i-th context is about.
CallOp(i) == IF CallIn(i).kind = "result" THEN IdIn(i, CallIn(i).of) ELSE CallId(i)

Guarded == Durable \cup {"child"}

\* What BodyAssumption says of the call that a context is at.
LEMMA CallIsLegal ==
  ASSUME StackOK, NEW i, Going(i)
  PROVE  LET call == CallIn(i)
         IN  /\ call.kind \in {"atLeastOnce", "atMostOnce", "condition", "wait", "invoke",
                               "callback", "result", "submit", "nextId", "cancel", "complete",
                               "child"}
             /\ call.attempts \in Nat \ {0}
             /\ call.kind = "result" => /\ call.of \in 1..Len(stack[i].results)
                                       /\ stack[i].body[call.of].kind = "callback"
             /\ call.kind \in {"atLeastOnce", "atMostOnce", "submit"} =>
                  \A end \in call.ends : /\ IsOutcome(end) /\ end.error # "Suspend"
                                         /\ end.ok => end.value # Nothing
<1>1. /\ stack[i].body \in Bodies /\ DOMAIN stack[i].body = 1..Len(stack[i].body)
      /\ Len(stack[i].body) \in Nat /\ Len(stack[i].results) \in Nat
  BY FrameIs, BodyIs DEF Going
<1>2. Position(i) \in DOMAIN stack[i].body /\ Position(i) - 1 = Len(stack[i].results)
  BY <1>1 DEF Going, Position
<1> QED
  BY <1>1, <1>2, BodyAssumption DEF CallIn, IsOutcome

LEMMA CallIs ==
  ASSUME ContextsInv, OwnContexts, At("call")
  PROVE  /\ Len(stack) \in Nat \ {0} /\ Going(Len(stack)) /\ Here = CallIn(Len(stack))
         /\ CutAt(Begun, Len(stack), Called(Len(stack)))
         /\ Here.kind \in Guarded \cup {"nextId"} => Id = CallOp(Len(stack))
         /\ Id \in DOMAIN log => IsOp(Op) /\ Op = log[Id]
         /\ Id \notin DOMAIN log => Op = Absent
         /\ Here.kind \in Guarded => Decided # "error"
         /\ Here.kind \in Guarded /\ Id \in DOMAIN log => Op.type = Type(Here.kind)
         /\ Here.kind = "result" => Id \in DOMAIN log
<1> SUFFICES ASSUME NEW L, L = Len(stack)
             PROVE  /\ L \in Nat \ {0} /\ Going(L) /\ Here = CallIn(L)
                    /\ CutAt(Begun, L, Called(L))
                    /\ Here.kind \in Guarded \cup {"nextId"} => Id = CallOp(L)
                    /\ Id \in DOMAIN log => IsOp(Op) /\ Op = log[Id]
                    /\ Id \notin DOMAIN log => Op = Absent
                    /\ Here.kind \in Guarded => Decided # "error"
                    /\ Here.kind \in Guarded /\ Id \in DOMAIN log => Op.type = Type(Here.kind)
                    /\ Here.kind = "result" => Id \in DOMAIN log
  OBVIOUS
<1>0. StackOK
  BY DEF ContextsInv
<1>1. L \in Nat \ {0} /\ Going(L) /\ Here = CallIn(L) /\ Top = stack[L] /\ pc = "call"
  BY <1>0, TopGoes DEF At
<1>2. CutAt(Begun, L, Called(L)) /\ (TakesId(Here) => NextId = CallId(L))
  BY <1>0, BegunIs DEF CutAt, Called
<1>3. /\ Id \in DOMAIN log => IsOp(Op) /\ Op = log[Id]
      /\ Id \notin DOMAIN log => Op = Absent
  BY DEF Op, Get, ContextsInv, LogOK
<1>4. ASSUME Here.kind = "result"
      PROVE  Id = IdIn(L, Here.of) /\ Id \in DOMAIN log /\ log[Id].type = "CALLBACK"
  <2>1. /\ Here.of \in 1..Len(stack[L].results)
        /\ stack[L].body[Here.of].kind = "callback"
    BY <1>0, <1>1, <1>4, CallIsLegal
  <2>2. Id = stack[L].ids[Here.of]
    BY <1>1, <1>4 DEF Id
  <2>3. stack[L].ids = IdsOf(ContextId(L), stack[L].body, Len(stack[L].results))
    <3>1. FrameOK(L) /\ Made(L) = Len(stack[L].results)
      BY <1>0, <1>1 DEF StackOK, Made
    <3> QED
      BY <3>1 DEF FrameOK, FrameOf
  <2>4. stack[L].ids[Here.of] = IdIn(L, Here.of)
    BY <2>1, <2>3 DEF IdsOf, IdIn, TakesId
  <2>5. L \in 1..Len(stack)
    BY <1>1
  <2> QED
    BY <2>1, <2>2, <2>4, <2>5 DEF ContextsInv, CallbacksOK
<1>5. ASSUME Here.kind \in Guarded \cup {"nextId"}, Here.kind # "result"
      PROVE  TakesId(Here) /\ Id = CallId(L)
  BY <1>2, <1>5 DEF Guarded, Durable, TakesId, Id
<1>6. ASSUME Here.kind \in Guarded, Id \in DOMAIN log PROVE Op.type = Type(Here.kind)
  <2>1. CASE Here.kind = "result"
    BY <2>1, <1>3, <1>4 DEF Type
  <2>2. CASE Here.kind # "result"
    <3>1. TakesId(Here) /\ Id = CallId(L)
      BY <1>5, <1>6, <2>2
    <3>2. Position(L) \in 1..Len(stack[L].body)
      BY <1>0, <1>1, FrameIs DEF Going, Position
    <3>3. /\ Place(BodiesTo(L), PathTo(L, Position(L)))
          /\ CallAt(BodiesTo(L), PathTo(L, Position(L))) = Here
          /\ IdAt(BodiesTo(L), PathTo(L, Position(L))) = CallId(L)
      BY <1>0, <1>1, <3>2, StackPlace DEF CallIn, IdIn, CallId
    <3> QED
      BY <3>1, <3>3, <1>3, <1>6 DEF ContextsInv, LogTyped
  <2> QED
    BY <2>1, <2>2
<1>7. ASSUME Here.kind \in Guarded PROVE Decided # "error"
  <2>1. CASE Id \in DOMAIN log
    <3>1. Op.type = Type(Here.kind)
      BY <1>6, <1>7, <2>1
    <3>2. Op.status # "NONE"
      BY <1>3, <2>1 DEF IsOp
    <3> QED
      BY <3>1, <3>2, <1>7
      DEF Guarded, Durable, Decided, Decision, StepDecision, ConditionDecision, WaitDecision,
          CallbackDecision, ResultDecision, InvokeDecision, ChildDecision
  <2>2. CASE Id \notin DOMAIN log
    <3>1. Op.status = "NONE" /\ Here.kind # "result"
      BY <1>3, <1>4, <2>2 DEF Absent
    <3> QED
      BY <3>1, <1>7
      DEF Guarded, Durable, Decided, Decision, StepDecision, ConditionDecision, WaitDecision,
          CallbackDecision, ResultDecision, InvokeDecision, ChildDecision
  <2> QED
    BY <2>1, <2>2
<1> QED
  BY <1>1, <1>2, <1>3, <1>4, <1>5, <1>6, <1>7 DEF CallOp

-----------------------------------------------------------------------------
(* What a checkpoint makes of the operations.                              *)

LEMMA OpFields ==
  ASSUME NEW op, op = [x \in DOMAIN op |-> op[x]],
         DOMAIN op = {"type", "status", "value", "attempt"}
  PROVE  op = [type |-> op.type, status |-> op.status, value |-> op.value, attempt |-> op.attempt]
OBVIOUS

\* An operation is absent, or has begun and not ended.
Open(type, op) ==
  \/ op = Absent
  \/ IsOp(op) /\ op.type = type /\ op.status \notin Terminal

LEMMA OpenDomain ==
  ASSUME NEW type, NEW op, Open(type, op)
  PROVE  DOMAIN op = {"type", "status", "value", "attempt"} /\ op.attempt \in Nat
<1>1. CASE op = Absent
  BY <1>1 DEF Absent
<1>2. CASE IsOp(op)
  BY <1>2 DEF IsOp
<1> QED
  BY <1>1, <1>2 DEF Open

LEMMA ApplyStart ==
  ASSUME NEW type \in {"STEP", "WAIT", "CALLBACK", "INVOKE", "CONTEXT"}, NEW op
  PROVE  LET new == Apply(op, Update(type, "START", Nothing, 0))
         IN  /\ IsOp(new) /\ new.type = type /\ new.status = "STARTED" /\ new.attempt = 0
             /\ new.value = Nothing
<1> DEFINE new == Apply(op, Update(type, "START", Nothing, 0))
<1>1. new = [Absent EXCEPT !.type = type, !.status = "STARTED"]
  BY DEF Apply, Update
<1>2. /\ new = [x \in DOMAIN new |-> new[x]]
      /\ DOMAIN new = {"type", "status", "value", "attempt"}
      /\ new.type = type /\ new.status = "STARTED" /\ new.attempt = 0 /\ new.value = Nothing
  BY <1>1 DEF Absent
<1> HIDE DEF new
<1>3. new = [type |-> new.type, status |-> new.status, value |-> new.value,
             attempt |-> new.attempt]
  BY <1>2, OpFields
<1>4. IsOp(new)
  BY <1>2, <1>3 DEF IsOp
<1> QED
  BY <1>2, <1>4 DEF new

LEMMA ApplySucceed ==
  ASSUME NEW type \in {"STEP", "CONTEXT"}, NEW op, Open(type, op), NEW v, v # Nothing
  PROVE  LET new == Apply(op, Update(type, "SUCCEED", v, 0))
         IN  /\ IsOp(new) /\ new.type = type /\ new.status = "SUCCEEDED" /\ new.value = v
             /\ new.attempt = op.attempt
<1> DEFINE new == Apply(op, Update(type, "SUCCEED", v, 0))
<1>1. new = [op EXCEPT !.type = type, !.status = "SUCCEEDED", !.value = v]
  BY DEF Apply, Update
<1>2. DOMAIN op = {"type", "status", "value", "attempt"} /\ op.attempt \in Nat
  BY OpenDomain
<1>3. /\ new = [x \in DOMAIN new |-> new[x]] /\ DOMAIN new = DOMAIN op
      /\ new.type = type /\ new.status = "SUCCEEDED" /\ new.value = v
      /\ new.attempt = op.attempt
  BY <1>1, <1>2
<1> HIDE DEF new
<1>4. new = [type |-> new.type, status |-> new.status, value |-> new.value,
             attempt |-> new.attempt]
  BY <1>2, <1>3, OpFields
<1>5. IsOp(new)
  BY <1>2, <1>3, <1>4 DEF IsOp
<1> QED
  BY <1>3, <1>5 DEF new

LEMMA ApplyFail ==
  ASSUME NEW type \in {"STEP", "CONTEXT"}, NEW op, Open(type, op)
  PROVE  LET new == Apply(op, Update(type, "FAIL", Nothing, 0))
         IN  /\ IsOp(new) /\ new.type = type /\ new.status = "FAILED"
             /\ new.attempt = op.attempt /\ new.value = op.value
<1> DEFINE new == Apply(op, Update(type, "FAIL", Nothing, 0))
<1>1. new = [op EXCEPT !.type = type, !.status = "FAILED"]
  BY DEF Apply, Update
<1>2. DOMAIN op = {"type", "status", "value", "attempt"} /\ op.attempt \in Nat
  BY OpenDomain
<1>3. /\ new = [x \in DOMAIN new |-> new[x]] /\ DOMAIN new = DOMAIN op
      /\ new.type = type /\ new.status = "FAILED" /\ new.attempt = op.attempt
      /\ new.value = op.value
  BY <1>1, <1>2
<1> HIDE DEF new
<1>4. new = [type |-> new.type, status |-> new.status, value |-> new.value,
             attempt |-> new.attempt]
  BY <1>2, <1>3, OpFields
<1>5. IsOp(new)
  BY <1>2, <1>3, <1>4 DEF IsOp
<1> QED
  BY <1>3, <1>5 DEF new

LEMMA ApplyRetry ==
  ASSUME NEW op, Open("STEP", op), NEW attempt \in Nat \ {0}
  PROVE  LET new == Apply(op, Update("STEP", "RETRY", Nothing, attempt))
         IN  /\ IsOp(new) /\ new.type = "STEP" /\ new.status = "PENDING"
             /\ new.attempt = attempt
<1> DEFINE new == Apply(op, Update("STEP", "RETRY", Nothing, attempt))
<1>1. new = [op EXCEPT !.type = "STEP", !.status = "PENDING", !.attempt = attempt]
  BY DEF Apply, Update
<1>2. DOMAIN op = {"type", "status", "value", "attempt"}
  BY OpenDomain
<1>3. /\ new = [x \in DOMAIN new |-> new[x]] /\ DOMAIN new = DOMAIN op
      /\ new.type = "STEP" /\ new.status = "PENDING" /\ new.attempt = attempt
  BY <1>1, <1>2
<1> HIDE DEF new
<1>4. new = [type |-> new.type, status |-> new.status, value |-> new.value,
             attempt |-> new.attempt]
  BY <1>2, <1>3, OpFields
<1>5. IsOp(new)
  BY <1>3, <1>4 DEF IsOp
<1> QED
  BY <1>3, <1>5 DEF new

\* The operation that is recorded under an id, with what it was before.
LEMMA RecordIs ==
  ASSUME LogOK, NEW id, NEW u, NEW op, Record(id, u), op = Apply(Get(log, id, Absent), u),
         IsOp(op),
         id \in DOMAIN log => /\ log[id].status \notin Terminal /\ log[id].type = op.type
                             /\ op.attempt >= log[id].attempt
  PROVE  Records(id, op) /\ id \in DOMAIN log' /\ log'[id] = op
<1>1. log' = Put(log, id, op)
  BY DEF Record
<1>2. ASSUME id \in DOMAIN log PROVE Evolves(log[id], op)
  BY <1>2 DEF Evolves, CurrentAttempt, LogOK, IsOp
<1>3. id \in DOMAIN log' /\ log'[id] = op
  BY <1>1 DEF Put
<1> QED
  BY <1>1, <1>2, <1>3 DEF Records

-----------------------------------------------------------------------------
(* What a call returns.                                                    *)

Same(o, q) == o.ok = q.ok /\ o.value = q.value

\* The outcome of a call is what its operation, which is over, returns when it is replayed.
Agreed(ops, call, id, o) ==
  /\ call.kind \in Guarded =>
       /\ id \in DOMAIN ops
       /\ Decision(call.kind, ops[id]) = "replay"
       /\ \/ Same(o, Replayed(call.kind, ops[id]))
          \/ call.kind = "child" /\ ops[id].value = Summary
  /\ call.kind = "nextId" => Same(o, Success(id))
  /\ call.kind = "complete" =>
       Same(o, IF call.big /\ ~ExecutionListed THEN Failed("Validation") ELSE Success(Nothing))

\* The call of the i-th context returns what is now, or was already, recorded of its operation.
Told(i, o) ==
  LET call == CallIn(i)
      id   == CallOp(i)
  IN  /\ Agreed(log', call, id, o)
      /\ call.kind \in Guarded /\ id \in DOMAIN log /\ Decision(call.kind, log[id]) = "replay" =>
           IF call.kind = "child" /\ log[id].value = Summary THEN o.error = "SerDes"
           ELSE Same(o, Replayed(call.kind, log[id]))

Replies(i, o) ==
  /\ Returns(i, o)
  /\ o.error # "Suspend" => Told(i, o)
  /\ CallIn(i).kind \in {"callback", "submit"} => o.error # "Suspend"

\* The errors of the operations themselves.
OwnErrors == {"Suspend", "UserCode", "Callback", "Invocation", "Execution", "Validation",
              "Checkpoint"}

OwnOutcome(o) == o.ok \/ o.error \in OwnErrors

\* The innermost context makes its call, or the user code of the call ends.
Makes(i, o) ==
  /\ i = Len(stack)
  /\ \/ OwnOutcome(o)
     \/ CallIn(i).kind \in {"atLeastOnce", "atMostOnce", "submit"} /\ o \in CallIn(i).ends
     \/ /\ CallIn(i).kind = "child" /\ CallId(i) \in DOMAIN log
        /\ log[CallId(i)].value = Summary
  /\ o.error = "Suspend" => \E id \in DOMAIN log' : IsPending(log'[id])

\* The innermost context is over, and the call that has entered it returns.
Finishes(i, o) ==
  /\ i = Len(stack) - 1 /\ pc = "call" /\ BodyOver(stack[i + 1])
  /\ o \in {BodyResult(stack[i + 1]), Failed("Execution")}
  /\ BodyResult(stack[i + 1]).error = "Suspend" => o = BodyResult(stack[i + 1]) /\ log' = log

\* User code that has run leaves its operation over, or due to run again.
Ran(i) ==
  pc = "run" /\ CallIn(i).kind # "submit" =>
    /\ CallId(i) \in DOMAIN log'
    /\ \/ log'[CallId(i)].status \in Terminal
       \/ /\ CallIn(i).kind = "condition"
          /\ CurrentAttempt(log'[CallId(i)]) = CurrentAttempt(Get(log, CallId(i), Absent)) + 1

\* The call of the i-th context ends, in the step that makes it or in a later one.
Calls(i) == /\ \E o : Replies(i, o) /\ (Makes(i, o) \/ Finishes(i, o))
            /\ log' = log \/ RecordsCall(i)
            /\ Ran(i)
            /\ UNCHANGED <<crashes, runs>>

LEMMA ReplayedIs ==
  ASSUME NEW kind, NEW op
  PROVE  IsOutcome(Replayed(kind, op)) /\ Replayed(kind, op).error # "Suspend"
BY DEF IsOutcome, Replayed, Success, Failed

LEMMA FailedIs ==
  ASSUME NEW e
  PROVE  /\ IsOutcome(Failed(e)) /\ Failed(e).error = e
         /\ Failed(e).value = Nothing /\ Failed(e).ok = FALSE
BY DEF IsOutcome, Failed

LEMMA SuccessIs ==
  ASSUME NEW v
  PROVE  IsOutcome(Success(v)) /\ Success(v).error = "none" /\ Success(v).value = v
         /\ Success(v).ok = TRUE
BY DEF IsOutcome, Success

\* Only what is there is replayed.
LEMMA AbsentIsNotReplayed ==
  ASSUME NEW kind \in Guarded
  PROVE  Decision(kind, Absent) # "replay"
BY DEF Guarded, Durable, Absent, Decision, StepDecision, ConditionDecision, WaitDecision,
       CallbackDecision, ResultDecision, HasResult, InvokeDecision, ChildDecision, Terminal

LEMMA OwnErrorMakes ==
  ASSUME NEW o, OwnOutcome(o), o.error # "Suspend"
  PROVE  Makes(Len(stack), o)
BY DEF Makes

LEMMA CallHasNotRan ==
  ASSUME At("call"), NEW i
  PROVE  Ran(i)
BY DEF At, Ran

\* An operation that is started is the call's own.
LEMMA StartedIsOwn ==
  ASSUME StackOK, NEW i, Going(i), TakesId(CallIn(i)), CallIn(i).kind # "nextId",
         NEW op, op.type = Type(CallIn(i).kind), op.status = "STARTED", op.attempt = 0,
         op.value = Nothing
  PROVE  Own(i, CallId(i), op)
<1>1. CallIn(i).attempts \in Nat \ {0}
  BY CallIsLegal
<1>2. CurrentAttempt(op) <= CallIn(i).attempts
  BY <1>1 DEF CurrentAttempt
<1>3. op.status \notin Terminal /\ op.value # Summary
  BY DEF Terminal, Nothing, Summary
<1> QED
  BY <1>2, <1>3 DEF Own

LEMMA ReplayCalls ==
  ASSUME ContextsInv, OwnContexts, Replay
  PROVE  Calls(Len(stack))
<1>1. At("call") /\ Here.kind \in Durable /\ Here.kind \in Guarded
  BY DEF Replay, Calling, Guarded
<1>2. /\ StackOK /\ Going(Len(stack)) /\ Here = CallIn(Len(stack))
      /\ CutAt(Begun, Len(stack), Called(Len(stack)))
      /\ Id = CallOp(Len(stack)) /\ Decided = "replay"
      /\ Id \in DOMAIN log => Op = log[Id]
      /\ Id \notin DOMAIN log => Op = Absent
  BY <1>1, CallIs DEF ContextsInv, Replay
<1>3. Id \in DOMAIN log /\ Op = log[Id]
  BY <1>1, <1>2, AbsentIsNotReplayed DEF Decided
<1> DEFINE o == Replayed(Here.kind, Op)
<1>4. IsOutcome(o) /\ o.error # "Suspend"
  BY ReplayedIs
<1>5. Return(Begun, o) /\ log' = log /\ UNCHANGED <<handler, invocation, crashes, runs>>
  BY <1>2 DEF Replay
<1>6. Returns(Len(stack), o)
  <2> HIDE DEF o
  <2> QED
    BY <1>2, <1>4, <1>5, ReturnIs
<1>7. Told(Len(stack), o)
  BY <1>1, <1>2, <1>3, <1>5 DEF Told, Agreed, Decided, Same, Guarded, Durable
<1>8. Makes(Len(stack), o)
  <2>1. OwnOutcome(o)
    BY DEF Replayed, Success, Failed, OwnOutcome, OwnErrors
  <2> HIDE DEF o
  <2> QED
    BY <1>4, <2>1, OwnErrorMakes
<1>9. Ran(Len(stack))
  BY <1>1, CallHasNotRan
<1> HIDE DEF o
<1> QED
  BY <1>4, <1>5, <1>6, <1>7, <1>8, <1>9 DEF Calls, Replies

LEMMA SuspendCalls ==
  ASSUME ContextsInv, OwnContexts, Suspend
  PROVE  Calls(Len(stack))
<1> DEFINE o == Failed("Suspend")
<1>1. At("call") /\ Here.kind \in Durable /\ Here.kind \in Guarded
  BY DEF Suspend, Calling, Guarded
<1>2. /\ StackOK /\ Going(Len(stack)) /\ Here = CallIn(Len(stack)) /\ LogOK
      /\ CutAt(Begun, Len(stack), Called(Len(stack)))
      /\ Id = CallOp(Len(stack))
      /\ Id \in DOMAIN log => IsOp(Op) /\ Op = log[Id] /\ Op.type = Type(Here.kind)
      /\ Id \notin DOMAIN log => Op = Absent
      /\ Ran(Len(stack))
  BY <1>1, CallIs, CallHasNotRan DEF ContextsInv
<1>3. IsOutcome(o) /\ o.error = "Suspend"
  BY FailedIs
<1>4. Returns(Len(stack), o)
  BY <1>2, <1>3, ReturnIs DEF Suspend
<1>5. CASE Decided = "suspend" /\ UNCHANGED log
  <2>1. Here.kind # "callback"
    BY <1>5 DEF Decided, Decision, CallbackDecision
  <2>2. Decision(Here.kind, Op) = "suspend"
    BY <1>5 DEF Decided
  <2>3. Id \in DOMAIN log
    <3> SUFFICES ASSUME Op = Absent PROVE FALSE
      BY <1>2
    <3> QED
      BY <1>1, <2>2
      DEF Durable, Absent, Decision, StepDecision, ConditionDecision, WaitDecision,
          CallbackDecision, ResultDecision, HasResult, InvokeDecision, Terminal
  <2>4. IsPending(log[Id])
    <3>1. IsOp(Op) /\ Op = log[Id] /\ Op.type = Type(Here.kind)
      BY <1>2, <2>3
    <3>2. CASE Here.kind \in {"atLeastOnce", "atMostOnce"}
      BY <2>2, <3>1, <3>2 DEF Decision, StepDecision, IsPending, Type
    <3>3. CASE Here.kind = "wait"
      BY <2>2, <3>1, <3>3 DEF Decision, WaitDecision, IsPending, Type, IsOp
    <3>4. CASE Here.kind = "result"
      BY <2>2, <3>1, <3>4 DEF Decision, ResultDecision, HasResult, IsPending, Type, IsOp
    <3>5. CASE Here.kind \in {"condition", "callback", "invoke"}
      BY <2>2, <3>5 DEF Decision, ConditionDecision, CallbackDecision, InvokeDecision, Type
    <3> QED
      BY <1>1, <3>2, <3>3, <3>4, <3>5 DEF Durable
  <2>5. Makes(Len(stack), o)
    BY <1>3, <1>5, <2>3, <2>4 DEF Makes, OwnOutcome, OwnErrors
  <2>6. CallIn(Len(stack)).kind \notin {"callback", "submit"}
    BY <1>1, <1>2, <2>1 DEF Durable
  <2> QED
    BY <2>1, <2>5, <2>6, <1>2, <1>3, <1>4, <1>5 DEF Calls, Replies, Suspend
<1>6. CASE /\ Decided = "start" /\ Here.kind \in {"wait", "invoke"}
           /\ Record(Id, Update(Type(Here.kind), "START", Nothing, 0))
  <2> DEFINE type == Type(Here.kind)
             u    == Update(type, "START", Nothing, 0)
             op   == Apply(Get(log, Id, Absent), u)
  <2>1. type \in {"WAIT", "INVOKE"}
    BY <1>6 DEF Type
  <2>2. /\ IsOp(op) /\ op.type = type /\ op.attempt = 0
        /\ op.status = "STARTED" /\ op.value = Nothing
    <3> HIDE DEF type
    <3> QED
      BY <2>1, ApplyStart
  <2>3. ASSUME Id \in DOMAIN log PROVE log[Id].type = type /\ log[Id].status = "STARTED"
    <3>1. IsOp(Op) /\ Op = log[Id] /\ Op.type = type
      BY <1>2, <2>3
    <3>2. CASE Here.kind = "wait"
      BY <3>1, <3>2, <2>1, <1>6 DEF IsOp, Decided, Decision, WaitDecision, Type
    <3>3. CASE Here.kind = "invoke"
      BY <3>1, <3>3, <2>1, <1>6 DEF IsOp, Decided, Decision, InvokeDecision, Type, Terminal
    <3> QED
      BY <3>1, <3>2, <3>3, <1>6
  <2>4. Id \in DOMAIN log => log[Id].status \notin Terminal /\ log[Id].attempt = 0
    BY <2>3, <1>2 DEF IsOp, LogOK, Terminal
  <2>5. Record(Id, u)
    BY <1>6
  <2>6. Records(Id, op) /\ Id \in DOMAIN log' /\ log'[Id] = op
    <3> HIDE DEF type, u
    <3>1. Id \in DOMAIN log => op.attempt >= log[Id].attempt
      BY <2>2, <2>4
    <3> HIDE DEF op
    <3> QED
      BY <1>2, <2>2, <2>3, <2>4, <2>5, <3>1, RecordIs DEF op
  <2>7. Id = CallId(Len(stack)) /\ TakesId(CallIn(Len(stack))) /\ CallIn(Len(stack)).kind # "nextId"
    BY <1>2, <1>6 DEF CallOp, TakesId
  <2>8. RecordsCall(Len(stack))
    <3> HIDE DEF op
    <3>1. Own(Len(stack), Id, op)
      BY <1>2, <2>2, <2>7, StartedIsOwn
    <3> QED
      BY <2>6, <3>1 DEF RecordsCall
  <2>9. Makes(Len(stack), o)
    <3> HIDE DEF op
    <3>1. IsPending(log'[Id])
      BY <2>1, <2>2, <2>6 DEF IsPending
    <3> QED
      BY <1>3, <2>6, <3>1 DEF Makes, OwnOutcome, OwnErrors
  <2> QED
    BY <2>8, <2>9, <1>2, <1>3, <1>4, <1>6 DEF Calls, Replies, Suspend
<1> QED
  BY <1>5, <1>6 DEF Suspend

LEMMA CreateCallbackCalls ==
  ASSUME ContextsInv, OwnContexts, CreateCallback
  PROVE  Calls(Len(stack))
<1> DEFINE o  == Success(Nothing)
           u  == Update("CALLBACK", "START", Nothing, 0)
           op == Apply(Get(log, Id, Absent), u)
<1>1. At("call") /\ Here.kind = "callback" /\ Here.kind \in Guarded
  BY DEF CreateCallback, Calling, Guarded, Durable
<1>2. /\ StackOK /\ Going(Len(stack)) /\ Here = CallIn(Len(stack)) /\ LogOK
      /\ CutAt(Begun, Len(stack), Called(Len(stack)))
      /\ Id = CallOp(Len(stack))
      /\ Id \in DOMAIN log => IsOp(Op) /\ Op = log[Id] /\ Op.type = Type(Here.kind)
  BY <1>1, CallIs DEF ContextsInv
<1>3. IsOutcome(o) /\ o.error # "Suspend"
  BY SuccessIs
<1>4. Return(Begun, o)
  BY DEF CreateCallback, Finish
<1>5. Returns(Len(stack), o)
  <2> HIDE DEF o
  <2> QED
    BY <1>2, <1>3, <1>4, ReturnIs DEF CreateCallback
<1>6. Id \notin DOMAIN log
  <2> SUFFICES ASSUME Id \in DOMAIN log PROVE FALSE
    OBVIOUS
  <2>1. Op.status # "NONE" /\ Op.type = "CALLBACK"
    BY <1>1, <1>2 DEF IsOp, Type
  <2> QED
    BY <2>1, <1>1 DEF CreateCallback, Decided, Decision, CallbackDecision, Type
<1>7. IsOp(op) /\ op.type = "CALLBACK" /\ op.status = "STARTED" /\ op.attempt = 0
      /\ op.value = Nothing
  BY ApplyStart
<1>8. Records(Id, op) /\ Id \in DOMAIN log' /\ log'[Id] = op
  <2>1. Record(Id, u)
    BY DEF CreateCallback
  <2> HIDE DEF u
  <2>2. op = Apply(Get(log, Id, Absent), u)
    OBVIOUS
  <2> HIDE DEF op
  <2> QED
    BY <1>2, <1>6, <1>7, <2>1, <2>2, RecordIs
<1>9. Id = CallId(Len(stack)) /\ TakesId(CallIn(Len(stack)))
  BY <1>1, <1>2 DEF CallOp, TakesId
<1>10. RecordsCall(Len(stack))
  <2> HIDE DEF op
  <2> QED
    <3>1. Own(Len(stack), Id, op)
      BY <1>1, <1>2, <1>7, <1>9, StartedIsOwn DEF Type
    <3> QED
      BY <1>8, <3>1 DEF RecordsCall
<1>11. Told(Len(stack), o)
  <2>1. Decision("callback", op) = "replay"
    BY <1>7 DEF Decision, CallbackDecision, Type
  <2>2. Same(o, Replayed("callback", op))
    BY DEF Same, Replayed
  <2> HIDE DEF op, o
  <2> QED
    BY <1>1, <1>2, <1>6, <1>8, <2>1, <2>2 DEF Told, Agreed
<1>12. Makes(Len(stack), o) /\ Ran(Len(stack))
  BY <1>1, SuccessIs, OwnErrorMakes, CallHasNotRan DEF OwnOutcome, OwnErrors
<1> QED
  BY <1>3, <1>5, <1>10, <1>11, <1>12 DEF Calls, Replies, CreateCallback

LEMMA TakeIdCalls ==
  ASSUME ContextsInv, OwnContexts, TakeId
  PROVE  Calls(Len(stack))
<1> DEFINE o == Success(Id)
<1>1. At("call") /\ Here.kind = "nextId"
  BY DEF TakeId, Calling
<1>2. /\ StackOK /\ Going(Len(stack)) /\ Here = CallIn(Len(stack))
      /\ CutAt(Begun, Len(stack), Called(Len(stack)))
      /\ Id = CallOp(Len(stack))
  BY <1>1, CallIs DEF ContextsInv
<1>3. IsOutcome(o) /\ o.error # "Suspend"
  BY SuccessIs
<1>4. Return(Begun, o)
  BY DEF TakeId
<1>5. Returns(Len(stack), o)
  <2> HIDE DEF o
  <2> QED
    BY <1>2, <1>3, <1>4, ReturnIs DEF TakeId
<1>6. Told(Len(stack), o)
  BY <1>1, <1>2 DEF Told, Agreed, CallOp, Same, Guarded, Durable
<1>7. Makes(Len(stack), o) /\ Ran(Len(stack))
  BY <1>1, SuccessIs, FailedIs, OwnErrorMakes, CallHasNotRan DEF OwnOutcome, OwnErrors
<1> QED
  BY <1>1, <1>2, <1>3, <1>5, <1>6, <1>7 DEF Calls, Replies, TakeId

LEMMA CompleteExecutionCalls ==
  ASSUME ContextsInv, OwnContexts, CompleteExecution
  PROVE  Calls(Len(stack))
<1> DEFINE o == IF Here.big /\ ~ExecutionListed THEN Failed("Validation") ELSE Success(Nothing)
<1>1. At("call") /\ Here.kind = "complete"
  BY DEF CompleteExecution, Calling
<1>2. /\ StackOK /\ Going(Len(stack)) /\ Here = CallIn(Len(stack))
      /\ CutAt(Begun, Len(stack), Called(Len(stack)))
  BY <1>1, CallIs DEF ContextsInv
<1>3. IsOutcome(o) /\ o.error # "Suspend"
  BY SuccessIs, FailedIs
<1>4. Return(Begun, o)
  BY DEF CompleteExecution
<1>5. Returns(Len(stack), o)
  <2> HIDE DEF o
  <2> QED
    BY <1>2, <1>3, <1>4, ReturnIs DEF CompleteExecution
<1>6. Told(Len(stack), o)
  BY <1>1, <1>2 DEF Told, Agreed, Same, Guarded, Durable
<1>7. Makes(Len(stack), o) /\ Ran(Len(stack))
  BY <1>1, SuccessIs, FailedIs, OwnErrorMakes, CallHasNotRan DEF OwnOutcome, OwnErrors
<1> QED
  BY <1>1, <1>2, <1>3, <1>5, <1>6, <1>7 DEF Calls, Replies, CompleteExecution

LEMMA ReplayChildCalls ==
  ASSUME ContextsInv, OwnContexts, ReplayChild
  PROVE  Calls(Len(stack))
<1> DEFINE o == IF Op.value = Summary THEN Failed("SerDes") ELSE Replayed("child", Op)
<1>1. At("call") /\ Here.kind = "child" /\ Here.kind \in Guarded
  BY DEF ReplayChild, Calling, Guarded
<1>2. /\ StackOK /\ Going(Len(stack)) /\ Here = CallIn(Len(stack))
      /\ CutAt(Begun, Len(stack), Called(Len(stack)))
      /\ Id = CallOp(Len(stack)) /\ Decided = "replay"
      /\ Id \in DOMAIN log => Op = log[Id]
      /\ Id \notin DOMAIN log => Op = Absent
  BY <1>1, CallIs DEF ContextsInv, ReplayChild
<1>3. Id \in DOMAIN log /\ Op = log[Id]
  BY <1>1, <1>2, AbsentIsNotReplayed DEF Decided
<1>4. IsOutcome(o) /\ o.error # "Suspend"
  BY ReplayedIs, FailedIs
<1>5. Return(Begun, o) /\ log' = log /\ UNCHANGED <<handler, invocation, crashes, runs>>
  BY <1>2 DEF ReplayChild
<1>6. Returns(Len(stack), o)
  <2> HIDE DEF o
  <2> QED
    BY <1>2, <1>4, <1>5, ReturnIs
<1>7. Told(Len(stack), o)
  <2>1. Op.value = Summary => o.error = "SerDes"
    BY FailedIs
  <2>2. Op.value # Summary => Same(o, Replayed("child", Op))
    BY DEF Same
  <2> HIDE DEF o
  <2> QED
    BY <1>1, <1>2, <1>3, <1>5, <2>1, <2>2 DEF Told, Agreed, Decided
<1>8. Makes(Len(stack), o)
  <2>1. Op.value = Summary \/ OwnOutcome(o)
    BY DEF Replayed, Success, Failed, OwnOutcome, OwnErrors
  <2>2. Id = CallId(Len(stack))
    BY <1>1, <1>2 DEF CallOp
  <2> HIDE DEF o
  <2> QED
    BY <1>1, <1>2, <1>3, <1>4, <2>1, <2>2 DEF Makes
<1>9. Ran(Len(stack))
  BY <1>1, CallHasNotRan
<1> HIDE DEF o
<1> QED
  BY <1>1, <1>2, <1>4, <1>5, <1>6, <1>7, <1>8, <1>9 DEF Calls, Replies

LEMMA CancelWaitCalls ==
  ASSUME ContextsInv, OwnContexts, CancelWait
  PROVE  Calls(Len(stack))
<1>1. At("call") /\ Here.kind = "cancel"
  BY DEF CancelWait, Calling
<1>2. /\ StackOK /\ Going(Len(stack)) /\ Here = CallIn(Len(stack)) /\ LogOK
      /\ CutAt(Begun, Len(stack), Called(Len(stack)))
      /\ Id \in DOMAIN log => IsOp(Op) /\ Op = log[Id]
      /\ Id \notin DOMAIN log => Op = Absent
  BY <1>1, CallIs DEF ContextsInv
<1>3. PICK o \in {Success(Nothing), Failed("Validation")} :
        /\ Return(Begun, o)
        /\ \/ log' = log
           \/ /\ Op.type = "WAIT" /\ Op.status \notin Terminal
              /\ Record(Id, Update("WAIT", "CANCEL", Nothing, 0))
  BY DEF CancelWait
<1>4. IsOutcome(o) /\ o.error # "Suspend"
  BY SuccessIs, FailedIs
<1>5. Returns(Len(stack), o)
  BY <1>2, <1>3, <1>4, ReturnIs DEF CancelWait
<1>6. Told(Len(stack), o)
  BY <1>1, <1>2 DEF Told, Agreed, Guarded, Durable
<1>7. ASSUME Op.type = "WAIT", Op.status \notin Terminal,
             Record(Id, Update("WAIT", "CANCEL", Nothing, 0))
      PROVE  RecordsCall(Len(stack))
  <2> DEFINE u  == Update("WAIT", "CANCEL", Nothing, 0)
             op == Apply(Get(log, Id, Absent), u)
  <2>1. Id \in DOMAIN log /\ IsOp(Op) /\ Op = log[Id] /\ Get(log, Id, Absent) = Op
    BY <1>2, <1>7 DEF Absent, Get
  <2>2. DOMAIN Op = {"type", "status", "value", "attempt"} /\ Op.attempt \in Nat
    BY <2>1 DEF IsOp
  <2>3. op = [Op EXCEPT !.type = "WAIT", !.status = "CANCELLED"]
    BY <2>1 DEF Apply, Update
  <2>4. /\ op = [x \in DOMAIN op |-> op[x]] /\ DOMAIN op = DOMAIN Op
        /\ op.type = "WAIT" /\ op.status = "CANCELLED" /\ op.attempt = Op.attempt
    BY <2>2, <2>3
  <2>5. Record(Id, u) /\ op = Apply(Get(log, Id, Absent), u)
    BY <1>7
  <2> HIDE DEF op, u
  <2>6. op = [type |-> op.type, status |-> op.status, value |-> op.value, attempt |-> op.attempt]
    BY <2>2, <2>4, OpFields
  <2>7. IsOp(op)
    BY <2>2, <2>4, <2>6 DEF IsOp
  <2>8. Records(Id, op)
    BY <1>2, <1>7, <2>1, <2>2, <2>4, <2>5, <2>7, RecordIs
  <2> QED
    BY <2>1, <2>4, <2>8, <1>7 DEF RecordsCall, Cancels
<1>8. Makes(Len(stack), o) /\ Ran(Len(stack))
  <2>1. (o.ok = TRUE \/ o.error = "Validation") /\ o.error # "Suspend"
    BY <1>3, SuccessIs, FailedIs
  <2> QED
    BY <1>1, <2>1, OwnErrorMakes, CallHasNotRan DEF OwnOutcome, OwnErrors
<1> QED
  BY <1>1, <1>2, <1>3, <1>4, <1>5, <1>6, <1>7, <1>8 DEF Calls, Replies, CancelWait

LEMMA CancelTooLateCalls ==
  ASSUME ContextsInv, OwnContexts, CancelTooLate
  PROVE  Calls(Len(stack))
<1> DEFINE o  == Failed("Checkpoint")
           op == [Op EXCEPT !.status = "SUCCEEDED"]
<1>1. /\ At("call") /\ Here.kind = "cancel" /\ Op.type = "WAIT" /\ Op.status \notin Terminal
      /\ log' = Put(log, Id, op) /\ Return(Begun, o)
  BY DEF CancelTooLate, Calling
<1>2. /\ StackOK /\ Going(Len(stack)) /\ Here = CallIn(Len(stack)) /\ LogOK
      /\ CutAt(Begun, Len(stack), Called(Len(stack)))
      /\ Id \in DOMAIN log => IsOp(Op) /\ Op = log[Id]
      /\ Id \notin DOMAIN log => Op = Absent
  BY <1>1, CallIs DEF ContextsInv
<1>3. Id \in DOMAIN log /\ IsOp(Op) /\ Op = log[Id]
  BY <1>1, <1>2 DEF Absent
<1>4. DOMAIN Op = {"type", "status", "value", "attempt"} /\ Op.attempt \in Nat
  BY <1>3 DEF IsOp
<1>5. /\ op = [x \in DOMAIN op |-> op[x]] /\ DOMAIN op = DOMAIN Op
      /\ op.type = "WAIT" /\ op.status = "SUCCEEDED" /\ op.attempt = Op.attempt
  BY <1>1, <1>4
<1>6. IsOp(op)
  <2> HIDE DEF op
  <2>1. op = [type |-> op.type, status |-> op.status, value |-> op.value,
              attempt |-> op.attempt]
    BY <1>4, <1>5, OpFields
  <2> QED
    BY <1>4, <1>5, <2>1 DEF IsOp
<1>7. RecordsCall(Len(stack))
  <2> HIDE DEF op
  <2>1. Evolves(log[Id], op)
    BY <1>1, <1>3, <1>4, <1>5 DEF Evolves, CurrentAttempt
  <2>2. Records(Id, op)
    BY <1>1, <1>6, <2>1 DEF Records
  <2> QED
    BY <1>1, <1>3, <1>5, <2>2 DEF RecordsCall, Cancels
<1>8. IsOutcome(o) /\ o.error # "Suspend"
  BY FailedIs
<1>9. Returns(Len(stack), o)
  <2> HIDE DEF o
  <2> QED
    BY <1>1, <1>2, <1>8, ReturnIs DEF CancelTooLate
<1>10. Told(Len(stack), o)
  BY <1>1, <1>2 DEF Told, Agreed, Guarded, Durable
<1>11. Makes(Len(stack), o) /\ Ran(Len(stack))
  BY <1>1, FailedIs, OwnErrorMakes, CallHasNotRan DEF OwnOutcome, OwnErrors
<1> QED
  BY <1>1, <1>2, <1>7, <1>8, <1>9, <1>10, <1>11 DEF Calls, Replies, CancelTooLate

-----------------------------------------------------------------------------
(* User code that ends.                                                    *)

LEMMA RunIs ==
  ASSUME ContextsInv, At("run")
  PROVE  /\ StackOK /\ LogOK /\ Going(Len(stack)) /\ Here = CallIn(Len(stack))
         /\ Here.kind \in UserCode
         /\ CutAt(stack, Len(stack), Called(Len(stack)))
         /\ Here.kind # "submit" =>
              /\ TakesId(Here) /\ Running = CallId(Len(stack))
              /\ Open("STEP", Get(log, CallId(Len(stack)), Absent))
<1> SUFFICES ASSUME NEW L, L = Len(stack)
             PROVE  /\ StackOK /\ LogOK /\ Going(L) /\ Here = CallIn(L)
                    /\ Here.kind \in UserCode
                    /\ CutAt(stack, L, Called(L))
                    /\ Here.kind # "submit" =>
                         /\ TakesId(Here) /\ Running = CallId(L)
                         /\ Open("STEP", Get(log, CallId(L), Absent))
  OBVIOUS
<1>1. StackOK /\ LogOK /\ pc = "run"
  BY DEF ContextsInv, At
<1>2. L \in Nat \ {0} /\ Going(L) /\ Here = CallIn(L) /\ Top = stack[L]
  BY <1>1, TopGoes
<1>3. Here.kind \in UserCode
  BY <1>1, <1>2 DEF StackOK
<1>4. FrameOK(L) /\ Made(L) = Position(L)
  BY <1>1, <1>2 DEF StackOK, Made
<1>5. stack[L] = Called(L)
  BY <1>4 DEF FrameOK, Called
<1>6. CutAt(stack, L, Called(L))
  BY <1>1, <1>5 DEF CutAt, StackOK
<1>7. ASSUME Here.kind # "submit" PROVE TakesId(Here) /\ Running = CallId(L)
  <2>1. TakesId(Here)
    BY <1>3, <1>7 DEF TakesId, UserCode
  <2>2. Top.ids = IdsOf(ContextId(L), stack[L].body, Position(L))
    BY <1>2, <1>5 DEF Called, FrameOf
  <2>3. Position(L) \in Nat \ {0}
    BY <1>1, <1>2, FrameIs DEF Position
  <2>4. Len(Top.ids) = Position(L)
    BY <2>2, <2>3, IdsAre
  <2>5. Running = Top.ids[Position(L)]
    BY <2>4 DEF Running, Last
  <2> QED
    BY <1>2, <2>1, <2>2, <2>3, <2>5 DEF IdsOf, CallIn, CallId
<1>8. ASSUME Here.kind # "submit" PROVE Open("STEP", Get(log, CallId(L), Absent))
  <2>1. CASE CallId(L) \in DOMAIN log
    BY <2>1, <1>1, <1>2, <1>8 DEF ContextsInv, OpenInv, LogOK, Open, Get
  <2>2. CASE CallId(L) \notin DOMAIN log
    <3>1. Get(log, CallId(L), Absent) = Absent
      BY <2>2 DEF Get
    <3> QED
      BY <3>1 DEF Open
  <2> QED
    BY <2>1, <2>2
<1> QED
  BY <1>1, <1>2, <1>3, <1>6, <1>7, <1>8

\* The code of a step or a condition ends, and what it makes of the operation is recorded.
LEMMA CodeEnds ==
  ASSUME ContextsInv, At("run"), Here.kind # "submit",
         NEW u, Record(Running, u), NEW op, op = Apply(Get(log, Running, Absent), u),
         IsOp(op), op.type = "STEP", op.attempt >= Get(log, Running, Absent).attempt,
         NEW o, IsOutcome(o), Return(stack, o), UNCHANGED <<handler, invocation, crashes, runs>>,
         o.error # "Suspend" =>
           Decision(Here.kind, op) = "replay" /\ Same(o, Replayed(Here.kind, op)),
         o.error = "Suspend" => IsPending(op),
         \/ OwnOutcome(o)
         \/ Here.kind \in {"atLeastOnce", "atMostOnce"} /\ o \in Here.ends,
         \/ op.attempt = Get(log, Running, Absent).attempt
         \/ CurrentAttempt(op) <= Here.attempts,
         \/ op.status \in Terminal
         \/ /\ Here.kind = "condition"
            /\ CurrentAttempt(op) = CurrentAttempt(Get(log, Running, Absent)) + 1
  PROVE  Calls(Len(stack))
<1> SUFFICES ASSUME NEW L, L = Len(stack)
             PROVE  (\E q : Replies(L, q) /\ Makes(L, q)) /\ RecordsCall(L) /\ Ran(L)
  BY DEF Calls
<1>1. /\ StackOK /\ LogOK /\ Going(L) /\ Here = CallIn(L) /\ Here.kind \in UserCode
      /\ CutAt(stack, L, Called(L))
      /\ TakesId(Here) /\ Running = CallId(L)
      /\ Open("STEP", Get(log, Running, Absent))
  BY RunIs
<1>2. Returns(L, o)
  BY <1>1, ReturnIs
<1>3. Records(Running, op) /\ Running \in DOMAIN log' /\ log'[Running] = op
  <2>1. ASSUME Running \in DOMAIN log
        PROVE  /\ log[Running].status \notin Terminal /\ log[Running].type = op.type
               /\ op.attempt >= log[Running].attempt
    BY <1>1, <2>1 DEF Open, Get, Absent, LogOK, IsOp
  <2> QED
    BY <1>1, <2>1, RecordIs
<1>4. Here.kind \in {"atLeastOnce", "atMostOnce", "condition"}
  BY <1>1 DEF UserCode
<1>5. RecordsCall(L)
  <2>1. Own(L, Running, op)
    BY <1>1, <1>4 DEF Own, Type
  <2> QED
    BY <1>3, <2>1 DEF RecordsCall
<1>6. ASSUME o.error # "Suspend" PROVE Told(L, o)
  <2>1. CallOp(L) = Running
    BY <1>1, <1>4 DEF CallOp
  <2>2. ASSUME Running \in DOMAIN log PROVE Decision(Here.kind, log[Running]) # "replay"
    <3>1. log[Running].type = "STEP" /\ log[Running].status \notin Terminal
      BY <1>1, <2>2 DEF Open, Get, Absent, LogOK, IsOp
    <3> QED
      BY <1>4, <3>1 DEF Decision, StepDecision, ConditionDecision, Terminal, Type
  <2> QED
    BY <1>1, <1>3, <1>4, <1>6, <2>1, <2>2 DEF Told, Agreed
<1>7. Replies(L, o)
  BY <1>1, <1>2, <1>4, <1>6 DEF Replies
<1>8. Makes(L, o)
  BY <1>1, <1>3 DEF Makes
<1>9. Ran(L)
  BY <1>1, <1>3 DEF Ran
<1> QED
  BY <1>5, <1>7, <1>8, <1>9

LEMMA StepEndsCalls ==
  ASSUME ContextsInv, StepEnds
  PROVE  Calls(Len(stack))
<1>1. At("run") /\ Here.kind \in {"atLeastOnce", "atMostOnce"}
  BY DEF StepEnds
<1>2. PICK end \in Here.ends : Record(Running, Outcome("STEP", end)) /\ Return(stack, end)
  BY DEF StepEnds, Finish
<1>3. /\ StackOK /\ Going(Len(stack)) /\ Here = CallIn(Len(stack))
      /\ Open("STEP", Get(log, Running, Absent))
  BY <1>1, RunIs
<1>4. IsOutcome(end) /\ end.error # "Suspend" /\ (end.ok => end.value # Nothing)
  BY <1>1, <1>3, CallIsLegal
<1> DEFINE old == Get(log, Running, Absent)
<1>5. old.attempt \in Nat
  BY <1>3, OpenDomain
<1>6. CASE end.ok
  <2> DEFINE u  == Update("STEP", "SUCCEED", end.value, 0)
             op == Apply(old, u)
  <2>1. Record(Running, u)
    BY <1>2, <1>6 DEF Outcome
  <2>2. /\ IsOp(op) /\ op.type = "STEP" /\ op.status = "SUCCEEDED" /\ op.value = end.value
        /\ op.attempt = old.attempt
    BY <1>3, <1>4, <1>6, ApplySucceed
  <2>3. Decision(Here.kind, op) = "replay" /\ Same(end, Replayed(Here.kind, op))
    <3> HIDE DEF op
    <3>1. Replayed(Here.kind, op) = Success(end.value)
      BY <1>1, <1>4, <1>6, <2>2 DEF Replayed, HasResult
    <3>2. Decision(Here.kind, op) = "replay"
      BY <1>1, <2>2 DEF Decision, StepDecision, Terminal, Type
    <3> QED
      BY <1>6, <3>1, <3>2 DEF Same, Success
  <2>4. op.attempt >= old.attempt /\ op.status \in Terminal
    BY <1>5, <2>2 DEF Terminal
  <2>5. op = Apply(Get(log, Running, Absent), u)
    OBVIOUS
  <2> HIDE DEF op, u
  <2> QED
    BY <1>1, <1>2, <1>4, <2>1, <2>2, <2>2, <2>3, <2>4, <2>5, CodeEnds DEF StepEnds
<1>7. CASE ~end.ok
  <2> DEFINE u  == Update("STEP", "FAIL", Nothing, 0)
             op == Apply(old, u)
  <2>1. Record(Running, u)
    BY <1>2, <1>7 DEF Outcome
  <2>2. IsOp(op) /\ op.type = "STEP" /\ op.status = "FAILED" /\ op.attempt = old.attempt
    BY <1>3, ApplyFail
  <2>3. Decision(Here.kind, op) = "replay" /\ Same(end, Replayed(Here.kind, op))
    <3> HIDE DEF op
    <3>1. Replayed(Here.kind, op) = Failed("UserCode")
      BY <1>1, <2>2 DEF Replayed, HasResult
    <3>2. Decision(Here.kind, op) = "replay"
      BY <1>1, <2>2 DEF Decision, StepDecision, Terminal, Type
    <3>3. end = Failed(end.error)
      BY <1>4, <1>7 DEF IsOutcome, Success
    <3>4. end.ok = FALSE /\ end.value = Nothing
      BY <3>3, FailedIs
    <3> QED
      BY <3>1, <3>2, <3>4, FailedIs DEF Same
  <2>4. op.attempt >= old.attempt /\ op.status \in Terminal
    BY <1>5, <2>2 DEF Terminal
  <2>5. op = Apply(Get(log, Running, Absent), u)
    OBVIOUS
  <2> HIDE DEF op, u
  <2> QED
    BY <1>1, <1>2, <1>4, <2>1, <2>2, <2>2, <2>3, <2>4, <2>5, CodeEnds DEF StepEnds
<1> QED
  BY <1>6, <1>7

LEMMA ConditionMetCalls ==
  ASSUME ContextsInv, ConditionMet
  PROVE  Calls(Len(stack))
<1> DEFINE old == Get(log, Running, Absent)
           u   == Update("STEP", "SUCCEED", A, 0)
           op  == Apply(old, u)
           o   == Success(A)
<1>1. At("run") /\ Here.kind = "condition"
  BY DEF ConditionMet
<1>2. Open("STEP", old) /\ old.attempt \in Nat
  BY <1>1, RunIs, OpenDomain
<1>3. IsOutcome(o) /\ o.ok /\ o.value = A /\ A # Nothing
  BY SuccessIs DEF A, Nothing
<1>4. Record(Running, u) /\ Return(stack, o)
  BY DEF ConditionMet, Outcome, Finish, Success
<1>5. /\ IsOp(op) /\ op.type = "STEP" /\ op.status = "SUCCEEDED" /\ op.value = A
      /\ op.attempt = old.attempt
  BY <1>2, <1>3, ApplySucceed
<1>6. op = Apply(Get(log, Running, Absent), u)
  OBVIOUS
<1> HIDE DEF op, u
<1>7. Decision(Here.kind, op) = "replay" /\ Same(o, Replayed(Here.kind, op))
  BY <1>1, <1>3, <1>5 DEF Decision, ConditionDecision, Type, Replayed, HasResult, Same
<1>8. op.attempt >= old.attempt /\ op.status \in Terminal
  BY <1>2, <1>5 DEF Terminal
<1>9. OwnOutcome(o) /\ o.error # "Suspend"
  BY SuccessIs DEF OwnOutcome, OwnErrors
<1> QED
  BY <1>1, <1>3, <1>4, <1>5, <1>6, <1>7, <1>8, <1>9, CodeEnds DEF ConditionMet

LEMMA ConditionNotMetCalls ==
  ASSUME ContextsInv, ConditionNotMet
  PROVE  Calls(Len(stack))
<1> DEFINE old     == Get(log, Running, Absent)
           attempt == CurrentAttempt(old)
<1>1. At("run") /\ Here.kind = "condition"
  BY DEF ConditionNotMet
<1>2. Open("STEP", old) /\ old.attempt \in Nat
  BY <1>1, RunIs, OpenDomain
<1>5. Here.attempts \in Nat
  BY <1>1, RunIs, CallIsLegal
<1>3. CASE attempt >= Here.attempts
  <2> DEFINE u  == Update("STEP", "FAIL", Nothing, 0)
             op == Apply(old, u)
             o  == Failed("Execution")
  <2>1. Record(Running, u) /\ Return(stack, o)
    BY <1>3 DEF ConditionNotMet
  <2>2. IsOp(op) /\ op.type = "STEP" /\ op.status = "FAILED" /\ op.attempt = old.attempt
    BY <1>2, ApplyFail
  <2>3. op = Apply(Get(log, Running, Absent), u)
    OBVIOUS
  <2> HIDE DEF op, u
  <2>4. Decision(Here.kind, op) = "replay"
    BY <1>1, <2>2 DEF Decision, ConditionDecision, Type
  <2>6. Replayed(Here.kind, op) = Failed("UserCode")
    BY <1>1, <2>2 DEF Replayed, HasResult
  <2>7. IsOutcome(o) /\ Same(o, Replayed(Here.kind, op))
    <3> HIDE DEF o
    <3>1. IsOutcome(o) /\ o.ok = FALSE /\ o.value = Nothing
      BY FailedIs DEF o
    <3> QED
      BY <2>6, <3>1, FailedIs DEF Same
  <2>5. op.attempt >= old.attempt /\ op.status \in Terminal
    BY <1>2, <2>2 DEF Terminal
  <2>8. OwnOutcome(o) /\ o.error # "Suspend"
    BY FailedIs DEF OwnOutcome, OwnErrors
  <2> QED
    BY <1>1, <2>1, <2>2, <2>3, <2>4, <2>5, <2>7, <2>8, CodeEnds DEF ConditionNotMet
<1>4. CASE ~(attempt >= Here.attempts)
  <2> DEFINE u  == Update("STEP", "RETRY", Nothing, attempt + 1)
             op == Apply(old, u)
             o  == Failed("Suspend")
  <2>1. Record(Running, u) /\ Return(stack, o)
    BY <1>4 DEF ConditionNotMet
  <2>2. attempt + 1 \in Nat \ {0} /\ attempt + 1 >= old.attempt /\ attempt + 1 <= Here.attempts
    BY <1>2, <1>4, <1>5 DEF CurrentAttempt
  <2>3. IsOp(op) /\ op.type = "STEP" /\ op.attempt = attempt + 1 /\ op.status = "PENDING"
    <3> HIDE DEF attempt
    <3> QED
      BY <1>2, <2>2, ApplyRetry
  <2>4. op = Apply(Get(log, Running, Absent), u)
    OBVIOUS
  <2>5. IsOutcome(o) /\ o.error = "Suspend"
    BY FailedIs
  <2>6. op.attempt >= old.attempt /\ CurrentAttempt(op) = attempt + 1
    <3> HIDE DEF op, attempt
    <3> QED
      BY <2>2, <2>3 DEF CurrentAttempt
  <2>7. IsPending(op) /\ OwnOutcome(o)
    BY <2>3, <2>5 DEF IsPending, OwnOutcome, OwnErrors
  <2> HIDE DEF op, u
  <2> QED
    BY <1>1, <2>1, <2>2, <2>3, <2>4, <2>5, <2>6, <2>7, CodeEnds DEF ConditionNotMet
<1> QED
  BY <1>3, <1>4

LEMMA SubmittedCalls ==
  ASSUME ContextsInv, Submitted
  PROVE  Calls(Len(stack))
<1>1. At("run") /\ Here.kind = "submit"
  BY DEF Submitted
<1>2. PICK end \in Here.ends : Return(stack, end)
  BY DEF Submitted
<1>3. /\ StackOK /\ Going(Len(stack)) /\ Here = CallIn(Len(stack))
      /\ CutAt(stack, Len(stack), Called(Len(stack)))
  BY <1>1, RunIs
<1>4. IsOutcome(end) /\ end.error # "Suspend"
  BY <1>1, <1>3, CallIsLegal
<1>5. Returns(Len(stack), end)
  BY <1>2, <1>3, <1>4, ReturnIs DEF Submitted
<1>6. Told(Len(stack), end)
  BY <1>1, <1>3 DEF Told, Agreed, Guarded, Durable
<1>7. Makes(Len(stack), end) /\ Ran(Len(stack))
  BY <1>1, <1>2, <1>3, <1>4 DEF Makes, Ran
<1> QED
  BY <1>1, <1>3, <1>4, <1>5, <1>6, <1>7 DEF Calls, Replies, Submitted

-----------------------------------------------------------------------------
(* User code that begins.                                                  *)

\* The innermost context begins to run the user code of its call.
Starts ==
  /\ Begins
  /\ log' = log \/ RecordsCall(Len(stack))
  /\ CallIn(Len(stack)).kind # "submit" /\ CallId(Len(stack)) \in DOMAIN log' =>
       /\ log'[CallId(Len(stack))].type = "STEP"
       /\ log'[CallId(Len(stack))].status \notin Terminal
  /\ runs' = Put(runs, Path, Get(runs, Path, 0) + 1)
  /\ UNCHANGED crashes

LEMMA BeginStarts ==
  ASSUME ContextsInv, OwnContexts, Begin
  PROVE  Starts
<1>1. At("call") /\ Here.kind \in {"atLeastOnce", "atMostOnce", "condition"}
  BY DEF Begin, Calling
<1>2. /\ StackOK /\ Going(Len(stack)) /\ Here = CallIn(Len(stack)) /\ LogOK
      /\ CutAt(Begun, Len(stack), Called(Len(stack)))
      /\ Id = CallId(Len(stack)) /\ TakesId(Here)
      /\ Id \in DOMAIN log => IsOp(Op) /\ Op = log[Id] /\ Op.type = "STEP"
  BY <1>1, CallIs DEF ContextsInv, Guarded, Durable, CallOp, TakesId, Type
<1>3. /\ Begins
      /\ runs' = Put(runs, Path, Get(runs, Path, 0) + 1) /\ UNCHANGED crashes
  BY <1>1, <1>2 DEF Begin, BeginUserCode, Begins, UserCode, At
<1>4. ASSUME Id \in DOMAIN log PROVE log[Id].status \notin Terminal
  <2>1. Decision(Here.kind, Op) \in {"start", "run"} /\ Op.type = "STEP"
        /\ Op.status \in {"STARTED", "PENDING", "READY", "SUCCEEDED", "FAILED"}
    BY <1>2, <1>4 DEF Begin, Decided, IsOp
  <2>2. Op.status \notin Terminal
    BY <1>1, <2>1 DEF Decision, StepDecision, ConditionDecision, Terminal, Type
  <2> QED
    BY <1>2, <1>4, <2>2
<1>5. CASE Decided # "start"
  <2>1. log' = log
    BY <1>5 DEF Begin
  <2> QED
    BY <1>2, <1>3, <1>4, <2>1 DEF Starts
<1>6. CASE Decided = "start"
  <2> DEFINE u  == Update("STEP", "START", Nothing, 0)
             op == Apply(Get(log, Id, Absent), u)
  <2>1. Record(Id, u)
    BY <1>6 DEF Begin
  <2>2. /\ IsOp(op) /\ op.type = "STEP" /\ op.status = "STARTED" /\ op.attempt = 0
        /\ op.value = Nothing
    BY ApplyStart
  <2>3. op = Apply(Get(log, Id, Absent), u)
    OBVIOUS
  <2> HIDE DEF op, u
  <2>4. ASSUME Id \in DOMAIN log PROVE log[Id].attempt = 0
    <3>1. Decision(Here.kind, Op) = "start" /\ Op.type = "STEP"
          /\ Op.status \in {"STARTED", "PENDING", "READY", "SUCCEEDED", "FAILED"}
      BY <1>2, <1>6, <2>4 DEF Decided, IsOp
    <3>2. Op.status \notin {"PENDING", "READY"} /\ Op.status \notin Terminal
      BY <1>1, <1>2, <1>4, <2>4, <3>1
      DEF Decision, StepDecision, ConditionDecision, Terminal, Type
    <3>3. Op.status = "STARTED"
      BY <3>1, <3>2 DEF Terminal
    <3> QED
      BY <1>2, <2>4, <3>3 DEF IsOp
  <2>5. Records(Id, op) /\ Id \in DOMAIN log' /\ log'[Id] = op
    BY <1>2, <1>4, <2>1, <2>2, <2>3, <2>4, RecordIs
  <2>6. RecordsCall(Len(stack))
    <3>1. Own(Len(stack), Id, op)
      BY <1>1, <1>2, <2>2, StartedIsOwn DEF Type
    <3> QED
      BY <2>5, <3>1 DEF RecordsCall
  <2> QED
    BY <1>2, <1>3, <2>2, <2>5, <2>6 DEF Starts, Terminal
<1> QED
  BY <1>5, <1>6

LEMMA SubmitStarts ==
  ASSUME ContextsInv, OwnContexts, Submit
  PROVE  Starts
<1>1. At("call") /\ Here.kind = "submit"
  BY DEF Submit, Calling
<1>2. /\ Going(Len(stack)) /\ Here = CallIn(Len(stack))
      /\ CutAt(Begun, Len(stack), Called(Len(stack)))
  BY <1>1, CallIs
<1> QED
  BY <1>1, <1>2 DEF Starts, Submit, BeginUserCode, Begins, UserCode, At

-----------------------------------------------------------------------------
(* Child contexts that are entered and left.                               *)

\* The innermost context enters the child context of its call.
EntersChild ==
  /\ Enters
  /\ log' = log \/ RecordsCall(Len(stack))
  /\ CallId(Len(stack)) \in DOMAIN log'
  /\ log'[CallId(Len(stack))].type = "CONTEXT"
  /\ log'[CallId(Len(stack))].status \notin Terminal
  /\ UNCHANGED <<crashes, runs>>

LEMMA EnterChildEnters ==
  ASSUME ContextsInv, OwnContexts, EnterChild
  PROVE  EntersChild
<1> SUFFICES ASSUME NEW L, L = Len(stack) PROVE EntersChild
  OBVIOUS
<1>1. At("call") /\ Here.kind = "child"
  BY DEF EnterChild, Calling
<1>2. /\ StackOK /\ L \in Nat \ {0} /\ Going(L) /\ Here = CallIn(L) /\ LogOK
      /\ CutAt(Begun, L, Called(L))
      /\ Id = CallId(L) /\ TakesId(Here)
      /\ Id \in DOMAIN log => IsOp(Op) /\ Op = log[Id] /\ Op.type = "CONTEXT"
      /\ Id \notin DOMAIN log => Op = Absent
  BY <1>1, CallIs DEF ContextsInv, Guarded, Durable, CallOp, TakesId, Type
<1>3. Decided \in {"start", "run"}
  <2>1. stack[L].body \in Bodies /\ Position(L) \in DOMAIN stack[L].body
    BY <1>2, FrameIs, BodyIs DEF Going, Position
  <2>2. ~Here.replayChildren
    BY <1>2, <2>1 DEF OwnContexts, OwnContext, CallIn
  <2> QED
    BY <2>2 DEF EnterChild, Reconstructs
<1>4. Context(Id, Here.body) = FrameOf(CallId(L), CallIn(L).body, 0, <<>>)
  <2>1. IdsOf(CallId(L), CallIn(L).body, 0) = <<>>
    <3>1. /\ IsSeq(IdsOf(CallId(L), CallIn(L).body, 0))
          /\ Len(IdsOf(CallId(L), CallIn(L).body, 0)) = 0
      BY IdsAre
    <3> QED
      BY <3>1, EmptyIs, SameSeq
  <2> QED
    BY <1>2, <2>1, CountNone DEF Context, FrameOf
<1>5. Enters
  <2>1. stack' = Append(Begun, Context(Id, Here.body))
    BY DEF EnterChild
  <2>2. /\ IsSeq(Begun) /\ Len(Begun) = L /\ Begun[L] = Called(L)
        /\ \A j \in 1..(L - 1) : Begun[j] = stack[j] /\ j \in 1..L
        /\ L \in 1..L
    BY <1>2 DEF CutAt
  <2>3. /\ IsSeq(stack') /\ Len(stack') = L + 1
        /\ \A j \in 1..(L - 1) : stack'[j] = stack[j]
        /\ stack'[L] = Called(L) /\ stack'[L + 1] = Context(Id, Here.body)
    BY <2>1, <2>2, AppendIs
  <2> QED
    BY <1>1, <1>2, <1>4, <2>3 DEF Enters, EnterChild, At
<1>6. CASE Decided = "run"
  <2>1. Decision("child", Op) = "run" /\ log' = log
    BY <1>1, <1>6 DEF Decided, EnterChild
  <2>2. Id \in DOMAIN log /\ Op.status \notin Terminal
    BY <1>2, <2>1 DEF Decision, ChildDecision, Absent, Type
  <2> QED
    BY <1>2, <1>5, <2>1, <2>2 DEF EntersChild, EnterChild
<1>7. CASE Decided = "start"
  <2> DEFINE u  == Update("CONTEXT", "START", Nothing, 0)
             op == Apply(Get(log, Id, Absent), u)
  <2>1. Record(Id, u)
    BY <1>7 DEF EnterChild
  <2>2. /\ IsOp(op) /\ op.type = "CONTEXT" /\ op.status = "STARTED" /\ op.attempt = 0
        /\ op.value = Nothing
    BY ApplyStart
  <2>3. op = Apply(Get(log, Id, Absent), u)
    OBVIOUS
  <2> HIDE DEF op, u
  <2>4. Id \notin DOMAIN log
    <3> SUFFICES ASSUME Id \in DOMAIN log PROVE FALSE
      OBVIOUS
    <3>1. Op.status # "NONE" /\ Op.type = "CONTEXT" /\ Decision("child", Op) = "start"
      BY <1>1, <1>2, <1>7 DEF IsOp, Decided
    <3> QED
      BY <3>1 DEF Decision, ChildDecision, Type
  <2>5. Records(Id, op) /\ Id \in DOMAIN log' /\ log'[Id] = op
    BY <1>2, <2>1, <2>2, <2>3, <2>4, RecordIs
  <2>6. RecordsCall(L)
    <3>1. Own(L, Id, op)
      BY <1>1, <1>2, <2>2, StartedIsOwn DEF Type
    <3> QED
      BY <2>5, <3>1 DEF RecordsCall
  <2> QED
    BY <1>2, <1>5, <2>2, <2>5, <2>6 DEF EntersChild, EnterChild, Terminal
<1> QED
  BY <1>3, <1>6, <1>7

\* A body returns values, or an error.
LEMMA BodyResultIs ==
  ASSUME StackOK, NEW i \in 1..Len(stack)
  PROVE  LET r == BodyResult(stack[i])
         IN  \/ \E v : v \notin {Nothing, Summary} /\ r = Success(v)
             \/ \E e : r = Failed(e)
<1> DEFINE n      == Len(stack[i].results)
           call   == stack[i].body[n]
           last   == stack[i].results[n]
           r      == BodyResult(stack[i])
           value(m) == IF stack[i].results[m].ok THEN stack[i].results[m].value ELSE <<>>
           values == [m \in 1..n |-> value(m)]
<1>1. n \in Nat
  BY FrameIs
<1>2. n > 0 => IsOutcome(last)
  <2>1. FrameOK(i)
    BY DEF StackOK
  <2>2. \A m \in 1..n : IsOutcome(stack[i].results[m])
    BY <2>1 DEF FrameOK
  <2> QED
    BY <1>1, <2>2
<1>3. <<"all">> \o values \notin {Nothing, Summary}
  <2>1. values \in Seq({value(m) : m \in 1..n} \cup {"all"})
    BY <1>1
  <2>2. <<"all">> \in Seq({value(m) : m \in 1..n} \cup {"all"}) /\ Len(<<"all">>) = 1
    OBVIOUS
  <2> HIDE DEF values
  <2>3. (<<"all">> \o values)[1] = <<"all">>[1]
    BY <2>1, <2>2, ConcatProperties
  <2>4. <<"all">>[1] = "all" /\ Nothing[1] = "nothing" /\ Summary[1] = "summary"
    BY DEF Nothing, Summary
  <2> QED
    BY <2>3, <2>4
<1>4. CASE n > 0 /\ last \in call.fails
  <2>1. r = Failed("Execution")
    BY <1>4 DEF BodyResult
  <2> QED
    BY <2>1
<1>5. CASE n > 0 /\ last \notin call.fails /\ last \notin call.leaves /\ ~GoesOn(call, last)
  <2>1. r = last
    BY <1>5 DEF BodyResult
  <2>2. ~last.ok
    BY <1>5 DEF GoesOn
  <2>3. last = Failed(last.error)
    <3> HIDE DEF last
    <3> QED
      BY <1>2, <1>5, <2>2 DEF IsOutcome, Success
  <2> QED
    BY <2>1, <2>3
<1>6. CASE ~(n > 0 /\ last \in call.fails)
           /\ ~(n > 0 /\ last \notin call.leaves /\ ~GoesOn(call, last))
  <2>1. r = Success(<<"all">> \o values)
    BY <1>6 DEF BodyResult
  <2> QED
    BY <1>3, <2>1
<1> QED
  BY <1>4, <1>5, <1>6

LEMMA EndChildCalls ==
  ASSUME ContextsInv, EndChild
  PROVE  Len(stack) > 1 /\ Calls(Len(stack) - 1)
<1> SUFFICES ASSUME NEW L, L = Len(stack) PROVE L > 1 /\ Calls(L - 1)
  OBVIOUS
<1> DEFINE k      == L - 1
           call   == Last(Front(stack)).body[Len(Last(Front(stack)).ids)]
           result == BodyResult(Top)
           mapped == IF ~result.ok /\ call.mapper THEN Failed("Execution") ELSE result
           old    == Get(log, Top.id, Absent)
<1>1. StackOK /\ LogOK /\ L \in Nat /\ L > 1 /\ k \in Nat \ {0} /\ k + 1 = L
  BY SeqIs DEF ContextsInv, StackOK, EndChild
<1>2. Going(k) /\ CallIn(k).kind = "child"
  BY <1>1, FrameIs DEF StackOK
<1>3. Top = stack[L] /\ Top.id = ContextId(L) /\ ContextId(L) = CallId(k)
  <2>1. Top = stack[L]
    BY <1>1 DEF Top, Last
  <2>2. stack[L].id = ContextId(L)
    BY <1>1, FrameIs
  <2>3. ContextId(k + 1) = CallId(k)
    BY <1>1, ContextIdIs
  <2> QED
    BY <1>1, <2>1, <2>2, <2>3
<1>4. CutAt(Front(stack), k, Called(k))
  <2>1. /\ IsSeq(Front(stack)) /\ Len(Front(stack)) = k
        /\ \A j \in 1..k : Front(stack)[j] = stack[j]
    BY <1>1, FrontIs DEF StackOK
  <2>2. FrameOK(k) /\ Made(k) = Position(k) /\ k \in 1..k
    BY <1>1 DEF StackOK, Made
  <2> QED
    BY <1>1, <2>1, <2>2 DEF CutAt, FrameOK, Called
<1>5. Top.id \in DOMAIN log /\ log[Top.id].type = "CONTEXT" /\ log[Top.id].status \notin Terminal
      /\ IsOp(log[Top.id]) /\ old = log[Top.id]
  <2>1. L \in 2..Len(stack)
    BY <1>1
  <2> QED
    BY <1>1, <1>3, <2>1 DEF ContextsInv, OpenInv, LogOK, Get
<1>6. Open("CONTEXT", old) /\ old.attempt \in Nat
  BY <1>5 DEF Open, IsOp
<1>10. /\ pc = "call" /\ BodyOver(stack[k + 1])
       /\ result = BodyResult(stack[k + 1]) /\ k = Len(stack) - 1
  <2>1. BodyOver(stack[L]) /\ stack[k + 1] = stack[L]
    BY <1>1, <1>3 DEF EndChild
  <2>2. pc # "run"
    <3> SUFFICES ASSUME pc = "run" PROVE FALSE
      OBVIOUS
    <3>1. Going(L) /\ Len(stack[L].results) \in Nat /\ Len(stack[L].body) \in Nat
      BY <1>1, FrameIs
    <3> QED
      BY <2>1, <3>1 DEF BodyOver, Going, Position
  <2> QED
    BY <1>1, <1>3, <2>1, <2>2 DEF StackOK
<1>11. Ran(k)
  BY <1>10 DEF Ran
<1>7. \/ \E v : v \notin {Nothing, Summary} /\ result = Success(v)
      \/ \E e : result = Failed(e)
  BY <1>1, <1>3, BodyResultIs
<1>8. CASE result.error = "Suspend"
  <2>1. log' = log /\ Return(Front(stack), result)
    BY <1>5, <1>8 DEF EndChild
  <2>2. IsOutcome(result)
    <3> HIDE DEF result
    <3> QED
      BY <1>7, SuccessIs, FailedIs
  <2>3. Returns(k, result)
    <3> HIDE DEF result, k
    <3> QED
      BY <1>1, <1>2, <1>4, <2>1, <2>2, ReturnIs DEF EndChild
  <2>4. Replies(k, result)
    BY <1>2, <1>8, <2>3 DEF Replies
  <2> HIDE DEF k, result
  <2> QED
    BY <1>1, <1>10, <1>11, <1>8, <2>1, <2>4 DEF Calls, Finishes, EndChild
<1>9. CASE result.error # "Suspend"
  <2> DEFINE u  == Outcome("CONTEXT", IF mapped.ok THEN Success(Stored(call, mapped.value))
                                      ELSE mapped)
             op == Apply(old, u)
  <2>1. Record(Top.id, u) /\ Return(Front(stack), mapped)
    BY <1>5, <1>9 DEF EndChild, Finish
  <2>2. op = Apply(Get(log, Top.id, Absent), u)
    OBVIOUS
  <2>3. /\ \/ \E v : v \notin {Nothing, Summary} /\ mapped = Success(v)
           \/ \E e : e # "Suspend" /\ mapped = Failed(e)
        /\ mapped \in {result, Failed("Execution")}
    <3>1. ASSUME NEW v, result = Success(v) PROVE mapped = Success(v)
      BY <3>1, SuccessIs
    <3>2. ASSUME NEW e, result = Failed(e) PROVE mapped \in {Failed("Execution"), Failed(e)}
      BY <3>2
    <3>3. ASSUME NEW e, result = Failed(e) PROVE e # "Suspend"
      BY <1>9, <3>3, FailedIs
    <3> HIDE DEF result, mapped
    <3> QED
      BY <1>7, <3>1, <3>2, <3>3
  <2>4. /\ IsOutcome(mapped) /\ mapped.error # "Suspend"
        /\ IsOp(op) /\ op.type = "CONTEXT" /\ op.attempt = old.attempt
        /\ Decision("child", op) = "replay"
        /\ Same(mapped, Replayed("child", op)) \/ op.value = Summary
        /\ op.value = Summary => call.summary /\ call.big
    <3>1. CASE \E v : v \notin {Nothing, Summary} /\ mapped = Success(v)
      <4>1. PICK v : v \notin {Nothing, Summary} /\ mapped = Success(v)
        BY <3>1
      <4> DEFINE w == Stored(call, v)
      <4>2. w # Nothing /\ w \in {v, Summary} /\ (w = Summary => call.summary /\ call.big)
        BY <4>1 DEF Stored, Summary, Nothing
      <4>3. mapped.ok /\ mapped.value = v /\ IsOutcome(mapped) /\ mapped.error # "Suspend"
        BY <4>1, SuccessIs
      <4>4. u = Update("CONTEXT", "SUCCEED", w, 0)
        <5> HIDE DEF mapped
        <5> QED
          BY <4>3, SuccessIs DEF Outcome
      <4> HIDE DEF u, w, mapped
      <4>5. /\ IsOp(op) /\ op.type = "CONTEXT" /\ op.status = "SUCCEEDED" /\ op.value = w
            /\ op.attempt = old.attempt
        BY <1>6, <4>2, <4>4, ApplySucceed
      <4> HIDE DEF op
      <4>6. Decision("child", op) = "replay" /\ Replayed("child", op) = Success(w)
        BY <4>2, <4>5 DEF Decision, ChildDecision, Terminal, Type, Replayed, HasResult
      <4>7. Same(mapped, Replayed("child", op)) \/ op.value = Summary
        BY <4>1, <4>2, <4>5, <4>6 DEF Same
      <4> QED
        BY <4>2, <4>3, <4>5, <4>6, <4>7
    <3>2. CASE \E e : e # "Suspend" /\ mapped = Failed(e)
      <4>1. PICK e : e # "Suspend" /\ mapped = Failed(e)
        BY <3>2
      <4>2. /\ mapped.ok = FALSE /\ mapped.value = Nothing /\ IsOutcome(mapped)
            /\ mapped.error # "Suspend"
        <5> HIDE DEF mapped
        <5> QED
          BY <4>1, FailedIs
      <4>3. u = Update("CONTEXT", "FAIL", Nothing, 0)
        <5> HIDE DEF mapped
        <5> QED
          BY <4>2 DEF Outcome
      <4> HIDE DEF u, mapped
      <4>4. /\ IsOp(op) /\ op.type = "CONTEXT" /\ op.status = "FAILED" /\ op.attempt = old.attempt
            /\ op.value = old.value
        BY <1>6, <4>3, ApplyFail
      <4> HIDE DEF op
      <4>5. Decision("child", op) = "replay" /\ Replayed("child", op) = Failed("UserCode")
        BY <4>4 DEF Decision, ChildDecision, Terminal, Type, Replayed, HasResult
      <4>6. Same(mapped, Replayed("child", op))
        BY <4>2, <4>5, FailedIs DEF Same
      <4>7. op.value # Summary
        <5>1. old.status = "STARTED"
          BY <1>5 DEF IsOp, Terminal
        <5>2. old.value = Nothing
          BY <1>5, <5>1 DEF IsOp
        <5> QED
          BY <4>4, <5>2 DEF Nothing, Summary
      <4> QED
        BY <4>2, <4>4, <4>5, <4>6, <4>7
    <3> QED
      BY <2>3, <3>1, <3>2
  <2> HIDE DEF op, u, mapped
  <2>5. Records(Top.id, op) /\ Top.id \in DOMAIN log' /\ log'[Top.id] = op
    <3>1. op.attempt >= log[Top.id].attempt
      BY <1>5, <1>6, <2>4
    <3> QED
      BY <1>1, <1>5, <2>1, <2>2, <2>4, <3>1, RecordIs
  <2>6. Returns(k, mapped)
    <3> HIDE DEF k
    <3> QED
      BY <1>1, <1>2, <1>4, <2>1, <2>4, ReturnIs DEF EndChild
  <2>7. TakesId(CallIn(k)) /\ CallOp(k) = Top.id
    BY <1>2, <1>3 DEF TakesId, CallOp
  <2>8. RecordsCall(k)
    <3>1. call = CallIn(k)
      <4>1. Last(Front(stack)) = Called(k)
        BY <1>1, <1>4 DEF CutAt, Last
      <4>2. /\ Called(k).body = stack[k].body
            /\ Called(k).ids = IdsOf(ContextId(k), stack[k].body, Position(k))
        BY DEF Called, FrameOf
      <4>3. Position(k) \in Nat
        BY <1>1, FrameIs DEF Position
      <4>4. Len(Called(k).ids) = Position(k)
        BY <4>2, <4>3, IdsAre
      <4> QED
        BY <4>1, <4>2, <4>4 DEF CallIn
    <3> HIDE DEF call, k
    <3>2. Own(k, Top.id, op)
      BY <1>1, <1>2, <1>3, <1>5, <1>10, <2>4, <2>7, <3>1 DEF Own, Type
    <3> QED
      BY <2>5, <3>2 DEF RecordsCall
  <2>9. Told(k, mapped)
    <3>1. Decision("child", log[Top.id]) # "replay"
      BY <1>5 DEF Decision, ChildDecision, Terminal, Type
    <3> QED
      BY <1>2, <2>4, <2>5, <2>7, <3>1 DEF Told, Agreed
  <2>10. Replies(k, mapped)
    BY <1>2, <2>6, <2>9 DEF Replies
  <2> HIDE DEF k, result
  <2> QED
    BY <1>1, <1>9, <1>10, <1>11, <2>3, <2>8, <2>10 DEF Calls, Finishes, EndChild
<1> QED
  BY <1>8, <1>9

-----------------------------------------------------------------------------
(* The steps.                                                              *)

\* The service ends what no invocation can see until the next.
Completes ==
  /\ Len(stack) = 0
  /\ \E id \in DOMAIN log : \E op :
       Records(id, op) /\ op.attempt = log[id].attempt /\ log[id].type # "CONTEXT"
  /\ UNCHANGED <<handler, stack, pc, crashes, observed, runs>>
  /\ invocation \in {"suspended", "due"} /\ invocation' = "due"

\* Nothing happens to the contexts.
Idles == UNCHANGED <<handler, log, invocation, stack, pc, crashes, observed, runs>>

\* The contexts are gone, of an invocation that ends or is lost.
Leaves ==
  /\ Forgets /\ invocation = "running"
  /\ UNCHANGED <<log, runs>>
  /\ \/ crashes' = crashes + 1
     \/ /\ crashes' = crashes /\ pc = "call" /\ Len(stack) = 1 /\ BodyOver(stack[1])
        /\ BodyResult(stack[1]).error # "Suspend" => invocation' = "over"

LEMMA CompleteCompletes ==
  ASSUME ContextsInv, NEW id \in Pending, Complete(id)
  PROVE  Completes
<1>1. /\ id \in DOMAIN log /\ IsOp(log[id]) /\ IsPending(log[id])
      /\ log[id].status \notin Terminal
  BY DEF Pending, IsPending, ContextsInv, LogOK, Terminal
<1>2. PICK op \in Completions(log[id]) : log' = Put(log, id, op)
  BY DEF Complete
<1>3. /\ DOMAIN log[id] = {"type", "status", "value", "attempt"} /\ log[id].attempt \in Nat
      /\ log[id].type \in {"STEP", "WAIT", "CALLBACK", "INVOKE"}
  BY <1>1 DEF IsOp, IsPending
<1>4. /\ op = [x \in DOMAIN op |-> op[x]] /\ DOMAIN op = {"type", "status", "value", "attempt"}
      /\ op.type = log[id].type /\ op.attempt = log[id].attempt
      /\ \/ op.status = IF op.type = "STEP" THEN "READY" ELSE "SUCCEEDED"
         \/ op.type \in {"CALLBACK", "INVOKE"} /\ op.status = "FAILED"
      /\ op.status = "SUCCEEDED" /\ op.type # "WAIT" => op.value # Nothing
  <2>1. CASE log[id].type = "STEP"
    <3>1. op = [log[id] EXCEPT !.status = "READY"]
      BY <1>2, <2>1 DEF Completions
    <3> QED
      BY <1>3, <2>1, <3>1
  <2>2. CASE log[id].type = "WAIT"
    <3>1. op = [log[id] EXCEPT !.status = "SUCCEEDED"]
      BY <1>2, <2>2 DEF Completions
    <3> QED
      BY <1>3, <2>2, <3>1
  <2>3. CASE log[id].type \in {"CALLBACK", "INVOKE"}
    <3>1. \/ \E v \in {A, B} : op = [log[id] EXCEPT !.status = "SUCCEEDED", !.value = v]
          \/ op = [log[id] EXCEPT !.status = "FAILED"]
      BY <1>2, <2>3 DEF Completions
    <3>2. A # Nothing /\ B # Nothing
      BY DEF A, B, Nothing
    <3>3. CASE op = [log[id] EXCEPT !.status = "FAILED"]
      BY <1>3, <2>3, <3>3
    <3>4. CASE \E v \in {A, B} : op = [log[id] EXCEPT !.status = "SUCCEEDED", !.value = v]
      <4>1. PICK v : v # Nothing /\ op = [log[id] EXCEPT !.status = "SUCCEEDED", !.value = v]
        BY <3>2, <3>4
      <4> QED
        BY <1>3, <2>3, <4>1
    <3> QED
      BY <3>1, <3>3, <3>4
  <2> QED
    BY <1>3, <2>1, <2>2, <2>3
<1>5. op = [type |-> op.type, status |-> op.status, value |-> op.value, attempt |-> op.attempt]
  BY <1>4, OpFields
<1>6. IsOp(op)
  BY <1>3, <1>4, <1>5 DEF IsOp
<1>7. Evolves(log[id], op)
  BY <1>1, <1>3, <1>4 DEF Evolves, CurrentAttempt
<1>8. Records(id, op)
  BY <1>2, <1>6, <1>7 DEF Records
<1>9. Len(stack) = 0
  BY SeqIs DEF ContextsInv, StackOK, Complete
<1> QED
  BY <1>1, <1>3, <1>4, <1>8, <1>9 DEF Completes, Complete

LEMMA StepIs ==
  ASSUME ContextsInv, OwnContexts, [Next]_vars
  PROVE  \/ \E i : Calls(i)
         \/ Starts
         \/ EntersChild
         \/ Leaves
         \/ Invoke
         \/ Completes
         \/ Idles
<1>1. CASE Invoke
  BY <1>1
<1>2. CASE Replay \/ Suspend \/ CreateCallback
  BY <1>2, ReplayCalls, SuspendCalls, CreateCallbackCalls
<1>3. CASE StepEnds \/ ConditionMet \/ ConditionNotMet \/ Submitted
  BY <1>3, StepEndsCalls, ConditionMetCalls, ConditionNotMetCalls, SubmittedCalls
<1>4. CASE TakeId \/ CancelWait \/ CancelTooLate \/ CompleteExecution
  BY <1>4, TakeIdCalls, CancelWaitCalls, CancelTooLateCalls, CompleteExecutionCalls
<1>5. CASE ReplayChild \/ EndChild
  BY <1>5, ReplayChildCalls, EndChildCalls
<1>6. CASE Begin \/ Submit
  BY <1>6, BeginStarts, SubmitStarts
<1>7. CASE EnterChild
  BY <1>7, EnterChildEnters
<1>8. CASE RecordLargeResult
  BY <1>8 DEF RecordLargeResult, Idles
<1>9. CASE EndHandler
  <2>1. pc = "call"
    <3> SUFFICES ASSUME pc = "run" PROVE FALSE
      BY DEF ContextsInv, StackOK
    <3>1. Going(Len(stack)) /\ Len(stack) = 1 /\ Len(stack[1].results) \in Nat
          /\ Len(stack[1].body) \in Nat
      BY <1>9, FrameIs DEF EndHandler, ContextsInv
    <3>2. BodyOver(stack[1])
      BY <1>9, <3>1 DEF EndHandler, Top, Last
    <3> QED
      BY <3>1, <3>2 DEF BodyOver, Going, Position
  <2>2. UNCHANGED <<handler, log, crashes, observed, runs>> /\ Forget /\ invocation = "running"
        /\ invocation' \in {"suspended", "over"}
    BY <1>9 DEF EndHandler
  <2>3. Len(stack) = 1 /\ BodyOver(stack[1])
        /\ (BodyResult(stack[1]).error # "Suspend" => invocation' = "over")
    <3>1. Len(stack) = 1 /\ Top = stack[1] /\ BodyOver(Top)
      BY <1>9 DEF EndHandler, Top, Last
    <3>2. BodyResult(Top).error # "Suspend" => invocation' = "over"
      BY <1>9 DEF EndHandler
    <3> QED
      BY <3>1, <3>2
  <2> QED
    BY <2>1, <2>2, <2>3 DEF Leaves, Forgets, Forget
<1>10. CASE Crash
  BY <1>10 DEF Crash, Leaves, Forgets, Forget
<1>11. CASE \E id \in Pending : Complete(id)
  BY <1>11, CompleteCompletes
<1>12. CASE UNCHANGED vars
  BY <1>12 DEF vars, Idles
<1> QED
  BY <1>1, <1>2, <1>3, <1>4, <1>5, <1>6, <1>7, <1>8, <1>9, <1>10, <1>11, <1>12
  DEF Next, HandlerStep

-----------------------------------------------------------------------------
(* What the steps keep.                                                    *)

\* Operations are never lost, nor changed once they have ended.
LogGrows ==
  \A id \in DOMAIN log : /\ id \in DOMAIN log'
                         /\ log'[id] = log[id] \/ Evolves(log[id], log'[id])

LEMMA RecordsGrow ==
  ASSUME LogOK, NEW id, NEW op, Records(id, op)
  PROVE  /\ LogOK' /\ LogGrows
         /\ DOMAIN log' = DOMAIN log \cup {id} /\ log'[id] = op
         /\ \A d \in DOMAIN log \ {id} : log'[d] = log[d]
<1>1. log' = [k \in DOMAIN log \cup {id} |-> IF k = id THEN op ELSE log[k]]
  BY DEF Records, Put
<1>2. /\ DOMAIN log' = DOMAIN log \cup {id} /\ log'[id] = op
      /\ \A d \in DOMAIN log \ {id} : log'[d] = log[d]
      /\ log' = [k \in DOMAIN log' |-> log'[k]]
  BY <1>1
<1>3. \A d \in DOMAIN log' : IsOp(log'[d])
  BY <1>2 DEF LogOK, Records
<1>4. LogGrows
  BY <1>2 DEF LogGrows, Records
<1> QED
  BY <1>2, <1>3, <1>4 DEF LogOK

LEMMA LogSteps ==
  ASSUME LogOK,
         \/ \E i : Calls(i)
         \/ Starts
         \/ EntersChild
         \/ Leaves
         \/ Invoke
         \/ Completes
         \/ Idles
  PROVE  LogOK' /\ LogGrows
<1>1. log' = log \/ \E id, op : Records(id, op)
  BY DEF Calls, Starts, EntersChild, Leaves, Invoke, Completes, Idles, RecordsCall
<1>2. CASE log' = log
  BY <1>2 DEF LogOK, LogGrows
<1> QED
  BY <1>1, <1>2, RecordsGrow

\* The result of the j-th context's n-th call was there before the step.
Was(j, n) ==
  /\ j \in 1..Len(stack) /\ n \in 1..Len(stack[j].results)
  /\ stack'[j].body = stack[j].body
  /\ stack'[j].results[n] = stack[j].results[n]
  /\ ContextId(j)' = ContextId(j)
  /\ PathTo(j, n)' = PathTo(j, n)

LEMMA WasIs ==
  ASSUME StackOK, NEW i \in 1..Len(stack), \A j \in 1..(i - 1) : stack'[j] = stack[j],
         NEW j \in 1..i, stack'[j].body = stack[j].body,
         NEW n \in 1..Len(stack[j].results), stack'[j].results[n] = stack[j].results[n]
  PROVE  Was(j, n)
<1>1. i \in Nat /\ i <= Len(stack) /\ Len(stack) \in Nat
  BY SeqIs DEF StackOK
<1>2. /\ \A k \in 1..(i - 1) : Position(k)' = Position(k)
      /\ \A k \in 1..i : ContextId(k)' = ContextId(k)
  BY BelowIs
<1>3. PathTo(j, n)' = PathTo(j, n)
  <2>1. \A k \in 1..j : k < j => k \in 1..(i - 1)
    BY <1>1
  <2> QED
    BY <1>2, <2>1 DEF PathTo
<1> QED
  BY <1>1, <1>2, <1>3 DEF Was

\* When the call of the i-th context has returned, its result is the only new one.
LEMMA CallsResults ==
  ASSUME StackOK, NEW i, NEW o, Returns(i, o),
         NEW j \in 1..Len(stack'), NEW n \in 1..Len(stack'[j].results)
  PROVE  \/ Was(j, n)
         \/ /\ j = i /\ n = Position(i) /\ stack'[j].results[n] = o
            /\ stack'[i].body = stack[i].body
            /\ ContextId(i)' = ContextId(i) /\ PathTo(i, n)' = PathTo(i, n)
<1>1. /\ Len(stack) \in Nat /\ i \in 1..Len(stack) /\ i \in Nat \ {0}
      /\ Len(stack') = i /\ \A k \in 1..(i - 1) : stack'[k] = stack[k]
      /\ stack'[i].body = stack[i].body
      /\ stack'[i].results = Append(stack[i].results, o)
  BY SeqIs DEF StackOK, Returns, Going, CutAt, Answered, FrameOf
<1>2. /\ IsSeq(stack[i].results) /\ Len(stack[i].results) \in Nat
      /\ Position(i) = Len(stack[i].results) + 1
  BY <1>1, FrameIs DEF Position
<1>3. /\ Len(stack'[i].results) = Position(i) /\ stack'[i].results[Position(i)] = o
      /\ \A m \in 1..Len(stack[i].results) : stack'[i].results[m] = stack[i].results[m]
  BY <1>1, <1>2, AppendIs
<1>4. CASE j # i
  <2>1. j \in 1..(i - 1) /\ j \in 1..i
    BY <1>1, <1>4
  <2>2. stack'[j] = stack[j]
    BY <1>1, <2>1
  <2> QED
    BY <1>1, <2>1, <2>2, WasIs
<1>5. CASE j = i /\ n # Position(i)
  <2>1. n \in 1..Len(stack[i].results)
    BY <1>2, <1>3, <1>5
  <2>2. i \in 1..i
    BY <1>1
  <2> QED
    BY <1>1, <1>3, <1>5, <2>1, <2>2, WasIs
<1>6. CASE j = i /\ n = Position(i)
  <2>1. /\ \A k \in 1..(i - 1) : Position(k)' = Position(k)
        /\ \A k \in 1..i : ContextId(k)' = ContextId(k)
    BY <1>1, BelowIs
  <2>2. PathTo(i, n)' = PathTo(i, n)
    <3>1. \A k \in 1..i : k < i => k \in 1..(i - 1)
      BY <1>1
    <3> QED
      BY <2>1, <3>1 DEF PathTo
  <2>3. i \in 1..i
    BY <1>1
  <2> QED
    BY <1>1, <1>3, <1>6, <2>1, <2>2, <2>3
<1> QED
  BY <1>4, <1>5, <1>6

LEMMA OtherResults ==
  ASSUME StackOK, Starts \/ EntersChild \/ Leaves \/ Invoke \/ Completes \/ Idles,
         NEW j \in 1..Len(stack'), NEW n \in 1..Len(stack'[j].results)
  PROVE  Was(j, n)
<1> SUFFICES ASSUME NEW L, L = Len(stack) PROVE Was(j, n)
  OBVIOUS
<1>1. L \in Nat
  BY SeqIs DEF StackOK
<1>2. CASE Starts
  <2>1. /\ L \in 1..L /\ Len(stack') = L /\ \A k \in 1..(L - 1) : stack'[k] = stack[k]
        /\ stack'[L].body = stack[L].body /\ stack'[L].results = stack[L].results
    BY <1>1, <1>2 DEF Starts, Begins, Going, CutAt, Called, FrameOf
  <2>2. j = L \/ j \in 1..(L - 1)
    BY <1>1, <2>1
  <2>3. stack'[j].body = stack[j].body /\ stack'[j].results = stack[j].results
    BY <2>1, <2>2
  <2> QED
    BY <2>1, <2>3, WasIs
<1>3. CASE EntersChild
  <2>1. /\ L \in 1..L /\ Len(stack') = L + 1 /\ \A k \in 1..(L - 1) : stack'[k] = stack[k]
        /\ stack'[L].body = stack[L].body /\ stack'[L].results = stack[L].results
        /\ stack'[L + 1].results = <<>>
    BY <1>1, <1>3 DEF EntersChild, Enters, Going, CutAt, Called, FrameOf
  <2>2. j # L + 1
    BY <2>1, EmptyIs
  <2>3. j = L \/ j \in 1..(L - 1)
    BY <1>1, <2>1, <2>2
  <2>4. stack'[j].body = stack[j].body /\ stack'[j].results = stack[j].results /\ j \in 1..L
    BY <1>1, <2>1, <2>3
  <2> QED
    BY <2>1, <2>4, WasIs
<1>4. CASE Leaves
  BY <1>4, EmptyIs DEF Leaves, Forgets
<1>5. CASE Invoke
  <2>1. stack' = <<Context(<<>>, handler)>>
    BY <1>5 DEF Invoke
  <2>2. Len(stack') = 1 /\ stack'[1].results = <<>>
    BY <2>1, SingleIs DEF Context
  <2> QED
    BY <2>2, EmptyIs
<1>6. CASE Completes \/ Idles
  <2>1. stack' = stack
    BY <1>6 DEF Completes, Idles
  <2>2. L \in 1..L
    BY <1>1, <2>1
  <2> QED
    BY <1>1, <2>1, <2>2, WasIs
<1> QED
  BY <1>2, <1>3, <1>4, <1>5, <1>6

\* The i-th context and those around it stay open while its call records what it may.
LEMMA OpenStay ==
  ASSUME ContextsInv, NEW i \in 1..Len(stack), log' = log \/ RecordsCall(i),
         \A j \in 1..(i - 1) : stack'[j] = stack[j]
  PROVE  \A j \in 2..i : /\ ContextId(j)' = ContextId(j)
                         /\ ContextId(j)' \in DOMAIN log'
                         /\ log'[ContextId(j)'].type = "CONTEXT"
                         /\ log'[ContextId(j)'].status \notin Terminal
<1> SUFFICES ASSUME NEW j \in 2..i
             PROVE  /\ ContextId(j)' = ContextId(j)
                    /\ ContextId(j) \in DOMAIN log'
                    /\ log'[ContextId(j)].type = "CONTEXT"
                    /\ log'[ContextId(j)].status \notin Terminal
  OBVIOUS
<1>1. StackOK /\ LogOK /\ Len(stack) \in Nat /\ i \in Nat \ {0} /\ j \in Nat \ {0}
      /\ j \in 1..i /\ j \in 2..Len(stack) /\ j <= i
  BY SeqIs DEF ContextsInv, StackOK
<1>2. ContextId(j)' = ContextId(j)
  BY <1>1, BelowIs
<1>3. /\ ContextId(j) \in DOMAIN log
      /\ log[ContextId(j)].type = "CONTEXT" /\ log[ContextId(j)].status \notin Terminal
  BY <1>1 DEF ContextsInv, OpenInv
<1>4. CASE log' = log
  BY <1>2, <1>3, <1>4
<1>5. CASE RecordsCall(i)
  <2>1. PICK id, op : /\ Records(id, op)
                      /\ id = CallId(i) \/ (id \in DOMAIN log /\ log[id].type = "WAIT")
    BY <1>5 DEF RecordsCall, Own, Cancels
  <2>2. id # ContextId(j)
    <3>1. Len(ContextId(j)) = j - 1 /\ Len(CallId(i)) = i
      <4>1. IsSeq(ContextId(i)) /\ Len(ContextId(i)) = i - 1 /\ Len(ContextId(j)) = j - 1
        BY <1>1, ContextIdIs
      <4> QED
        BY <1>1, <4>1, AppendIs DEF CallId
    <3>2. CallId(i) # ContextId(j)
      BY <1>1, <3>1
    <3> QED
      BY <2>1, <3>2, <1>3
  <2>3. ContextId(j) \in DOMAIN log' /\ log'[ContextId(j)] = log[ContextId(j)]
    <3>1. /\ DOMAIN log' = DOMAIN log \cup {id}
          /\ \A d \in DOMAIN log \ {id} : log'[d] = log[d]
      BY <1>1, <2>1, RecordsGrow
    <3> QED
      BY <1>3, <2>2, <3>1
  <2> QED
    BY <1>2, <1>3, <2>3
<1> QED
  BY <1>4, <1>5

LEMMA OpenSteps ==
  ASSUME ContextsInv, StackOK',
         \/ \E i : Calls(i)
         \/ Starts
         \/ EntersChild
         \/ Leaves
         \/ Invoke
         \/ Completes
         \/ Idles
  PROVE  OpenInv'
<1> SUFFICES ASSUME NEW L, L = Len(stack) PROVE OpenInv'
  OBVIOUS
<1>1. StackOK /\ L \in Nat
  BY SeqIs DEF ContextsInv, StackOK
<1>2. CASE \E i : Calls(i)
  <2>1. PICK i : Calls(i)
    BY <1>2
  <2>2. /\ i \in 1..Len(stack) /\ pc' = "call" /\ Len(stack') = i
        /\ \A j \in 1..(i - 1) : stack'[j] = stack[j]
    BY <2>1 DEF Calls, Replies, Returns, Going, CutAt
  <2>3. log' = log \/ RecordsCall(i)
    BY <2>1 DEF Calls
  <2> QED
    BY <2>2, <2>3, OpenStay DEF OpenInv
<1>3. CASE Starts
  <2>1. /\ L \in 1..L /\ Len(stack') = L /\ \A k \in 1..(L - 1) : stack'[k] = stack[k]
        /\ stack'[L].body = stack[L].body /\ stack'[L].results = stack[L].results
        /\ log' = log \/ RecordsCall(L)
    BY <1>1, <1>3 DEF Starts, Begins, Going, CutAt, Called, FrameOf
  <2>2. ContextId(L)' = ContextId(L)
    BY <1>1, <2>1, BelowIs
  <2>3. CallId(L)' = CallId(L) /\ CallIn(L)' = CallIn(L)
    BY <2>1, <2>2 DEF CallId, CallIn, Position
  <2>4. \A j \in 2..Len(stack') : /\ ContextId(j)' \in DOMAIN log'
                                  /\ log'[ContextId(j)'].type = "CONTEXT"
                                  /\ log'[ContextId(j)'].status \notin Terminal
    BY <2>1, OpenStay
  <2>5. CallIn(L).kind # "submit" /\ CallId(L) \in DOMAIN log' =>
          log'[CallId(L)].type = "STEP" /\ log'[CallId(L)].status \notin Terminal
    BY <1>3 DEF Starts
  <2>6. CallIn(Len(stack))' = CallIn(L) /\ CallId(Len(stack))' = CallId(L)
    <3>1. Len(stack') = L
      BY <2>1
    <3> QED
      BY <2>3, <3>1
  <2> QED
    BY <2>4, <2>5, <2>6 DEF OpenInv
<1>4. CASE EntersChild
  <2>1. /\ L \in 1..L /\ Len(stack') = L + 1 /\ \A k \in 1..(L - 1) : stack'[k] = stack[k]
        /\ stack'[L].body = stack[L].body /\ stack'[L].results = stack[L].results
        /\ (log' = log \/ RecordsCall(L)) /\ pc' = "call"
    BY <1>1, <1>4 DEF EntersChild, Enters, Going, Called, FrameOf
  <2>2. ContextId(L)' = ContextId(L)
    BY <1>1, <2>1, BelowIs
  <2>3. CallId(L)' = CallId(L)
    BY <2>1, <2>2 DEF CallId, Position
  <2>4. ContextId(L + 1)' = CallId(L)
    <3>1. L \in Nat \ {0}
      BY <1>1, <2>1
    <3> QED
      BY <2>3, <3>1, ContextIdNext
  <2>5. \A j \in 2..L : /\ ContextId(j)' \in DOMAIN log'
                        /\ log'[ContextId(j)'].type = "CONTEXT"
                        /\ log'[ContextId(j)'].status \notin Terminal
    BY <2>1, OpenStay
  <2>6. CallId(L) \in DOMAIN log' /\ log'[CallId(L)].type = "CONTEXT"
        /\ log'[CallId(L)].status \notin Terminal
    BY <1>4 DEF EntersChild
  <2>7. \A j \in 2..(L + 1) : j = L + 1 \/ j \in 2..L
    BY <1>1
  <2>8. ASSUME NEW j \in 2..Len(stack')
        PROVE  /\ ContextId(j)' \in DOMAIN log'
               /\ log'[ContextId(j)'].type = "CONTEXT"
               /\ log'[ContextId(j)'].status \notin Terminal
    BY <2>1, <2>4, <2>5, <2>6, <2>7
  <2> QED
    BY <2>1, <2>8 DEF OpenInv
<1>5. CASE Leaves
  BY <1>5, EmptyIs DEF Leaves, Forgets, OpenInv
<1>6. CASE Invoke
  <2>1. Len(stack') = 1 /\ pc' = pc /\ invocation # "running"
    BY <1>6, SingleIs DEF Invoke
  <2>2. pc = "call"
    BY <2>1, <1>1 DEF StackOK
  <2> QED
    BY <2>1, <2>2 DEF OpenInv
<1>7. CASE Completes
  <2>1. Len(stack') = 0 /\ pc' = "call"
    BY <1>1, <1>7 DEF Completes, StackOK
  <2> QED
    BY <2>1 DEF OpenInv
<1>8. CASE Idles
  <2>1. UNCHANGED <<stack, log, pc>>
    BY <1>8 DEF Idles
  <2>2. OpenInv
    BY DEF ContextsInv
  <2>3. \A j : ContextId(j)' = ContextId(j) /\ CallId(j)' = CallId(j) /\ CallIn(j)' = CallIn(j)
    BY <2>1 DEF ContextId, CallId, CallIn, Position
  <2>4. Len(stack') = L /\ CallIn(Len(stack))' = CallIn(L) /\ CallId(Len(stack))' = CallId(L)
    BY <2>1, <2>3
  <2> QED
    BY <2>1, <2>2, <2>3, <2>4 DEF OpenInv
<1> QED
  BY <1>2, <1>3, <1>4, <1>5, <1>6, <1>7, <1>8

LEMMA TypedGrows ==
  ASSUME LogTyped, LogGrows, UNCHANGED handler,
         \A id \in DOMAIN log' \ DOMAIN log : \A b, p :
           Place(b, p) /\ TakesId(CallAt(b, p)) /\ IdAt(b, p) = id =>
             CallAt(b, p).kind # "nextId" /\ log'[id].type = Type(CallAt(b, p).kind)
  PROVE  LogTyped'
<1>1. SUFFICES ASSUME NEW id \in DOMAIN log', NEW b, NEW p,
                      Place(b, p)', TakesId(CallAt(b, p)), IdAt(b, p) = id
               PROVE  CallAt(b, p).kind # "nextId" /\ log'[id].type = Type(CallAt(b, p).kind)
  BY DEF LogTyped
<1>2. Place(b, p)
  BY <1>1 DEF Place
<1>3. CASE id \in DOMAIN log
  <2>1. CallAt(b, p).kind # "nextId" /\ log[id].type = Type(CallAt(b, p).kind)
    BY <1>1, <1>2, <1>3 DEF LogTyped
  <2>2. log'[id].type = log[id].type
    BY <1>3 DEF LogGrows, Evolves
  <2> QED
    BY <2>1, <2>2
<1>4. CASE id \notin DOMAIN log
  BY <1>1, <1>2, <1>4
<1> QED
  BY <1>3, <1>4

LEMMA TypedCall ==
  ASSUME ContextsInv, NEW i, Going(i), RecordsCall(i), UNCHANGED handler
  PROVE  LogTyped'
<1>1. PICK id, op : /\ Records(id, op)
                    /\ \/ /\ id = CallId(i) /\ TakesId(CallIn(i)) /\ CallIn(i).kind # "nextId"
                          /\ op.type = Type(CallIn(i).kind)
                       \/ id \in DOMAIN log /\ log[id].type = "WAIT"
  BY DEF RecordsCall, Own, Cancels
<1>2. LogGrows /\ DOMAIN log' = DOMAIN log \cup {id} /\ log'[id] = op
  BY <1>1, RecordsGrow DEF ContextsInv
<1>3. StackOK /\ i \in 1..Len(stack) /\ Position(i) \in 1..Len(stack[i].body)
  <2>1. i \in 1..Len(stack) /\ StackOK
    BY DEF ContextsInv, Going
  <2> QED
    BY <2>1, FrameIs DEF Going, Position
<1>4. /\ Place(BodiesTo(i), PathTo(i, Position(i)))
      /\ CallAt(BodiesTo(i), PathTo(i, Position(i))) = CallIn(i)
      /\ IdAt(BodiesTo(i), PathTo(i, Position(i))) = CallId(i)
  BY <1>3, StackPlace DEF CallIn, IdIn, CallId
<1>5. ASSUME NEW d \in DOMAIN log' \ DOMAIN log, NEW b, NEW p,
             Place(b, p), TakesId(CallAt(b, p)), IdAt(b, p) = d
      PROVE  CallAt(b, p).kind # "nextId" /\ log'[d].type = Type(CallAt(b, p).kind)
  <2>1. d = id /\ id = CallId(i) /\ TakesId(CallIn(i)) /\ CallIn(i).kind # "nextId"
        /\ op.type = Type(CallIn(i).kind)
    BY <1>1, <1>2, <1>5
  <2>2. CallAt(b, p) = CallIn(i)
    BY <1>4, <1>5, <2>1, PlaceOfId
  <2> QED
    BY <1>2, <2>1, <2>2
<1> QED
  BY <1>2, <1>5, TypedGrows DEF ContextsInv

LEMMA TypedSteps ==
  ASSUME ContextsInv,
         \/ \E i : Calls(i)
         \/ Starts
         \/ EntersChild
         \/ Leaves
         \/ Invoke
         \/ Completes
         \/ Idles
  PROVE  LogTyped'
<1>1. UNCHANGED handler
  BY DEF Calls, Replies, Returns, Starts, Begins, EntersChild, Enters, Leaves, Forgets, Invoke,
         Completes, Idles
<1>2. LogGrows
  BY LogSteps DEF ContextsInv
<1>3. CASE DOMAIN log' = DOMAIN log
  BY <1>1, <1>2, <1>3, TypedGrows DEF ContextsInv
<1>4. CASE \E i : Going(i) /\ RecordsCall(i)
  BY <1>1, <1>4, TypedCall
<1>5. CASE Completes
  <2>1. PICK id, op : id \in DOMAIN log /\ Records(id, op)
    BY <1>5 DEF Completes
  <2>2. DOMAIN log' = DOMAIN log
    BY <2>1, RecordsGrow DEF ContextsInv
  <2> QED
    BY <1>3, <2>2
<1>6. log' = log \/ (\E i : Going(i) /\ RecordsCall(i)) \/ Completes
  BY DEF Calls, Replies, Returns, Starts, Begins, EntersChild, Enters, Leaves, Invoke, Idles
<1> QED
  BY <1>3, <1>4, <1>5, <1>6

LEMMA CallbacksSteps ==
  ASSUME ContextsInv,
         \/ \E i : Calls(i)
         \/ Starts
         \/ EntersChild
         \/ Leaves
         \/ Invoke
         \/ Completes
         \/ Idles
  PROVE  CallbacksOK'
<1>1. SUFFICES ASSUME NEW j \in 1..Len(stack'), NEW n \in 1..Len(stack'[j].results),
                      stack'[j].body[n].kind = "callback"
               PROVE  IdIn(j, n)' \in DOMAIN log' /\ log'[IdIn(j, n)'].type = "CALLBACK"
  BY DEF CallbacksOK
<1>2. LogGrows /\ StackOK
  BY LogSteps DEF ContextsInv
<1>3. CASE Was(j, n)
  <2>1. IdIn(j, n)' = IdIn(j, n)
    BY <1>3 DEF Was, IdIn
  <2>2. IdIn(j, n) \in DOMAIN log /\ log[IdIn(j, n)].type = "CALLBACK"
    BY <1>1, <1>3 DEF Was, ContextsInv, CallbacksOK
  <2> QED
    BY <1>2, <2>1, <2>2 DEF LogGrows, Evolves
<1>4. CASE \E i : Calls(i)
  <2>1. PICK i, o : Replies(i, o)
    BY <1>4 DEF Calls
  <2>2. CASE /\ j = i /\ n = Position(i) /\ stack'[i].body = stack[i].body
             /\ ContextId(i)' = ContextId(i)
    <3>1. CallIn(i).kind = "callback" /\ IdIn(j, n)' = CallId(i)
      BY <1>1, <2>2 DEF CallIn, IdIn, CallId
    <3>2. Told(i, o) /\ CallOp(i) = CallId(i)
      BY <2>1, <3>1 DEF Replies, CallOp
    <3>3. CallId(i) \in DOMAIN log' /\ Decision("callback", log'[CallId(i)]) = "replay"
      BY <3>1, <3>2 DEF Told, Agreed, Guarded, Durable
    <3>4. log'[CallId(i)].type = "CALLBACK"
      BY <3>3 DEF Decision, CallbackDecision, Type
    <3> QED
      BY <3>1, <3>3, <3>4
  <2>3. Returns(i, o)
    BY <2>1 DEF Replies
  <2> QED
    BY <1>2, <1>3, <2>2, <2>3, CallsResults
<1> QED
  BY <1>2, <1>3, <1>4, OtherResults

LEMMA StackSteps ==
  ASSUME StackOK,
         \/ \E i : Calls(i)
         \/ Starts
         \/ EntersChild
         \/ Leaves
         \/ Invoke
         \/ Completes
         \/ Idles
  PROVE  StackOK'
<1>1. CASE \E i : Calls(i)
  BY <1>1, StackReturns DEF Calls, Replies
<1>2. CASE Starts
  BY <1>2, StackBegins DEF Starts
<1>3. CASE EntersChild
  BY <1>3, StackEnters DEF EntersChild
<1>4. CASE Leaves
  BY <1>4, StackForgets DEF Leaves
<1>5. CASE Invoke
  BY <1>5, StackInvoked
<1>6. CASE Completes \/ Idles
  <2>1. UNCHANGED <<handler, stack, pc>> /\ (invocation' = "running" <=> invocation = "running")
    BY <1>6, SeqIs DEF Completes, Idles, StackOK
  <2>2. \A i : Position(i)' = Position(i)
    BY <2>1 DEF Position
  <2>3. \A i : CallIn(i)' = CallIn(i) /\ Made(i)' = Made(i) /\ ContextId(i)' = ContextId(i)
    BY <2>1, <2>2 DEF CallIn, Made, ContextId
  <2>4. \A i : FrameOK(i)' <=> FrameOK(i)
    BY <2>1, <2>3 DEF FrameOK
  <2>5. CallIn(Len(stack))' = CallIn(Len(stack))
    BY <2>1, <2>3
  <2> QED
    BY <2>1, <2>3, <2>4, <2>5 DEF StackOK
<1> QED
  BY <1>1, <1>2, <1>3, <1>4, <1>5, <1>6

LEMMA ContextsInit ==
  ASSUME Init
  PROVE  ContextsInv
<1>1. IsSeq(stack) /\ Len(stack) = 0 /\ pc = "call" /\ invocation # "running"
      /\ handler \in Handlers /\ log = <<>>
  BY EmptyIs DEF Init
<1>2. DOMAIN log = {}
  BY <1>1
<1>3. LogOK /\ LogTyped
  BY <1>1, <1>2 DEF LogOK, LogTyped
<1>4. StackOK /\ OpenInv /\ CallbacksOK
  BY <1>1 DEF StackOK, OpenInv, CallbacksOK
<1> QED
  BY <1>3, <1>4 DEF ContextsInv

LEMMA ContextsStep ==
  ASSUME ContextsInv, OwnContexts, [Next]_vars
  PROVE  /\ ContextsInv' /\ LogGrows
         /\ \/ \E i : Calls(i)
            \/ Starts
            \/ EntersChild
            \/ Leaves
            \/ Invoke
            \/ Completes
            \/ Idles
<1>1. \/ \E i : Calls(i)
      \/ Starts
      \/ EntersChild
      \/ Leaves
      \/ Invoke
      \/ Completes
      \/ Idles
  BY StepIs
<1>2. StackOK /\ LogOK
  BY DEF ContextsInv
<1>3. StackOK'
  BY <1>1, <1>2, StackSteps
<1>4. LogOK' /\ LogGrows
  BY <1>1, <1>2, LogSteps
<1>5. OpenInv'
  BY <1>1, <1>3, OpenSteps
<1>6. LogTyped'
  BY <1>1, TypedSteps
<1>7. CallbacksOK'
  BY <1>1, CallbacksSteps
<1> QED
  BY <1>1, <1>3, <1>4, <1>5, <1>6, <1>7 DEF ContextsInv

-----------------------------------------------------------------------------
(* Nothing is recorded below a context that has ended.                     *)

LEMMA ContextsAreWellFormed ==
  ASSUME OwnContexts
  PROVE  Spec => []ContextsInv
<1>1. Init => ContextsInv
  BY ContextsInit
<1>2. ContextsInv /\ [Next]_vars => ContextsInv'
  BY ContextsStep
<1> QED
  BY <1>1, <1>2, PTL DEF Spec

LEMMA PrefixIs ==
  ASSUME NEW s, IsSeq(s), NEW n \in 0..Len(s)
  PROVE  /\ IsSeq(SubSeq(s, 1, n)) /\ Len(SubSeq(s, 1, n)) = n
         /\ \A i \in 1..n : SubSeq(s, 1, n)[i] = s[i]
<1>1. PICK S : s \in Seq(S)
  BY DEF IsSeq
<1>2. n \in Nat /\ \A i \in 1..n : s[i] \in S
  BY <1>1
<1>3. /\ SubSeq(s, 1, n) \in Seq(S)
      /\ Len(SubSeq(s, 1, n)) = IF 1 <= n THEN n - 1 + 1 ELSE 0
      /\ \A i \in 1..(n - 1 + 1) : SubSeq(s, 1, n)[i] = s[1 + i - 1]
  BY <1>2, SubSeqProperties
<1>4. \A i \in 1..n : SubSeq(s, 1, n)[i] = s[i]
  BY <1>2, <1>3
<1> QED
  BY <1>2, <1>3, <1>4 DEF IsSeq

\* The beginnings of the id of a call are the ids of the contexts around it.
LEMMA ContextIdPrefix ==
  ASSUME NEW i \in Nat \ {0}, NEW n \in 0..(i - 1)
  PROVE  SubSeq(CallId(i), 1, n) = ContextId(n + 1)
<1>1. IsSeq(ContextId(i)) /\ Len(ContextId(i)) = i - 1
  BY ContextIdIs
<1>2. /\ IsSeq(CallId(i)) /\ Len(CallId(i)) = i
      /\ \A j \in 1..(i - 1) : CallId(i)[j] = ContextId(i)[j]
  BY <1>1, AppendIs DEF CallId
<1>3. IsSeq(ContextId(n + 1)) /\ Len(ContextId(n + 1)) = n
  BY ContextIdIs
<1>4. /\ IsSeq(SubSeq(CallId(i), 1, n)) /\ Len(SubSeq(CallId(i), 1, n)) = n
      /\ \A j \in 1..n : SubSeq(CallId(i), 1, n)[j] = CallId(i)[j]
  BY <1>2, PrefixIs
<1>5. ASSUME NEW j \in 1..n PROVE CallId(i)[j] = ContextId(n + 1)[j]
  <2>1. j \in 1..(i - 1) /\ j \in 1..(n + 1 - 1)
    OBVIOUS
  <2> QED
    BY <1>2, <2>1 DEF ContextId
<1> QED
  BY <1>3, <1>4, <1>5, SameSeq

\* What is recorded first is the operation of a call on the stack, and the contexts that
\* its id begins with are all open.  Without replay_children, which OwnContexts excludes
\* as it does the calls on the parent's context, one that has ended is never on the stack
\* again; nothing is proved of contexts that are reconstructed.
THEOREM ContextsAreSealed ==
  ASSUME OwnContexts
  PROVE  Spec => ContextIsSealed
<1> DEFINE Sealed == \A id \in DOMAIN log' \ DOMAIN log : \A n \in 1..(Len(id) - 1) :
                       SubSeq(id, 1, n) \in DOMAIN log =>
                         log[SubSeq(id, 1, n)].status \notin Terminal
<1>1. ContextsInv /\ [Next]_vars => Sealed
  <2> SUFFICES ASSUME ContextsInv, [Next]_vars,
                      NEW id \in DOMAIN log' \ DOMAIN log, NEW n \in 1..(Len(id) - 1)
               PROVE  log[SubSeq(id, 1, n)].status \notin Terminal
    OBVIOUS
  <2>1. PICK i : Going(i) /\ RecordsCall(i)
    <3>1. DOMAIN log' # DOMAIN log
      OBVIOUS
    <3>2. Completes => DOMAIN log' = DOMAIN log
      <4> SUFFICES ASSUME Completes PROVE DOMAIN log' = DOMAIN log
        OBVIOUS
      <4>1. PICK d, op : d \in DOMAIN log /\ Records(d, op)
        BY DEF Completes
      <4> QED
        BY <4>1, RecordsGrow DEF ContextsInv
    <3> QED
      BY <3>1, <3>2, StepIs
      DEF Calls, Replies, Returns, Starts, Begins, EntersChild, Enters, Leaves, Invoke, Idles
  <2>2. id = CallId(i)
    <3>1. PICK d, op : Records(d, op) /\ (d = CallId(i) \/ d \in DOMAIN log)
      BY <2>1 DEF RecordsCall, Own, Cancels
    <3>2. DOMAIN log' = DOMAIN log \cup {d}
      BY <3>1, RecordsGrow DEF ContextsInv
    <3> QED
      BY <3>1, <3>2
  <2>3. i \in Nat \ {0} /\ i \in 1..Len(stack) /\ Len(stack) \in Nat
    BY <2>1, SeqIs DEF ContextsInv, StackOK, Going
  <2>4. Len(id) = i
    BY <2>2, <2>3, ContextIdIs, AppendIs DEF CallId
  <2>5. SubSeq(id, 1, n) = ContextId(n + 1) /\ n + 1 \in 2..Len(stack)
    BY <2>2, <2>3, <2>4, ContextIdPrefix
  <2> QED
    BY <2>5 DEF ContextsInv, OpenInv
<1> HIDE DEF Sealed
<1>2. Spec => []ContextsInv
  BY ContextsAreWellFormed
<1>3. Spec => [][Sealed]_vars
  BY <1>1, <1>2, PTL DEF Spec
<1> QED
  BY <1>3 DEF ContextIsSealed, Sealed

-----------------------------------------------------------------------------
(* Every invocation returns what the first has returned.                   *)

\* The operation that a call at this place is about.
OpAt(b, p) ==
  [j \in 1..Len(b) |-> Count(b[j], IF j = Len(b) /\ CallAt(b, p).kind = "result"
                                   THEN CallAt(b, p).of ELSE p[j])]

\* What has been observed at a place is what its operation returns when it is replayed.
ObservedOK ==
  \A b, p : Place(b, p) /\ p \in DOMAIN observed =>
              Agreed(log, CallAt(b, p), OpAt(b, p), observed[p])

\* The outcomes that no operation guards, or that have been recorded without their value.
Unsure(call, o) == call.kind \in {"submit", "cancel"} \/ o.error = "SerDes"

ResultsOK ==
  \A i \in 1..Len(stack) : \A n \in 1..Len(stack[i].results) :
    stack[i].results[n].error # "Suspend" =>
      /\ PathTo(i, n) \in DOMAIN observed
      /\ ~Unsure(stack[i].body[n], stack[i].results[n]) =>
           Same(stack[i].results[n], observed[PathTo(i, n)])

AgreesInv == ContextsInv /\ ObservedOK /\ ResultsOK

LEMMA CallPlace ==
  ASSUME StackOK, NEW i, Going(i)
  PROVE  /\ Place(BodiesTo(i), PathTo(i, Position(i)))
         /\ CallAt(BodiesTo(i), PathTo(i, Position(i))) = CallIn(i)
         /\ IdAt(BodiesTo(i), PathTo(i, Position(i))) = CallId(i)
         /\ OpAt(BodiesTo(i), PathTo(i, Position(i))) = CallOp(i)
<1> DEFINE b == BodiesTo(i)
           p == PathTo(i, Position(i))
<1>1. i \in 1..Len(stack) /\ Position(i) \in 1..Len(stack[i].body) /\ i \in Nat
      /\ Position(i) = Len(stack[i].results) + 1 /\ Len(stack[i].results) \in Nat
  <2>1. i \in 1..Len(stack) /\ Len(stack) \in Nat
    BY SeqIs DEF StackOK, Going
  <2> QED
    BY <2>1, FrameIs DEF Going, Position
<1>2. Place(b, p) /\ CallAt(b, p) = CallIn(i) /\ IdAt(b, p) = CallId(i)
  BY <1>1, StackPlace DEF CallIn, IdIn, CallId
<1>3. Len(b) = i /\ \A j \in 1..i : p[j] = IF j < i THEN Position(j) ELSE Position(i)
  BY <1>1, TableIs DEF BodiesTo, PathTo
<1>4. CASE CallIn(i).kind # "result"
  <2>1. OpAt(b, p) = IdAt(b, p)
    BY <1>2, <1>4 DEF OpAt, IdAt
  <2> QED
    BY <1>2, <1>4, <2>1 DEF CallOp
<1>5. CASE CallIn(i).kind = "result"
  <2> DEFINE n == CallIn(i).of
             q == PathTo(i, n)
  <2>1. n \in 1..Len(stack[i].results)
    BY <1>5, CallIsLegal
  <2>2. n \in 1..Len(stack[i].body)
    BY <1>1, <2>1
  <2>3. IdAt(b, q) = IdIn(i, n)
    BY <1>1, <2>2, StackPlace
  <2>4. \A j \in 1..i : q[j] = IF j = i THEN n ELSE p[j]
    BY <1>1, <1>3 DEF PathTo
  <2>5. IdAt(b, q) = [j \in 1..i |-> Count(b[j], q[j])]
    BY <1>3 DEF IdAt
  <2>6. OpAt(b, p) = [j \in 1..i |-> Count(b[j], IF j = i THEN n ELSE p[j])]
    BY <1>2, <1>3, <1>5 DEF OpAt
  <2>7. OpAt(b, p) = IdAt(b, q)
    <3> HIDE DEF b, p, n, q
    <3> QED
      BY <2>4, <2>5, <2>6
  <2> QED
    BY <1>2, <1>5, <2>3, <2>7 DEF CallOp
<1> QED
  BY <1>2, <1>4, <1>5

\* An operation that is replayed does not change.
LEMMA AgreedStays ==
  ASSUME LogOK, LogOK', LogGrows, NEW call, NEW id, NEW o, Agreed(log, call, id, o)
  PROVE  Agreed(log', call, id, o)
<1>1. CASE call.kind \notin Guarded
  BY <1>1 DEF Agreed
<1>2. CASE call.kind \in Guarded
  <2>1. id \in DOMAIN log /\ Decision(call.kind, log[id]) = "replay" /\ id \in DOMAIN log'
        /\ IsOp(log[id]) /\ IsOp(log'[id])
    BY <1>2 DEF Agreed, LogGrows, LogOK
  <2>2. CASE log'[id] = log[id]
    BY <2>1, <2>2 DEF Agreed
  <2>3. CASE Evolves(log[id], log'[id])
    <3>1. log[id].status \notin Terminal /\ log'[id].type = log[id].type
      BY <2>3 DEF Evolves
    <3>2. call.kind = "callback"
      BY <1>2, <2>1, <3>1
      DEF Guarded, Durable, Decision, StepDecision, ConditionDecision, WaitDecision,
          ResultDecision, HasResult, InvokeDecision, ChildDecision, Terminal
    <3>3. Decision("callback", log'[id]) = "replay"
      <4>1. log'[id].status # "NONE" /\ log[id].status # "NONE"
        BY <2>1 DEF IsOp
      <4> QED
        BY <2>1, <3>1, <3>2, <4>1 DEF Decision, CallbackDecision
    <3>4. Same(o, Replayed("callback", log[id]))
      BY <1>2, <3>2 DEF Agreed
    <3>5. Replayed("callback", log'[id]) = Replayed("callback", log[id])
      BY DEF Replayed
    <3> QED
      BY <2>1, <3>2, <3>3, <3>4, <3>5 DEF Agreed
  <2> QED
    BY <2>1, <2>2, <2>3 DEF LogGrows
<1> QED
  BY <1>1, <1>2

LEMMA ObservedSteps ==
  ASSUME AgreesInv, ContextsInv', LogGrows,
         \/ \E i : Calls(i)
         \/ Starts
         \/ EntersChild
         \/ Leaves
         \/ Invoke
         \/ Completes
         \/ Idles
  PROVE  ObservedOK'
<1>1. SUFFICES ASSUME NEW b, NEW p, Place(b, p)', p \in DOMAIN observed'
               PROVE  Agreed(log', CallAt(b, p), OpAt(b, p), observed'[p])
  BY DEF ObservedOK
<1>2. UNCHANGED handler
  BY DEF Calls, Replies, Returns, Starts, Begins, EntersChild, Enters, Leaves, Forgets, Invoke,
         Completes, Idles
<1>3. Place(b, p)
  BY <1>1, <1>2 DEF Place
<1>4. CASE p \in DOMAIN observed /\ observed'[p] = observed[p]
  <2>1. Agreed(log, CallAt(b, p), OpAt(b, p), observed[p])
    BY <1>3, <1>4 DEF AgreesInv, ObservedOK
  <2> QED
    BY <1>4, <2>1, AgreedStays DEF AgreesInv, ContextsInv
<1>5. CASE observed' = observed
  BY <1>1, <1>4, <1>5
<1>6. CASE \E i : Calls(i)
  <2>1. PICK i, o : Replies(i, o)
    BY <1>6 DEF Calls
  <2> DEFINE path == PathTo(i, Position(i))
  <2>2. CASE o.error = "Suspend" \/ path \in DOMAIN observed
    <3>1. observed' = observed
      BY <2>1, <2>2 DEF Replies, Returns
    <3> QED
      BY <1>5, <3>1
  <2>3. CASE ~(o.error = "Suspend" \/ path \in DOMAIN observed)
    <3>1. observed' = Put(observed, path, o)
      BY <2>1, <2>3 DEF Replies, Returns
    <3>2. DOMAIN observed' = DOMAIN observed \cup {path} /\ observed'[path] = o
          /\ \A q \in DOMAIN observed : observed'[q] = observed[q]
      <4> HIDE DEF path
      <4> QED
        BY <2>3, <3>1 DEF Put
    <3>3. CASE p # path
      BY <1>1, <1>4, <3>2, <3>3
    <3>4. CASE p = path
      <4>1. /\ Place(BodiesTo(i), path) /\ CallAt(BodiesTo(i), path) = CallIn(i)
            /\ OpAt(BodiesTo(i), path) = CallOp(i)
        BY <2>1, CallPlace DEF AgreesInv, ContextsInv, Replies, Returns
      <4>2. b = BodiesTo(i)
        <5> HIDE DEF path
        <5> QED
          BY <1>3, <3>4, <4>1, BodiesOfPath
      <4>3. Agreed(log', CallIn(i), CallOp(i), o)
        BY <2>1, <2>3 DEF Replies, Told
      <4> QED
        BY <3>2, <3>4, <4>1, <4>2, <4>3
    <3> QED
      BY <3>3, <3>4
  <2> QED
    BY <2>2, <2>3
<1>7. CASE Starts \/ EntersChild \/ Leaves \/ Invoke \/ Completes \/ Idles
  <2>1. observed' = observed
    BY <1>7 DEF Starts, Begins, EntersChild, Enters, Leaves, Forgets, Invoke, Completes, Idles
  <2> QED
    BY <1>5, <2>1
<1> QED
  BY <1>6, <1>7

\* What a call returns is what has been observed at its place, if it has been there before.
LEMMA SameAgain ==
  ASSUME AgreesInv, NEW i, NEW o, Replies(i, o), o.error # "Suspend",
         PathTo(i, Position(i)) \in DOMAIN observed, ~Unsure(CallIn(i), o)
  PROVE  Same(o, observed[PathTo(i, Position(i))])
<1> DEFINE path == PathTo(i, Position(i))
           q    == observed[path]
           call == CallIn(i)
           id   == CallOp(i)
<1>1. StackOK /\ Going(i) /\ Told(i, o)
  BY DEF AgreesInv, ContextsInv, Replies, Returns
<1>2. /\ Place(BodiesTo(i), path) /\ CallAt(BodiesTo(i), path) = call
      /\ OpAt(BodiesTo(i), path) = id
  BY <1>1, CallPlace
<1>3. Agreed(log, call, id, q)
  BY <1>2 DEF AgreesInv, ObservedOK
<1>4. CASE call.kind \in Guarded
  <2>1. id \in DOMAIN log /\ Decision(call.kind, log[id]) = "replay"
    BY <1>3, <1>4 DEF Agreed
  <2>2. ~(call.kind = "child" /\ log[id].value = Summary) /\ Same(o, Replayed(call.kind, log[id]))
    BY <1>1, <1>4, <2>1 DEF Told, Unsure
  <2>3. Same(q, Replayed(call.kind, log[id]))
    BY <1>3, <1>4, <2>2 DEF Agreed
  <2> QED
    BY <2>2, <2>3 DEF Same
<1>5. CASE call.kind \in {"nextId", "complete"}
  BY <1>1, <1>3, <1>5 DEF Agreed, Told, Same
<1>6. call.kind \in Guarded \cup {"nextId", "complete"}
  BY <1>1, CallIsLegal DEF Unsure, Guarded, Durable
<1> QED
  BY <1>4, <1>5, <1>6

LEMMA ResultsSteps ==
  ASSUME AgreesInv,
         \/ \E i : Calls(i)
         \/ Starts
         \/ EntersChild
         \/ Leaves
         \/ Invoke
         \/ Completes
         \/ Idles
  PROVE  ResultsOK'
<1>1. SUFFICES ASSUME NEW j \in 1..Len(stack'), NEW n \in 1..Len(stack'[j].results),
                      stack'[j].results[n].error # "Suspend"
               PROVE  /\ PathTo(j, n)' \in DOMAIN observed'
                      /\ ~Unsure(stack'[j].body[n], stack'[j].results[n]) =>
                           Same(stack'[j].results[n], observed'[PathTo(j, n)'])
  BY DEF ResultsOK
<1>2. StackOK
  BY DEF AgreesInv, ContextsInv
<1>3. ASSUME Was(j, n),
             \A p \in DOMAIN observed : p \in DOMAIN observed' /\ observed'[p] = observed[p]
      PROVE  /\ PathTo(j, n)' \in DOMAIN observed'
             /\ ~Unsure(stack'[j].body[n], stack'[j].results[n]) =>
                  Same(stack'[j].results[n], observed'[PathTo(j, n)'])
  <2>1. /\ PathTo(j, n) \in DOMAIN observed
        /\ ~Unsure(stack[j].body[n], stack[j].results[n]) =>
             Same(stack[j].results[n], observed[PathTo(j, n)])
    BY <1>1, <1>3 DEF AgreesInv, ResultsOK, Was
  <2> QED
    BY <1>3, <2>1 DEF Was
<1>4. CASE \E i : Calls(i)
  <2>1. PICK i, o : Replies(i, o) /\ Returns(i, o)
    BY <1>4 DEF Calls, Replies
  <2> DEFINE path == PathTo(i, Position(i))
  <2>2. /\ \A p \in DOMAIN observed : p \in DOMAIN observed' /\ observed'[p] = observed[p]
        /\ o.error # "Suspend" =>
             /\ path \in DOMAIN observed'
             /\ observed'[path] = IF path \in DOMAIN observed THEN observed[path] ELSE o
    <3>1. observed' = IF o.error = "Suspend" \/ path \in DOMAIN observed THEN observed
                      ELSE Put(observed, path, o)
      BY <2>1 DEF Returns
    <3> HIDE DEF path
    <3> QED
      BY <3>1 DEF Put
  <2>3. CASE /\ j = i /\ n = Position(i) /\ stack'[j].results[n] = o
             /\ stack'[i].body = stack[i].body /\ PathTo(i, n)' = PathTo(i, n)
    <3>1. PathTo(j, n)' = path /\ o.error # "Suspend" /\ stack'[j].body[n] = CallIn(i)
      BY <1>1, <2>3 DEF CallIn
    <3>2. ASSUME ~Unsure(CallIn(i), o) PROVE Same(o, observed'[path])
      <4>1. CASE path \in DOMAIN observed
        BY <2>1, <2>2, <3>1, <3>2, <4>1, SameAgain
      <4>2. CASE path \notin DOMAIN observed
        BY <2>2, <3>1, <4>2 DEF Same
      <4> QED
        BY <4>1, <4>2
    <3> QED
      BY <2>2, <2>3, <3>1, <3>2
  <2> QED
    BY <1>2, <1>3, <2>1, <2>2, <2>3, CallsResults
<1>5. CASE Starts \/ EntersChild \/ Leaves \/ Invoke \/ Completes \/ Idles
  <2>1. observed' = observed
    BY <1>5 DEF Starts, Begins, EntersChild, Enters, Leaves, Forgets, Invoke, Completes, Idles
  <2>2. Was(j, n)
    BY <1>2, <1>5, OtherResults
  <2> QED
    BY <1>3, <2>1, <2>2
<1> QED
  BY <1>4, <1>5

LEMMA AgreesInit ==
  ASSUME Init
  PROVE  AgreesInv
<1>1. ContextsInv
  BY ContextsInit
<1>2. DOMAIN observed = {}
  BY DEF Init
<1>3. Len(stack) = 0
  BY EmptyIs DEF Init
<1> QED
  BY <1>1, <1>2, <1>3 DEF AgreesInv, ObservedOK, ResultsOK

LEMMA AgreesImplies ==
  ASSUME AgreesInv
  PROVE  ReplayAgrees
<1> SUFFICES ASSUME NEW i \in DOMAIN stack, NEW n \in DOMAIN stack[i].results,
                    stack[i].body[n].kind \notin {"submit", "cancel"},
                    stack[i].results[n].error \notin {"Suspend", "SerDes"}
             PROVE  Same(stack[i].results[n],
                         observed[Append(SubSeq(PathIn(stack), 1, i - 1), n)])
  BY DEF ReplayAgrees, Same
<1>1. StackOK /\ Len(stack) \in Nat /\ i \in 1..Len(stack)
  BY SeqIs DEF AgreesInv, ContextsInv, StackOK
<1>2. n \in 1..Len(stack[i].results)
  BY <1>1, FrameIs, SeqIs
<1>3. /\ IsSeq(PathIn(stack)) /\ Len(PathIn(stack)) = Len(stack)
      /\ \A j \in 1..Len(stack) : PathIn(stack)[j] = Position(j)
  <2>1. PathIn(stack) = [j \in 1..Len(stack) |-> Position(j)]
    BY SeqIs DEF AgreesInv, ContextsInv, StackOK, PathIn, Position
  <2> QED
    BY <1>1, <2>1, TableIs
<1> DEFINE before == SubSeq(PathIn(stack), 1, i - 1)
<1>4. /\ IsSeq(before) /\ Len(before) = i - 1
      /\ \A j \in 1..(i - 1) : before[j] = Position(j)
  <2>1. i - 1 \in 0..Len(PathIn(stack))
    BY <1>1, <1>3
  <2>2. \A j \in 1..(i - 1) : j \in 1..Len(stack)
    BY <1>1
  <2> QED
    BY <1>3, <2>1, <2>2, PrefixIs
<1> HIDE DEF before
<1>5. Append(before, n) = PathTo(i, n)
  <2>1. /\ IsSeq(Append(before, n)) /\ Len(Append(before, n)) = i
        /\ \A j \in 1..(i - 1) : Append(before, n)[j] = Position(j)
        /\ Append(before, n)[i] = n
    BY <1>1, <1>4, AppendIs
  <2>2. /\ IsSeq(PathTo(i, n)) /\ Len(PathTo(i, n)) = i
        /\ \A j \in 1..i : PathTo(i, n)[j] = IF j < i THEN Position(j) ELSE n
    BY <1>1, TableIs DEF PathTo
  <2>3. \A j \in 1..i : Append(before, n)[j] = PathTo(i, n)[j]
    BY <1>1, <2>1, <2>2
  <2> QED
    BY <2>1, <2>2, <2>3, SameSeq
<1>6. Same(stack[i].results[n], observed[PathTo(i, n)])
  BY <1>1, <1>2 DEF AgreesInv, ResultsOK, Unsure
<1> QED
  BY <1>5, <1>6 DEF before

\* What has been observed at a place is what its operation is replayed as: the operation had
\* ended when the call returned, and one that has ended never changes.
LEMMA AgreesAlways ==
  ASSUME OwnContexts
  PROVE  Spec => []AgreesInv
<1>1. Init => AgreesInv
  BY AgreesInit
<1>2. AgreesInv /\ [Next]_vars => AgreesInv'
  <2> SUFFICES ASSUME AgreesInv, [Next]_vars PROVE AgreesInv'
    OBVIOUS
  <2>1. /\ ContextsInv' /\ LogGrows
        /\ \/ \E i : Calls(i)
           \/ Starts
           \/ EntersChild
           \/ Leaves
           \/ Invoke
           \/ Completes
           \/ Idles
    BY ContextsStep DEF AgreesInv
  <2>2. ObservedOK' /\ ResultsOK'
    BY <2>1, ObservedSteps, ResultsSteps
  <2> QED
    BY <2>1, <2>2 DEF AgreesInv
<1> QED
  BY <1>1, <1>2, PTL DEF Spec

\* Every invocation gets of every call what the first has got, as ReplayAgrees says it.  The
\* contexts that have ended are replayed from their own record: OwnContexts excludes those
\* with replay_children, of which nothing is proved, and calls on the parent's context.
THEOREM InvocationsAgree ==
  ASSUME OwnContexts
  PROVE  Spec => []ReplayAgrees
<1>1. Spec => []AgreesInv
  BY AgreesAlways
<1>2. AgreesInv => ReplayAgrees
  BY AgreesImplies
<1> QED
  BY <1>1, <1>2, PTL

-----------------------------------------------------------------------------
(***************************************************************************)
(* Two theorems about the bodies of an execution.                          *)
(*                                                                         *)
(* How often user code runs.  The operation of a step or of a condition,   *)
(* and the context of a submitter, are what keeps the code from running    *)
(* again: as long as they have not ended, each time but the last is that   *)
(* of an attempt that has been recorded, or of an invocation that has been *)
(* lost.                                                                   *)
(*                                                                         *)
(* What an execution leaves behind when it ends.  A body that takes the    *)
(* same course in every invocation comes again, before it returns, to all  *)
(* the calls that have been recorded in its context; it has their results  *)
(* then, and they are those of operations that have ended.                 *)
(***************************************************************************)


SubmittersLast == \A body \in Bodies : SubmitsLast(body)

\* The context that the call at this place is made on.
ContextAt(b, p) == [j \in 1..(Len(b) - 1) |-> Count(b[j], p[j])]

\* The user code at this place does not run any more.
Settled(b, p) ==
  IF CallAt(b, p).kind = "submit"
  THEN \/ Len(b) = 1 /\ invocation = "over"
       \/ /\ Len(b) > 1 /\ ContextAt(b, p) \in DOMAIN log
          /\ log[ContextAt(b, p)].status \in Terminal
  ELSE IdAt(b, p) \in DOMAIN log /\ log[IdAt(b, p)].status \in Terminal

\* The attempts that have been recorded.
Attempted(b, p) ==
  IF CallAt(b, p).kind = "condition" THEN CurrentAttempt(Get(log, IdAt(b, p), Absent)) - 1 ELSE 0

\* The innermost context is at this place, or has just been.
Under(p, done) ==
  /\ Len(stack) > 0
  /\ p = [j \in 1..Len(stack) |-> IF j < Len(stack) THEN Len(stack[j].results) + 1
                                  ELSE Len(stack[j].results) + 1 - done]

\* The user code at this place runs, or has run and its context has not returned yet.
Now(b, p) ==
  \/ pc = "run" /\ Under(p, 0)
  \/ pc = "call" /\ Under(p, 1) /\ CallAt(b, p).kind = "submit"

\* Every time that the user code at a place has run is accounted for.
Accounted(b, p) ==
  /\ runs[p] \in Nat
  /\ Settled(b, p) \/ runs[p] <= Attempted(b, p) + crashes + IF Now(b, p) THEN 1 ELSE 0

RunsOK ==
  \A b, p : Place(b, p) /\ p \in DOMAIN runs /\ CallAt(b, p).kind \in UserCode => Accounted(b, p)

RunningOK == pc = "run" => Path \in DOMAIN runs

\* No operation has been tried more often than its call allows.
AttemptsOK ==
  \A id \in DOMAIN log : \A b, p :
    Place(b, p) /\ TakesId(CallAt(b, p)) /\ IdAt(b, p) = id =>
      CurrentAttempt(log[id]) <= CallAt(b, p).attempts

SubmitsOK ==
  \A i \in 1..Len(stack) : \A n \in 1..Len(stack[i].results) :
    stack[i].body[n].kind = "submit" => stack[i].results[n].error # "Suspend"

RunsInv ==
  ContextsInv /\ crashes \in Nat /\ AttemptsOK /\ SubmitsOK /\ RunningOK /\ RunsOK

-----------------------------------------------------------------------------
(* Attempts and submitters.                                                *)

LEMMA AttemptsOfPlace ==
  ASSUME NEW b, NEW p, Place(b, p)
  PROVE  CallAt(b, p).attempts \in Nat \ {0}
<1>1. Len(b) \in 1..Len(b)
  BY SeqIs DEF Place
<1>2. b[Len(b)] \in Bodies /\ p[Len(b)] \in DOMAIN b[Len(b)]
  BY <1>1, BodyIs DEF Place
<1> QED
  BY <1>2, BodyAssumption DEF Place, CallAt

LEMMA AttemptsKept ==
  ASSUME AttemptsOK, LogOK, UNCHANGED handler, NEW id, NEW op, Records(id, op),
         \A b, p : Place(b, p) /\ TakesId(CallAt(b, p)) /\ IdAt(b, p) = id =>
           CurrentAttempt(op) <= CallAt(b, p).attempts
  PROVE  AttemptsOK'
<1> SUFFICES ASSUME NEW d \in DOMAIN log', NEW b, NEW p,
                    Place(b, p)', TakesId(CallAt(b, p)), IdAt(b, p) = d
             PROVE  CurrentAttempt(log'[d]) <= CallAt(b, p).attempts
  BY DEF AttemptsOK
<1>1. Place(b, p)
  BY DEF Place
<1>2. /\ DOMAIN log' = DOMAIN log \cup {id} /\ log'[id] = op
      /\ \A e \in DOMAIN log \ {id} : log'[e] = log[e]
  BY RecordsGrow
<1>3. CASE d = id
  BY <1>1, <1>2, <1>3
<1>4. CASE d # id
  <2>1. d \in DOMAIN log /\ log'[d] = log[d]
    BY <1>2, <1>4
  <2> QED
    BY <1>1, <2>1 DEF AttemptsOK
<1> QED
  BY <1>3, <1>4

LEMMA AttemptsSteps ==
  ASSUME RunsInv,
         \/ \E i : Calls(i)
         \/ Starts
         \/ EntersChild
         \/ Leaves
         \/ Invoke
         \/ Completes
         \/ Idles
  PROVE  AttemptsOK'
<1>1. UNCHANGED handler /\ AttemptsOK /\ LogOK /\ StackOK
  BY DEF RunsInv, ContextsInv, Calls, Replies, Returns, Starts, Begins, EntersChild, Enters,
         Leaves, Forgets, Invoke, Completes, Idles
<1>2. CASE log' = log
  <2>1. \A b, p : Place(b, p)' => Place(b, p)
    BY <1>1 DEF Place
  <2> QED
    BY <1>1, <1>2, <2>1 DEF AttemptsOK
<1>3. ASSUME NEW id \in DOMAIN log, NEW op, Records(id, op), op.attempt = log[id].attempt
      PROVE  AttemptsOK'
  <2>1. ASSUME NEW b, NEW p, Place(b, p), TakesId(CallAt(b, p)), IdAt(b, p) = id
        PROVE  CurrentAttempt(op) <= CallAt(b, p).attempts
    BY <1>1, <1>3, <2>1 DEF AttemptsOK, CurrentAttempt
  <2> QED
    BY <1>1, <1>3, <2>1, AttemptsKept
<1>4. ASSUME NEW i, Going(i), NEW id, NEW op, Records(id, op), Own(i, id, op)
      PROVE  AttemptsOK'
  <2>1. /\ Place(BodiesTo(i), PathTo(i, Position(i)))
        /\ CallAt(BodiesTo(i), PathTo(i, Position(i))) = CallIn(i)
        /\ IdAt(BodiesTo(i), PathTo(i, Position(i))) = CallId(i)
    BY <1>1, <1>4, CallPlace
  <2>2. ASSUME NEW b, NEW p, Place(b, p), TakesId(CallAt(b, p)), IdAt(b, p) = id
        PROVE  CurrentAttempt(op) <= CallAt(b, p).attempts
    <3>1. CallAt(b, p) = CallIn(i)
      BY <1>4, <2>1, <2>2, PlaceOfId DEF Own
    <3>2. CallAt(b, p).attempts \in Nat \ {0}
      BY <2>2, AttemptsOfPlace
    <3>3. CASE op.attempt = Get(log, id, Absent).attempt /\ id \in DOMAIN log
      BY <1>1, <2>2, <3>3 DEF AttemptsOK, CurrentAttempt, Get
    <3>4. CASE op.attempt = Get(log, id, Absent).attempt /\ id \notin DOMAIN log
      BY <3>2, <3>4 DEF CurrentAttempt, Get, Absent
    <3>5. CASE CurrentAttempt(op) <= CallIn(i).attempts
      BY <3>1, <3>5
    <3> QED
      BY <1>4, <3>3, <3>4, <3>5 DEF Own
  <2> QED
    BY <1>1, <1>4, <2>2, AttemptsKept
<1>5. ASSUME NEW i, Going(i), RecordsCall(i)
      PROVE  AttemptsOK'
  BY <1>3, <1>4, <1>5 DEF RecordsCall, Cancels
<1>6. CASE Completes
  BY <1>3, <1>6 DEF Completes
<1>7. log' = log \/ (\E i : Going(i) /\ RecordsCall(i)) \/ Completes
  BY DEF Calls, Replies, Returns, Starts, Begins, EntersChild, Enters, Leaves, Invoke, Idles
<1> QED
  BY <1>2, <1>5, <1>6, <1>7

LEMMA SubmitsSteps ==
  ASSUME RunsInv,
         \/ \E i : Calls(i)
         \/ Starts
         \/ EntersChild
         \/ Leaves
         \/ Invoke
         \/ Completes
         \/ Idles
  PROVE  SubmitsOK'
<1>1. SUFFICES ASSUME NEW j \in 1..Len(stack'), NEW n \in 1..Len(stack'[j].results),
                      stack'[j].body[n].kind = "submit"
               PROVE  stack'[j].results[n].error # "Suspend"
  BY DEF SubmitsOK
<1>2. StackOK /\ SubmitsOK
  BY DEF RunsInv, ContextsInv
<1>3. CASE Was(j, n)
  BY <1>1, <1>2, <1>3 DEF Was, SubmitsOK
<1>4. CASE \E i : Calls(i)
  <2>1. PICK i, o : Replies(i, o)
    BY <1>4 DEF Calls
  <2>2. Returns(i, o)
    BY <2>1 DEF Replies
  <2>3. CASE /\ j = i /\ n = Position(i) /\ stack'[j].results[n] = o
             /\ stack'[i].body = stack[i].body
    <3>1. CallIn(i).kind = "submit"
      BY <1>1, <2>3 DEF CallIn
    <3> QED
      BY <2>1, <2>3, <3>1 DEF Replies
  <2> QED
    BY <1>2, <1>3, <2>2, <2>3, CallsResults
<1> QED
  BY <1>2, <1>3, <1>4, OtherResults

-----------------------------------------------------------------------------
(* Where user code runs.                                                   *)

LEMMA PathIs ==
  ASSUME StackOK, Len(stack) > 0
  PROVE  /\ Path = PathTo(Len(stack), Position(Len(stack)))
         /\ Here = CallIn(Len(stack))
<1>1. DOMAIN stack = 1..Len(stack) /\ Len(stack) \in Nat
  BY SeqIs DEF StackOK
<1>2. Path = PathTo(Len(stack), Position(Len(stack)))
  BY <1>1 DEF Path, PathIn, PathTo, Position
<1>3. Top = stack[Len(stack)]
  BY <1>1 DEF Top, Last
<1> QED
  BY <1>2, <1>3 DEF Here, CallIn, Position

LEMMA UnderIs ==
  ASSUME StackOK, NEW p, NEW done \in {0, 1}, Under(p, done)
  PROVE  p = PathTo(Len(stack), Position(Len(stack)) - done)
<1> SUFFICES ASSUME NEW L, L = Len(stack) PROVE p = PathTo(L, Position(L) - done)
  OBVIOUS
<1>1. L \in Nat
  BY SeqIs DEF StackOK
<1>2. p = [j \in 1..L |-> IF j < L THEN Len(stack[j].results) + 1
                         ELSE Len(stack[j].results) + 1 - done]
  BY DEF Under
<1>3. \A j \in 1..L : ~(j < L) => j = L
  BY <1>1
<1>4. p = [j \in 1..L |-> IF j < L THEN Len(stack[j].results) + 1
                         ELSE Len(stack[L].results) + 1 - done]
  BY <1>2, <1>3
<1> QED
  BY <1>4 DEF PathTo, Position

\* A place is that of the innermost context after a step that keeps the contexts around it.
LEMMA UnderNext ==
  ASSUME NEW L \in Nat \ {0}, Len(stack') = L,
         \A j \in 1..(L - 1) : Len(stack'[j].results) = Len(stack[j].results),
         \A j \in 1..L : Len(stack[j].results) \in Nat,
         NEW done \in {0, 1}, Len(stack'[L].results) = Len(stack[L].results) + done,
         NEW p, p = PathTo(L, Position(L))
  PROVE  Under(p, done)'
<1>1. \A j \in 1..L : IF j < L THEN j \in 1..(L - 1) ELSE j = L
  OBVIOUS
<1>2. p = [j \in 1..L |-> IF j < L THEN Len(stack[j].results) + 1 ELSE Len(stack[L].results) + 1]
  BY DEF PathTo, Position
<1>3. \A j \in 1..L : /\ j < L => Len(stack[j].results) = Len(stack'[j].results)
                      /\ ~(j < L) => Len(stack[L].results) + 1 = Len(stack'[j].results) + 1 - done
  <2>1. L \in 1..L /\ Len(stack[L].results) \in Nat
    OBVIOUS
  <2>2. Len(stack[L].results) + 1 = Len(stack'[L].results) + 1 - done
    BY <2>1
  <2> QED
    BY <1>1, <2>2
<1>4. p = [j \in 1..L |-> IF j < L THEN Len(stack'[j].results) + 1
                         ELSE Len(stack'[j].results) + 1 - done]
  BY <1>2, <1>3
<1> QED
  BY <1>4 DEF Under

\* The place of the user code that runs.
LEMMA RunningPlace ==
  ASSUME StackOK, pc = "run", NEW b, NEW p, Place(b, p), Under(p, 0)
  PROVE  /\ Going(Len(stack)) /\ Len(b) = Len(stack)
         /\ CallAt(b, p) = CallIn(Len(stack)) /\ IdAt(b, p) = CallId(Len(stack))
<1> SUFFICES ASSUME NEW L, L = Len(stack)
             PROVE  /\ Going(L) /\ Len(b) = L
                    /\ CallAt(b, p) = CallIn(L) /\ IdAt(b, p) = CallId(L)
  OBVIOUS
<1>1. L \in Nat \ {0} /\ L \in 1..L /\ p = PathTo(L, Position(L))
  <2>1. L \in Nat \ {0} /\ L \in 1..L
    BY SeqIs DEF StackOK, Under
  <2>2. Position(L) - 0 = Position(L)
    BY <2>1, FrameIs DEF Position
  <2> QED
    BY <2>1, <2>2, UnderIs
<1>2. Going(L)
  BY <1>1, FrameIs
<1>3. /\ Place(BodiesTo(L), PathTo(L, Position(L)))
      /\ CallAt(BodiesTo(L), PathTo(L, Position(L))) = CallIn(L)
      /\ IdAt(BodiesTo(L), PathTo(L, Position(L))) = CallId(L)
  BY <1>2, CallPlace
<1>4. b = BodiesTo(L)
  BY <1>1, <1>3, BodiesOfPath
<1>5. Len(BodiesTo(L)) = L
  BY <1>1, TableIs DEF BodiesTo
<1> QED
  BY <1>1, <1>2, <1>3, <1>4, <1>5

\* A submitter that has run is the last call of the innermost context.
LEMMA SubmittedPlace ==
  ASSUME StackOK, SubmittersLast, pc = "call",
         NEW b, NEW p, Place(b, p), Under(p, 1), CallAt(b, p).kind = "submit"
  PROVE  /\ Len(stack) > 0 /\ ~Going(Len(stack)) /\ Len(b) = Len(stack)
         /\ Len(stack[Len(stack)].results) > 0
         /\ stack[Len(stack)].body[Len(stack[Len(stack)].results)].kind = "submit"
         /\ ContextAt(b, p) = ContextId(Len(stack))
<1> SUFFICES ASSUME NEW L, L = Len(stack), NEW n, n = Len(stack[L].results)
             PROVE  /\ L > 0 /\ ~Going(L) /\ Len(b) = L /\ n > 0
                    /\ stack[L].body[n].kind = "submit"
                    /\ ContextAt(b, p) = ContextId(L)
  OBVIOUS
<1>1. L \in Nat \ {0} /\ L \in 1..L
  BY SeqIs DEF StackOK, Under
<1>2. FrameOK(L) /\ stack[L].body \in Bodies /\ Len(stack[L].body) \in Nat /\ n \in Nat
      /\ DOMAIN stack[L].body = 1..Len(stack[L].body)
  BY <1>1, FrameIs, BodyIs DEF StackOK
<1>3. p = PathTo(L, n) /\ n <= Len(stack[L].body)
  <2>1. Position(L) - 1 = n
    BY <1>2 DEF Position
  <2>2. Made(L) = n
    BY DEF Made
  <2> QED
    BY <1>2, <2>1, <2>2, UnderIs DEF FrameOK
<1>4. /\ IsSeq(p) /\ Len(p) = L /\ \A j \in 1..L : p[j] = IF j < L THEN Position(j) ELSE n
  BY <1>1, <1>3, TableIs DEF PathTo
<1>5. n \in 1..Len(stack[L].body)
  <2>1. Len(b) = L /\ b[L] \in Bodies /\ p[L] \in 1..Len(b[L])
    BY <1>1, <1>4 DEF Place
  <2> QED
    BY <1>1, <1>2, <1>3, <1>4, <2>1, BodyIs
<1>6. /\ Place(BodiesTo(L), PathTo(L, n))
      /\ CallAt(BodiesTo(L), PathTo(L, n)) = stack[L].body[n]
  BY <1>1, <1>5, StackPlace
<1>7. b = BodiesTo(L) /\ stack[L].body[n].kind = "submit"
  BY <1>3, <1>6, BodiesOfPath
<1>8. Len(b) = L /\ \A j \in 1..L : b[j] = stack[j].body
  BY <1>1, <1>7, TableIs DEF BodiesTo
<1>9. n = Len(stack[L].body)
  BY <1>2, <1>5, <1>7 DEF SubmittersLast, SubmitsLast
<1>10. ~Going(L)
  BY <1>2, <1>9 DEF Going, Position
<1>11. ContextAt(b, p) = ContextId(L)
  <2>1. \A j \in 1..(L - 1) : b[j] = stack[j].body /\ p[j] = Position(j)
    BY <1>1, <1>4, <1>8
  <2> QED
    BY <1>8, <2>1 DEF ContextAt, ContextId
<1> QED
  BY <1>1, <1>5, <1>7, <1>8, <1>10, <1>11

\* What a body returns whose last call was a submitter is no Suspend.
LEMMA SubmittedResult ==
  ASSUME StackOK, SubmitsOK, NEW i \in 1..Len(stack), Len(stack[i].results) > 0,
         stack[i].body[Len(stack[i].results)].kind = "submit"
  PROVE  BodyResult(stack[i]).error # "Suspend"
<1> DEFINE n    == Len(stack[i].results)
           last == stack[i].results[n]
           all  == <<"all">> \o [m \in 1..n |-> IF stack[i].results[m].ok
                                               THEN stack[i].results[m].value ELSE <<>>]
<1>1. n \in 1..n
  BY FrameIs
<1>2. last.error # "Suspend"
  BY <1>1 DEF SubmitsOK
<1>3. BodyResult(stack[i]) \in {Failed("Execution"), last, Success(all)}
  BY DEF BodyResult
<1>4. Failed("Execution").error = "Execution" /\ Success(all).error = "none"
  BY DEF Failed, Success
<1> HIDE DEF last, all
<1> QED
  BY <1>2, <1>3, <1>4

-----------------------------------------------------------------------------
(* What a step adds is accounted for.                                      *)

LEMMA SettledStays ==
  ASSUME LogGrows, invocation = "over" => invocation' = "over", NEW b, NEW p, Settled(b, p)
  PROVE  Settled(b, p)'
<1>1. ASSUME NEW id, id \in DOMAIN log, log[id].status \in Terminal
      PROVE  id \in DOMAIN log' /\ log'[id].status \in Terminal
  BY <1>1 DEF LogGrows, Evolves
<1>2. CASE CallAt(b, p).kind = "submit"
  <2>1. CASE Len(b) = 1 /\ invocation = "over"
    BY <1>2, <2>1 DEF Settled
  <2>2. CASE /\ Len(b) > 1 /\ ContextAt(b, p) \in DOMAIN log
             /\ log[ContextAt(b, p)].status \in Terminal
    BY <1>1, <1>2, <2>2 DEF Settled
  <2> QED
    BY <1>2, <2>1, <2>2 DEF Settled
<1>3. CASE CallAt(b, p).kind # "submit"
  BY <1>1, <1>3 DEF Settled
<1> QED
  BY <1>2, <1>3

LEMMA AttemptedGrows ==
  ASSUME LogGrows, LogOK, LogOK', NEW b, NEW p
  PROVE  /\ Attempted(b, p) \in Nat /\ Attempted(b, p)' \in Nat
         /\ Attempted(b, p) <= Attempted(b, p)'
<1> SUFFICES ASSUME NEW id, id = IdAt(b, p)
             PROVE  LET old == CurrentAttempt(Get(log, id, Absent))
                        new == CurrentAttempt(Get(log', id, Absent))
                    IN  old \in Nat \ {0} /\ new \in Nat \ {0} /\ old <= new
  BY DEF Attempted
<1>1. CurrentAttempt(Absent) = 1
  BY DEF CurrentAttempt, Absent
<1>2. \A op : IsOp(op) => CurrentAttempt(op) \in Nat \ {0}
  BY DEF IsOp, CurrentAttempt
<1>3. CASE id \in DOMAIN log
  <2>1. id \in DOMAIN log' /\ CurrentAttempt(log'[id]) >= CurrentAttempt(log[id])
        /\ IsOp(log[id]) /\ IsOp(log'[id])
    BY <1>2, <1>3 DEF LogGrows, Evolves, LogOK
  <2> QED
    BY <1>2, <1>3, <2>1 DEF Get
<1>4. CASE id \notin DOMAIN log
  <2>1. CASE id \in DOMAIN log'
    BY <1>1, <1>2, <1>4, <2>1 DEF Get, LogOK
  <2>2. CASE id \notin DOMAIN log'
    BY <1>1, <1>4, <2>2 DEF Get
  <2> QED
    BY <2>1, <2>2
<1> QED
  BY <1>3, <1>4

\* The account holds that has been kept so far, and the step adds to it what is due.
LEMMA AccountKept ==
  ASSUME LogGrows, LogOK, LogOK', crashes \in Nat,
         invocation = "over" => invocation' = "over",
         NEW b, NEW p, Accounted(b, p), runs'[p] = runs[p],
         \/ UNCHANGED crashes /\ (~Now(b, p) \/ Now(b, p)' \/ Settled(b, p)'
                                  \/ Attempted(b, p)' >= Attempted(b, p) + 1)
         \/ crashes' = crashes + 1
  PROVE  Accounted(b, p)'
<1>1. runs'[p] \in Nat /\ runs[p] \in Nat
  BY DEF Accounted
<1>2. CASE Settled(b, p)
  BY <1>1, <1>2, SettledStays DEF Accounted
<1>3. CASE Settled(b, p)'
  BY <1>1, <1>3 DEF Accounted
<1>4. CASE ~Settled(b, p) /\ ~Settled(b, p)'
  <2>1. /\ Attempted(b, p) \in Nat /\ Attempted(b, p)' \in Nat
        /\ Attempted(b, p) <= Attempted(b, p)'
    BY AttemptedGrows
  <2>2. runs[p] <= Attempted(b, p) + crashes + IF Now(b, p) THEN 1 ELSE 0
    BY <1>4 DEF Accounted
  <2>3. runs'[p] <= Attempted(b, p)' + crashes' + IF Now(b, p)' THEN 1 ELSE 0
    BY <1>1, <1>4, <2>1, <2>2
  <2> QED
    BY <1>1, <2>3 DEF Accounted
<1> QED
  BY <1>2, <1>3, <1>4

\* The call returns whose user code ran, or the context whose submitter has run.
LEMMA CallAccounts ==
  ASSUME RunsInv, SubmittersLast, LogGrows, LogOK', NEW i, Calls(i),
         NEW b, NEW p, Place(b, p), CallAt(b, p).kind \in UserCode, Now(b, p)
  PROVE  Now(b, p)' \/ Settled(b, p)' \/ Attempted(b, p)' >= Attempted(b, p) + 1
<1> SUFFICES ASSUME NEW L, L = Len(stack)
             PROVE  Now(b, p)' \/ Settled(b, p)' \/ Attempted(b, p)' >= Attempted(b, p) + 1
  OBVIOUS
<1>1. StackOK /\ L \in Nat /\ SubmitsOK
  BY SeqIs DEF RunsInv, ContextsInv, StackOK
<1>2. PICK o : Replies(i, o) /\ (Makes(i, o) \/ Finishes(i, o))
  BY DEF Calls
<1>3. /\ Going(i) /\ i \in 1..L /\ pc' = "call" /\ Len(stack') = i
      /\ \A j \in 1..(i - 1) : stack'[j] = stack[j]
      /\ stack'[i].results = Append(stack[i].results, o)
  BY <1>2 DEF Replies, Returns, Going, CutAt, Answered, FrameOf
<1>4. CASE pc = "run" /\ Under(p, 0)
  <2>1. /\ Going(L) /\ Len(b) = L
        /\ CallAt(b, p) = CallIn(L) /\ IdAt(b, p) = CallId(L)
    BY <1>1, <1>4, RunningPlace
  <2>2. i = L
    BY <1>2, <1>4 DEF Makes, Finishes
  <2>3. CASE CallIn(L).kind = "submit"
    <3>1. IsSeq(stack[L].results) /\ Len(stack[L].results) \in Nat
      BY <1>3, <1>1, <2>2, FrameIs
    <3>2. Len(stack'[L].results) = Len(stack[L].results) + 1
      BY <1>3, <2>2, <3>1, AppendIs
    <3>3. \A j \in 1..(L - 1) : Len(stack'[j].results) = Len(stack[j].results)
      BY <1>3, <2>2
    <3>4. p = PathTo(L, Position(L))
      <4>1. Position(L) - 0 = Position(L)
        BY <3>1 DEF Position
      <4> QED
        BY <1>1, <1>4, <4>1, UnderIs
    <3>5. L \in Nat \ {0} /\ \A j \in 1..L : Len(stack[j].results) \in Nat
      BY <1>1, <1>3, <2>2, FrameIs
    <3>6. Under(p, 1)'
      BY <1>3, <2>2, <3>2, <3>3, <3>4, <3>5, UnderNext
    <3> QED
      BY <1>3, <2>1, <2>3, <3>6 DEF Now
  <2>4. CASE CallIn(L).kind # "submit"
    <3>1. /\ CallId(L) \in DOMAIN log'
          /\ \/ log'[CallId(L)].status \in Terminal
             \/ /\ CallIn(L).kind = "condition"
                /\ CurrentAttempt(log'[CallId(L)])
                     = CurrentAttempt(Get(log, CallId(L), Absent)) + 1
      BY <1>4, <2>2, <2>4 DEF Calls, Ran
    <3>2. CASE log'[CallId(L)].status \in Terminal
      BY <2>1, <2>4, <3>1, <3>2 DEF Settled
    <3>3. CASE log'[CallId(L)].status \notin Terminal
      <4>1. /\ Attempted(b, p) = CurrentAttempt(Get(log, CallId(L), Absent)) - 1
            /\ Attempted(b, p)' = CurrentAttempt(log'[CallId(L)]) - 1
        BY <2>1, <3>1, <3>3 DEF Attempted, Get
      <4>2. Attempted(b, p) \in Nat
        BY AttemptedGrows DEF RunsInv, ContextsInv
      <4>3. CurrentAttempt(log'[CallId(L)]) \in Nat
        BY <3>1 DEF LogOK, IsOp, CurrentAttempt
      <4>4. CurrentAttempt(Get(log, CallId(L), Absent)) \in Nat
        BY DEF RunsInv, ContextsInv, LogOK, IsOp, CurrentAttempt, Get, Absent
      <4> QED
        BY <3>1, <3>3, <4>1, <4>2, <4>3, <4>4
    <3> QED
      BY <3>2, <3>3
  <2> QED
    BY <2>3, <2>4
<1>5. CASE pc = "call" /\ Under(p, 1) /\ CallAt(b, p).kind = "submit"
  <2>1. /\ L > 0 /\ ~Going(L) /\ Len(b) = L /\ Len(stack[L].results) > 0
        /\ stack[L].body[Len(stack[L].results)].kind = "submit"
        /\ ContextAt(b, p) = ContextId(L)
    BY <1>1, <1>5, SubmittedPlace
  <2>2. Finishes(i, o) /\ i = L - 1 /\ L > 1 /\ i + 1 = L /\ i \in Nat \ {0}
    BY <1>1, <1>2, <1>3, <2>1 DEF Makes, Finishes
  <2>3. BodyResult(stack[L]).error # "Suspend"
    BY <1>1, <2>1, SubmittedResult
  <2>4. o.error # "Suspend"
    <3>1. o \in {BodyResult(stack[L]), Failed("Execution")}
      BY <2>2 DEF Finishes
    <3>2. Failed("Execution").error = "Execution"
      BY DEF Failed
    <3> QED
      BY <2>3, <3>1, <3>2
  <2>5. CallIn(i).kind = "child"
    BY <1>1, <2>2 DEF StackOK
  <2>6. CallId(i) \in DOMAIN log' /\ Decision("child", log'[CallId(i)]) = "replay"
    BY <1>2, <2>4, <2>5 DEF Replies, Told, Agreed, Guarded, CallOp
  <2>7. log'[CallId(i)].status \in Terminal
    BY <2>6 DEF Decision, ChildDecision, Type
  <2>8. ContextId(L) = CallId(i)
    BY <2>2, ContextIdIs
  <2> QED
    BY <1>5, <2>1, <2>2, <2>6, <2>7, <2>8 DEF Settled
<1> QED
  BY <1>4, <1>5 DEF Now

\* The user code that begins has not run to its end before.
LEMMA StartAccounts ==
  ASSUME RunsInv, SubmittersLast, LogGrows, LogOK', Starts,
         NEW b, NEW p, Place(b, p), CallAt(b, p).kind \in UserCode, p \in DOMAIN runs'
  PROVE  Accounted(b, p)'
<1> SUFFICES ASSUME NEW L, L = Len(stack) PROVE Accounted(b, p)'
  OBVIOUS
<1>1. /\ StackOK /\ Going(L) /\ L \in Nat \ {0} /\ L \in 1..L /\ crashes \in Nat
      /\ pc = "call" /\ pc' = "run"
      /\ Len(stack') = L /\ \A j \in 1..(L - 1) : stack'[j] = stack[j]
      /\ stack'[L].results = stack[L].results
      /\ UNCHANGED <<crashes, invocation>> /\ LogOK
  <2>1. StackOK /\ Going(L)
    BY DEF RunsInv, ContextsInv, Starts, Begins
  <2>3. L \in Nat \ {0} /\ L \in 1..L
    <3>1. L \in Nat /\ L \in 1..L
      BY <2>1, SeqIs DEF StackOK, Going
    <3> QED
      BY <3>1
  <2>2. /\ pc = "call" /\ pc' = "run"
        /\ Len(stack') = L /\ \A j \in 1..(L - 1) : stack'[j] = stack[j]
        /\ stack'[L].results = stack[L].results
        /\ UNCHANGED <<crashes, invocation>>
    BY DEF Starts, Begins, CutAt, Called, FrameOf
  <2> QED
    BY <2>1, <2>2, <2>3 DEF RunsInv, ContextsInv
<1>2. ~Now(b, p)
  BY <1>1, SubmittedPlace DEF Now
<1> DEFINE path == PathTo(L, Position(L))
<1>3. Path = path
  BY <1>1, PathIs
<1>4. /\ DOMAIN runs' = DOMAIN runs \cup {path} /\ runs'[path] = Get(runs, path, 0) + 1
      /\ \A q \in DOMAIN runs \ {path} : runs'[q] = runs[q]
  <2>1. runs' = Put(runs, path, Get(runs, path, 0) + 1)
    BY <1>3 DEF Starts
  <2> HIDE DEF path
  <2> QED
    BY <2>1 DEF Put
<1>5. CASE p # path
  <2>1. p \in DOMAIN runs /\ runs'[p] = runs[p]
    BY <1>4, <1>5
  <2>2. Accounted(b, p)
    BY <2>1 DEF RunsInv, RunsOK
  <2> QED
    BY <1>1, <1>2, <2>1, <2>2, AccountKept
<1>6. CASE p = path
  <2>1. /\ Place(BodiesTo(L), path) /\ CallAt(BodiesTo(L), path) = CallIn(L)
        /\ IdAt(BodiesTo(L), path) = CallId(L)
    BY <1>1, CallPlace
  <2>2. b = BodiesTo(L)
    <3> HIDE DEF path
    <3> QED
      BY <1>6, <2>1, BodiesOfPath
  <2>3. /\ CallAt(b, p) = CallIn(L) /\ IdAt(b, p) = CallId(L) /\ Len(b) = L
        /\ ContextAt(b, p) = ContextId(L)
    <3>1. Len(b) = L /\ \A j \in 1..L : b[j] = stack[j].body
      BY <1>1, <2>2, TableIs DEF BodiesTo
    <3>2. \A j \in 1..(L - 1) : j \in 1..L /\ p[j] = Position(j)
      BY <1>1, <1>6 DEF PathTo
    <3> QED
      BY <1>6, <2>1, <2>2, <3>1, <3>2 DEF ContextAt, ContextId
  <2>4. ~Settled(b, p)
    <3>1. CASE CallIn(L).kind = "submit"
      <4>1. invocation # "over"
        BY <1>1 DEF StackOK
      <4>2. L > 1 => ContextId(L) \in DOMAIN log /\ log[ContextId(L)].status \notin Terminal
        BY <1>1 DEF RunsInv, ContextsInv, OpenInv
      <4> QED
        BY <2>3, <3>1, <4>1, <4>2 DEF Settled
    <3>2. CASE CallIn(L).kind # "submit"
      <4>1. CallId(L) \in DOMAIN log' => log'[CallId(L)].status \notin Terminal
        BY <3>2 DEF Starts
      <4>2. ASSUME CallId(L) \in DOMAIN log, log[CallId(L)].status \in Terminal PROVE FALSE
        BY <4>1, <4>2 DEF LogGrows, Evolves
      <4> QED
        BY <2>3, <3>2, <4>2 DEF Settled
    <3> QED
      BY <3>1, <3>2
  <2>5. /\ Attempted(b, p) \in Nat /\ Attempted(b, p)' \in Nat
        /\ Attempted(b, p) <= Attempted(b, p)'
    BY <1>1, AttemptedGrows
  <2>6. Get(runs, p, 0) \in Nat /\ Get(runs, p, 0) <= Attempted(b, p) + crashes
    <3>1. CASE p \in DOMAIN runs
      <4>1. Accounted(b, p)
        BY <3>1 DEF RunsInv, RunsOK
      <4> QED
        BY <1>1, <1>2, <2>4, <2>5, <3>1, <4>1 DEF Accounted, Get
    <3>2. CASE p \notin DOMAIN runs
      BY <1>1, <2>5, <3>2 DEF Get
    <3> QED
      BY <3>1, <3>2
  <2>7. Now(b, p)'
    <3>1. /\ \A j \in 1..(L - 1) : Len(stack'[j].results) = Len(stack[j].results)
          /\ \A j \in 1..L : Len(stack[j].results) \in Nat
          /\ Len(stack'[L].results) = Len(stack[L].results) + 0
      BY <1>1, FrameIs
    <3>2. Under(p, 0)'
      BY <1>1, <1>6, <3>1, UnderNext
    <3> QED
      BY <1>1, <3>2 DEF Now
  <2>8. runs'[p] = Get(runs, p, 0) + 1
    BY <1>4, <1>6
  <2> QED
    BY <1>1, <2>5, <2>6, <2>7, <2>8 DEF Accounted
<1> QED
  BY <1>5, <1>6

-----------------------------------------------------------------------------
(* All the steps.                                                          *)

\* An invocation returns: a submitter that was the last call of the handler is not suspended.
LEMMA LeaveAccounts ==
  ASSUME RunsInv, SubmittersLast, Leaves, UNCHANGED crashes,
         NEW b, NEW p, Place(b, p), CallAt(b, p).kind \in UserCode, Now(b, p)
  PROVE  Settled(b, p)'
<1>1. /\ pc = "call" /\ Len(stack) = 1 /\ StackOK /\ SubmitsOK /\ crashes \in Nat
      /\ BodyResult(stack[1]).error # "Suspend" => invocation' = "over"
  BY DEF Leaves, RunsInv, ContextsInv
<1>2. Under(p, 1) /\ CallAt(b, p).kind = "submit"
  BY <1>1 DEF Now
<1>3. /\ Len(b) = Len(stack) /\ Len(stack[Len(stack)].results) > 0
      /\ stack[Len(stack)].body[Len(stack[Len(stack)].results)].kind = "submit"
  BY <1>1, <1>2, SubmittedPlace
<1>4. BodyResult(stack[1]).error # "Suspend"
  BY <1>1, <1>3, SubmittedResult
<1> QED
  BY <1>1, <1>2, <1>3, <1>4 DEF Settled

LEMMA RunsSteps ==
  ASSUME RunsInv, SubmittersLast, ContextsInv', LogGrows,
         \/ \E i : Calls(i)
         \/ Starts
         \/ EntersChild
         \/ Leaves
         \/ Invoke
         \/ Completes
         \/ Idles
  PROVE  RunsOK'
<1>1. SUFFICES ASSUME NEW b, NEW p, Place(b, p)', p \in DOMAIN runs',
                      CallAt(b, p).kind \in UserCode
               PROVE  Accounted(b, p)'
  BY DEF RunsOK
<1>2. /\ StackOK /\ LogOK /\ LogOK' /\ crashes \in Nat /\ UNCHANGED handler
      /\ invocation = "over" => invocation' = "over"
  <2>1. StackOK /\ LogOK /\ LogOK' /\ crashes \in Nat
    BY DEF RunsInv, ContextsInv
  <2>2. UNCHANGED handler
    BY DEF Calls, Replies, Returns, Starts, Begins, EntersChild, Enters, Leaves, Forgets, Invoke,
           Completes, Idles
  <2>3. invocation = "over" => invocation' = "over"
    BY DEF Calls, Replies, Returns, Starts, Begins, EntersChild, Enters, Leaves, Invoke,
           Completes, Idles
  <2> QED
    BY <2>1, <2>2, <2>3
<1>3. Place(b, p)
  BY <1>1, <1>2 DEF Place
<1>4. CASE Starts
  BY <1>1, <1>2, <1>3, <1>4, StartAccounts
<1>5. CASE UNCHANGED runs
  <2>1. Accounted(b, p) /\ runs'[p] = runs[p]
    BY <1>1, <1>3, <1>5 DEF RunsInv, RunsOK
  <2>2. CASE \E i : Calls(i)
    <3>1. UNCHANGED crashes
      BY <2>2 DEF Calls
    <3>2. Now(b, p) => Now(b, p)' \/ Settled(b, p)' \/ Attempted(b, p)' >= Attempted(b, p) + 1
      BY <1>1, <1>2, <1>3, <2>2, CallAccounts
    <3> QED
      BY <1>2, <2>1, <3>1, <3>2, AccountKept
  <2>3. CASE EntersChild
    <3>1. pc = "call" /\ Going(Len(stack)) /\ UNCHANGED crashes
      BY <2>3 DEF EntersChild, Enters
    <3>2. ~Now(b, p)
      BY <1>2, <1>3, <3>1, SubmittedPlace DEF Now
    <3> QED
      BY <1>2, <2>1, <3>1, <3>2, AccountKept
  <2>4. CASE Leaves
    <3>1. crashes' = crashes + 1 \/ UNCHANGED crashes
      BY <2>4 DEF Leaves
    <3>2. UNCHANGED crashes /\ Now(b, p) => Settled(b, p)'
      BY <1>1, <1>3, <2>4, LeaveAccounts
    <3> QED
      BY <1>2, <2>1, <3>1, <3>2, AccountKept
  <2>5. CASE Invoke \/ Completes
    <3>1. Len(stack) = 0 /\ UNCHANGED crashes
      BY <1>2, <2>5, SeqIs DEF Invoke, Completes, StackOK
    <3>2. ~Now(b, p)
      BY <3>1 DEF Now, Under
    <3> QED
      BY <1>2, <2>1, <3>1, <3>2, AccountKept
  <2>6. CASE Idles
    <3>1. UNCHANGED <<stack, pc, crashes>>
      BY <2>6 DEF Idles
    <3>2. Now(b, p) => Now(b, p)'
      BY <3>1 DEF Now, Under
    <3> QED
      BY <1>2, <2>1, <3>1, <3>2, AccountKept
  <2>7. ~Starts \/ Accounted(b, p)'
    BY <1>4
  <2> QED
    BY <2>2, <2>3, <2>4, <2>5, <2>6, <2>7
<1>6. Starts \/ UNCHANGED runs
  BY DEF Calls, EntersChild, Leaves, Invoke, Completes, Idles
<1> QED
  BY <1>4, <1>5, <1>6

LEMMA RunningSteps ==
  ASSUME RunsInv, StackOK',
         \/ \E i : Calls(i)
         \/ Starts
         \/ EntersChild
         \/ Leaves
         \/ Invoke
         \/ Completes
         \/ Idles
  PROVE  RunningOK' /\ crashes' \in Nat
<1>1. StackOK /\ crashes \in Nat /\ RunningOK
  BY DEF RunsInv, ContextsInv
<1>2. crashes' \in Nat
  BY <1>1 DEF Calls, Starts, EntersChild, Leaves, Invoke, Completes, Idles
<1>3. CASE (\E i : Calls(i)) \/ EntersChild \/ Leaves
  <2>1. pc' = "call"
    BY <1>3 DEF Calls, Replies, Returns, EntersChild, Enters, Leaves, Forgets
  <2> QED
    BY <1>2, <2>1 DEF RunningOK
<1>4. CASE Invoke \/ Completes
  <2>1. pc = "call" /\ pc' = pc
    BY <1>1, <1>4 DEF StackOK, Invoke, Completes
  <2> QED
    BY <1>2, <2>1 DEF RunningOK
<1>5. CASE Idles
  <2>1. UNCHANGED <<stack, pc, runs>>
    BY <1>5 DEF Idles
  <2>2. Path' = Path
    BY <2>1 DEF Path
  <2> QED
    BY <1>1, <1>2, <2>1, <2>2 DEF RunningOK
<1>6. CASE Starts
  <2>1. Path \in DOMAIN runs'
    <3>1. runs' = Put(runs, Path, Get(runs, Path, 0) + 1)
      BY <1>6 DEF Starts
    <3> HIDE DEF Path
    <3> QED
      BY <3>1 DEF Put
  <2>2. Len(stack') = Len(stack) /\ \A j \in 1..Len(stack) : stack'[j].results = stack[j].results
    <3>1. /\ Len(stack') = Len(stack) /\ \A j \in 1..(Len(stack) - 1) : stack'[j] = stack[j]
          /\ stack'[Len(stack)].results = stack[Len(stack)].results
      BY <1>6 DEF Starts, Begins, CutAt, Called, FrameOf
    <3>2. \A j \in 1..Len(stack) : j = Len(stack) \/ j \in 1..(Len(stack) - 1)
      BY <1>1, SeqIs DEF StackOK
    <3> QED
      BY <3>1, <3>2
  <2>3. Path' = Path
    <3>1. DOMAIN stack' = 1..Len(stack) /\ DOMAIN stack = 1..Len(stack)
      BY <1>1, <2>2, SeqIs DEF StackOK
    <3> QED
      BY <2>2, <3>1 DEF Path, PathIn
  <2> QED
    BY <1>2, <2>1, <2>3 DEF RunningOK
<1> QED
  BY <1>2, <1>3, <1>4, <1>5, <1>6

LEMMA RunsInit ==
  ASSUME Init
  PROVE  RunsInv
<1>1. ContextsInv
  BY ContextsInit
<1>2. DOMAIN runs = {} /\ DOMAIN log = {} /\ crashes = 0 /\ pc = "call"
  BY DEF Init
<1>3. Len(stack) = 0
  BY EmptyIs DEF Init
<1> QED
  BY <1>1, <1>2, <1>3 DEF RunsInv, AttemptsOK, SubmitsOK, RunningOK, RunsOK

Ended(op) == op.type = "CALLBACK" \/ op.status \in Terminal

\* What has been replayed has ended.
LEMMA ReplayedHasEnded ==
  ASSUME NEW kind \in Guarded \ {"result"}, NEW op, op.type = Type(kind),
         Decision(kind, op) = "replay"
  PROVE  Ended(op) /\ (kind = "child" => op.status \in Terminal)
<1>1. CASE kind = "callback"
  BY <1>1 DEF Ended, Type
<1>2. CASE kind \in {"atLeastOnce", "atMostOnce"}
  <2>1. StepDecision(kind, op) = "replay"
    BY <1>2 DEF Decision
  <2> QED
    BY <1>2, <2>1 DEF StepDecision, Ended
<1>3. CASE kind = "condition"
  <2>1. ConditionDecision(op) = "replay"
    BY <1>3 DEF Decision
  <2> QED
    BY <1>3, <2>1 DEF ConditionDecision, Ended, Terminal
<1>4. CASE kind = "wait"
  <2>1. WaitDecision(op) = "replay"
    BY <1>4 DEF Decision
  <2> QED
    BY <1>4, <2>1 DEF WaitDecision, Ended, Terminal
<1>5. CASE kind = "invoke"
  <2>1. InvokeDecision(op) = "replay"
    BY <1>5 DEF Decision
  <2> QED
    BY <1>5, <2>1 DEF InvokeDecision, Ended
<1>6. CASE kind = "child"
  <2>1. ChildDecision(op) = "replay"
    BY <1>6 DEF Decision
  <2> QED
    BY <1>6, <2>1 DEF ChildDecision, Ended
<1> QED
  BY <1>1, <1>2, <1>3, <1>4, <1>5, <1>6 DEF Guarded, Durable

\* The operation whose code runs has not ended, so that nothing has been observed of it.
LEMMA RunningIsUnobserved ==
  ASSUME AgreesInv, pc = "run", Len(stack) > 0, CallIn(Len(stack)).kind \in UserCode \ {"submit"},
         Going(Len(stack))
  PROVE  PathTo(Len(stack), Position(Len(stack))) \notin DOMAIN observed
<1> DEFINE L == Len(stack)
           p == PathTo(L, Position(L))
           b == BodiesTo(L)
           call == CallIn(L)
<1> SUFFICES ASSUME p \in DOMAIN observed PROVE FALSE
  OBVIOUS
<1>1. Place(b, p) /\ CallAt(b, p) = call /\ OpAt(b, p) = CallOp(L)
  BY CallPlace DEF AgreesInv, ContextsInv
<1>2. CallOp(L) = CallId(L) /\ call.kind \in Guarded \ {"result"}
  BY DEF CallOp, UserCode, Guarded, Durable
<1>3. Agreed(log, call, CallId(L), observed[p])
  BY <1>1, <1>2 DEF AgreesInv, ObservedOK
<1> HIDE DEF p, b
<1>4. CallId(L) \in DOMAIN log /\ Decision(call.kind, log[CallId(L)]) = "replay"
  BY <1>2, <1>3 DEF Agreed
<1>5. log[CallId(L)].type = "STEP" /\ log[CallId(L)].status \notin Terminal
  BY <1>4 DEF AgreesInv, ContextsInv, OpenInv
<1>6. Type(call.kind) = "STEP"
  BY DEF UserCode, Type
<1>7. Ended(log[CallId(L)])
  BY <1>2, <1>4, <1>5, <1>6, ReplayedHasEnded
<1> QED
  BY <1>5, <1>7 DEF Ended

\* The code that runs has begun as often as its attempts, but for the crashes.
LEMMA RunsImply ==
  ASSUME RunsInv, AgreesInv
  PROVE  RerunsAreCaused
<1> SUFFICES ASSUME NEW L, L = Len(stack), invocation = "running", pc = "run"
             PROVE  /\ runs[Path] <= Here.attempts + crashes
                    /\ Here.kind # "submit" => Path \notin DOMAIN observed
  BY DEF RerunsAreCaused
<1>1. StackOK /\ L \in Nat \ {0} /\ L \in 1..L /\ crashes \in Nat /\ LogOK
  BY SeqIs DEF RunsInv, ContextsInv, StackOK
<1>2. Going(L) /\ CallIn(L).kind \in UserCode
  BY <1>1, FrameIs DEF StackOK
<1> DEFINE p == PathTo(L, Position(L))
           b == BodiesTo(L)
<1>3. Path = p /\ Here = CallIn(L)
  BY <1>1, PathIs
<1>4. Place(b, p) /\ CallAt(b, p) = CallIn(L) /\ IdAt(b, p) = CallId(L)
  BY <1>2, <1>1, CallPlace
<1>5. Len(b) = L /\ ContextAt(b, p) = ContextId(L)
  <2>1. Len(b) = L /\ \A j \in 1..L : b[j] = stack[j].body
    BY <1>1, TableIs DEF BodiesTo
  <2>2. \A j \in 1..(L - 1) : j \in 1..L /\ p[j] = Position(j)
    BY <1>1 DEF PathTo
  <2> QED
    BY <2>1, <2>2 DEF ContextAt, ContextId
<1>6. p \in DOMAIN runs
  BY <1>3 DEF RunsInv, RunningOK
<1> HIDE DEF b, p
<1>7. Accounted(b, p)
  BY <1>2, <1>4, <1>6 DEF RunsInv, RunsOK
<1>8. ~Settled(b, p)
  <2>1. CASE CallIn(L).kind = "submit"
    <3>1. L > 1 => ContextId(L) \in DOMAIN log /\ log[ContextId(L)].status \notin Terminal
      BY <1>1 DEF RunsInv, ContextsInv, OpenInv
    <3> QED
      BY <1>4, <1>5, <2>1, <3>1 DEF Settled
  <2>2. CASE CallIn(L).kind # "submit"
    BY <1>4, <2>2 DEF Settled, RunsInv, ContextsInv, OpenInv
  <2> QED
    BY <2>1, <2>2
<1>9. Attempted(b, p) \in Nat /\ Attempted(b, p) + 1 <= CallIn(L).attempts
      /\ CallIn(L).attempts \in Nat
  <2>1. CallIn(L).attempts \in Nat \ {0}
    BY <1>1, <1>2, CallIsLegal
  <2>2. CASE CallIn(L).kind = "condition" /\ CallId(L) \in DOMAIN log
    <3>1. TakesId(CallAt(b, p))
      BY <1>4, <2>2 DEF TakesId
    <3>2. CurrentAttempt(log[CallId(L)]) <= CallIn(L).attempts
      BY <1>4, <2>2, <3>1 DEF RunsInv, AttemptsOK
    <3>3. CurrentAttempt(log[CallId(L)]) \in Nat \ {0}
      BY <1>1, <2>2 DEF LogOK, IsOp, CurrentAttempt
    <3>4. Attempted(b, p) = CurrentAttempt(log[CallId(L)]) - 1
      BY <1>4, <2>2 DEF Attempted, Get
    <3> QED
      BY <2>1, <3>2, <3>3, <3>4
  <2>3. CASE ~(CallIn(L).kind = "condition" /\ CallId(L) \in DOMAIN log)
    <3>1. Attempted(b, p) = 0
      BY <1>4, <2>3 DEF Attempted, Get, CurrentAttempt, Absent
    <3> QED
      BY <2>1, <3>1
  <2> QED
    BY <2>2, <2>3
<1>10. runs[p] \in Nat /\ runs[p] <= Attempted(b, p) + crashes + 1
  BY <1>1, <1>7, <1>8, <1>9 DEF Accounted
<1>11. CallIn(L).kind # "submit" => p \notin DOMAIN observed
  BY <1>1, <1>2, RunningIsUnobserved DEF p
<1> QED
  BY <1>1, <1>3, <1>9, <1>10, <1>11

\* User code runs once per attempt, and again for a crash alone: what it ends with is
\* recorded before its handler goes on, so a suspension never makes it run again, nor does
\* a crash after the recording.  A submitter records nothing of its own and is exempt from
\* the latter.  Supposed of every body: no calls on the parent's context and no context with
\* replay_children (OwnContexts), and no call after a submitter (SubmittersLast).
THEOREM RerunsHaveACause ==
  ASSUME OwnContexts, SubmittersLast
  PROVE  Spec => []RerunsAreCaused
<1>1. Init => RunsInv
  BY RunsInit
<1>2. RunsInv /\ [Next]_vars => RunsInv'
  <2> SUFFICES ASSUME RunsInv, [Next]_vars PROVE RunsInv'
    OBVIOUS
  <2>1. /\ ContextsInv' /\ LogGrows
        /\ \/ \E i : Calls(i)
           \/ Starts
           \/ EntersChild
           \/ Leaves
           \/ Invoke
           \/ Completes
           \/ Idles
    BY ContextsStep DEF RunsInv
  <2>2. AttemptsOK' /\ SubmitsOK'
    BY <2>1, AttemptsSteps, SubmitsSteps
  <2>3. RunsOK'
    BY <2>1, RunsSteps
  <2>4. RunningOK' /\ crashes' \in Nat
    BY <2>1, RunningSteps DEF ContextsInv
  <2> QED
    BY <2>1, <2>2, <2>3, <2>4 DEF RunsInv
<1>3. RunsInv /\ AgreesInv => RerunsAreCaused
  BY RunsImply
<1>4. Spec => []AgreesInv
  BY AgreesAlways
<1> QED
  BY <1>1, <1>2, <1>3, <1>4, PTL DEF Spec

-----------------------------------------------------------------------------
(* What an execution leaves behind.                                        *)

SteadyBodies == \A body \in Bodies : Steady(body)

-----------------------------------------------------------------------------
(* The inductive invariant.                                                *)

\* An outcome that is told by its value, but for the variant of its error.
Known(o) == o = Success(o.value) \/ (o = Failed(o.error) /\ o.error \in Errors)

\* An invocation is suspended only when something is pending.
OutcomesOK ==
  /\ \A path \in DOMAIN observed : Known(observed[path])
  /\ \A i \in 1..Len(stack) : \A n \in 1..Len(stack[i].results) :
       \/ Known(stack[i].results[n])
       \/ /\ stack[i].results[n] = Failed("Suspend")
          /\ \E id \in DOMAIN log : IsPending(log[id])

ResultsAreStored == \A id \in DOMAIN log : log[id].type = "CONTEXT" => log[id].value # Summary

\* The way to the n-th call of the body around this place that is the i-th.
Turn(p, i, n) == [j \in 1..i |-> IF j < i THEN p[j] ELSE n]

Upto(s, i) == [j \in 1..i |-> s[j]]

\* The contexts around a place have been recorded, and each body has gone on to it.
CameTo(b, p) ==
  /\ \A i \in 1..(Len(b) - 1) :
       /\ IdAt(Upto(b, i), Upto(p, i)) \in DOMAIN log
       /\ log[IdAt(Upto(b, i), Upto(p, i))].type = "CONTEXT"
  /\ \A i \in 1..Len(b) : \A n \in 1..(p[i] - 1) :
       Turn(p, i, n) \in DOMAIN observed /\ GoesOn(b[i][n], observed[Turn(p, i, n)])

LogPlaced ==
  \A id \in DOMAIN log : \E b, p :
    Place(b, p) /\ TakesId(CallAt(b, p)) /\ IdAt(b, p) = id /\ CameTo(b, p)

\* What is below a context that has ended has ended.
PartsOK ==
  \A id \in DOMAIN log : ~Ended(log[id]) =>
    \A n \in 1..(Len(id) - 1) : log[SubSeq(id, 1, n)].status \notin Terminal

PartsInv == AgreesInv /\ OutcomesOK /\ ResultsAreStored /\ LogPlaced /\ PartsOK

-----------------------------------------------------------------------------
(* The course of a body.                                                   *)

LEMMA OutcomeIs ==
  ASSUME NEW o, IsOutcome(o)
  PROVE  /\ o.ok \in BOOLEAN
         /\ o.ok => o = Success(o.value) /\ o.error = "none"
         /\ ~o.ok => o = Failed(o.error)
         /\ o.error = "Suspend" => o = Failed("Suspend")
<1>1. CASE o = Success(o.value)
  <2>1. o.ok = TRUE /\ o.error = "none"
    BY <1>1, SuccessIs
  <2> QED
    BY <1>1, <2>1
<1>2. CASE o = Failed(o.error)
  <2>1. o.ok = FALSE
    BY <1>2, FailedIs
  <2> QED
    BY <1>2, <2>1
<1> QED
  BY <1>1, <1>2 DEF IsOutcome

LEMMA KnownIs ==
  ASSUME NEW o, Known(o)
  PROVE  /\ IsOutcome(o) /\ o.error # "Suspend" /\ o.error # "SerDes"
         /\ o.ok \in BOOLEAN
         /\ o.ok => o = Success(o.value)
         /\ ~o.ok => o = Failed(o.error) /\ o.error \in Errors
<1>1. CASE o = Success(o.value)
  <2>1. o.ok = TRUE /\ o.error = "none"
    BY <1>1, SuccessIs
  <2> QED
    BY <1>1, <2>1 DEF IsOutcome
<1>2. CASE o = Failed(o.error) /\ o.error \in Errors
  <2>1. o.ok = FALSE
    BY <1>2, FailedIs
  <2> QED
    BY <1>2, <2>1 DEF IsOutcome, Errors
<1> QED
  BY <1>1, <1>2 DEF Known

\* The hypothesis, of a call.
LEMMA SteadyCall ==
  ASSUME SteadyBodies, NEW body \in Bodies, NEW n \in 1..Len(body)
  PROVE  LET call == body[n]
         IN  /\ \A e, f \in Errors : GoesOn(call, Failed(e)) <=> GoesOn(call, Failed(f))
             /\ "Suspend" \notin call.caught /\ Failed("Suspend") \notin call.leaves \cup call.fails
             /\ ~(call.summary /\ call.big) /\ call.kind # "cancel"
             /\ call.kind \in {"atLeastOnce", "atMostOnce", "submit"} =>
                  \A end \in call.ends : end.ok \/ end.error \in Errors
             /\ call.kind = "complete" /\ call.big => n = Len(body)
             /\ call.kind = "child" =>
                  \A m \in DOMAIN call.body :
                    ~(call.body[m].kind = "complete" /\ call.body[m].big)
<1>1. n \in DOMAIN body
  BY BodyIs
<1>2. Steady(body)
  BY DEF SteadyBodies
<1> QED
  BY <1>1, <1>2 DEF Steady

\* A body does not go on after a suspension.
LEMMA GoesOnIs ==
  ASSUME SteadyBodies, NEW body \in Bodies, NEW n \in 1..Len(body), NEW o, IsOutcome(o),
         GoesOn(body[n], o)
  PROVE  o.error # "Suspend"
<1>1. "Suspend" \notin body[n].caught
  BY SteadyCall
<1>2. o.error = "Suspend" => ~o.ok
  BY OutcomeIs
<1> QED
  BY <1>1, <1>2 DEF GoesOn

\* It goes on, or not, after outcomes that are the same.
LEMMA SameCourse ==
  ASSUME SteadyBodies, NEW body \in Bodies, NEW n \in 1..Len(body), NEW o, NEW q,
         Known(o), Known(q), Same(o, q)
  PROVE  GoesOn(body[n], o) <=> GoesOn(body[n], q)
<1>1. CASE o.ok
  <2>1. q.ok /\ o.value = q.value
    BY <1>1 DEF Same
  <2>2. o = q
    BY <1>1, <2>1, KnownIs
  <2> QED
    BY <2>2
<1>2. CASE ~o.ok
  <2>1. ~q.ok
    BY <1>2 DEF Same
  <2>2. o = Failed(o.error) /\ o.error \in Errors /\ q = Failed(q.error) /\ q.error \in Errors
    BY <1>2, <2>1, KnownIs
  <2>3. GoesOn(body[n], Failed(o.error)) <=> GoesOn(body[n], Failed(q.error))
    BY <2>2, SteadyCall
  <2> QED
    BY <2>2, <2>3
<1> QED
  BY <1>1, <1>2

\* What a body returns when it is suspended is what its last call has returned.
LEMMA SuspendIsLast ==
  ASSUME NEW f, Len(f.results) \in Nat, BodyResult(f).error = "Suspend"
  PROVE  Len(f.results) > 0 /\ f.results[Len(f.results)].error = "Suspend"
<1> DEFINE n    == Len(f.results)
           all  == <<"all">> \o [m \in 1..n |-> IF f.results[m].ok
                                               THEN f.results[m].value ELSE <<>>]
<1>1. \/ BodyResult(f) \in {Failed("Execution"), Success(all)}
      \/ n > 0 /\ BodyResult(f) = f.results[n]
  BY DEF BodyResult
<1>2. Failed("Execution").error = "Execution" /\ Success(all).error = "none"
  BY DEF Failed, Success
<1> HIDE DEF all
<1> QED
  BY <1>1, <1>2

\* What a call of an open context has returned is no suspension if its body has gone on, nor if
\* the body is over and returns something else.
LEMMA GoingResults ==
  ASSUME SteadyBodies, StackOK, NEW i, Going(i), NEW n \in 1..Len(stack[i].results)
  PROVE  n < Len(stack[i].body) /\ stack[i].results[n].error # "Suspend"
<1>1. FrameOK(i) /\ stack[i].body \in Bodies /\ Len(stack[i].body) \in Nat
      /\ Len(stack[i].results) \in Nat
  BY FrameIs DEF Going, StackOK
<1>2. n \in 1..Len(stack[i].body) /\ n < Len(stack[i].body)
  BY <1>1 DEF Going, Position
<1> QED
  BY <1>1, <1>2, GoesOnIs DEF Going, FrameOK

LEMMA OverResults ==
  ASSUME SteadyBodies, StackOK, pc = "call", Len(stack) > 0,
         BodyResult(stack[Len(stack)]).error # "Suspend",
         NEW n \in 1..Len(stack[Len(stack)].results)
  PROVE  stack[Len(stack)].results[n].error # "Suspend"
<1> SUFFICES ASSUME NEW L, L = Len(stack), NEW last, last = Len(stack[L].results)
             PROVE  stack[L].results[n].error # "Suspend"
  OBVIOUS
<1>1. L \in Nat /\ L \in 1..L
  BY SeqIs DEF StackOK
<1>2. FrameOK(L) /\ stack[L].body \in Bodies /\ Len(stack[L].body) \in Nat /\ last \in Nat
  BY <1>1, FrameIs DEF StackOK
<1>3. Made(L) = last
  BY DEF Made
<1>4. n \in 1..last /\ n \in 1..Len(stack[L].body)
  BY <1>2, <1>3 DEF FrameOK
<1>5. IsOutcome(stack[L].results[n])
  BY <1>2, <1>4 DEF FrameOK
<1>6. CASE n < last
  <2>1. GoesOn(stack[L].body[n], stack[L].results[n])
    BY <1>2, <1>3, <1>4, <1>6 DEF FrameOK
  <2> QED
    BY <1>2, <1>4, <1>5, <2>1, GoesOnIs
<1>7. CASE n = last
  <2> SUFFICES ASSUME stack[L].results[n].error = "Suspend" PROVE FALSE
    OBVIOUS
  <2>1. stack[L].results[n] = Failed("Suspend")
    BY <1>5, OutcomeIs
  <2>2. ~GoesOn(stack[L].body[n], stack[L].results[n])
    BY <1>2, <1>4, <1>5, GoesOnIs
  <2>3. Failed("Suspend") \notin stack[L].body[n].leaves \cup stack[L].body[n].fails
    BY <1>2, <1>4, SteadyCall
  <2>4. BodyResult(stack[L]) = stack[L].results[n]
    BY <1>1, <1>2, <1>7, <1>4, <2>1, <2>2, <2>3 DEF BodyResult
  <2> QED
    BY <2>1, <2>4
<1> QED
  BY <1>2, <1>4, <1>6, <1>7

\* What has been observed tells whether the body has gone on.
LEMMA CourseIsObserved ==
  ASSUME SteadyBodies, SubmittersLast, AgreesInv, OutcomesOK,
         NEW i \in 1..Len(stack), NEW n \in 1..Len(stack[i].results), n < Len(stack[i].body),
         stack[i].results[n].error # "Suspend"
  PROVE  /\ PathTo(i, n) \in DOMAIN observed
         /\ GoesOn(stack[i].body[n], stack[i].results[n]) <=>
              GoesOn(stack[i].body[n], observed[PathTo(i, n)])
<1> DEFINE o == stack[i].results[n]
           q == observed[PathTo(i, n)]
<1>1. StackOK /\ stack[i].body \in Bodies /\ Len(stack[i].body) \in Nat
      /\ DOMAIN stack[i].body = 1..Len(stack[i].body)
  BY FrameIs, BodyIs DEF AgreesInv, ContextsInv
<1>2. n \in 1..Len(stack[i].body) /\ n # Len(stack[i].body)
  BY <1>1, FrameIs
<1>3. PathTo(i, n) \in DOMAIN observed /\ (~Unsure(stack[i].body[n], o) => Same(o, q))
  BY DEF AgreesInv, ResultsOK
<1>4. Known(o) /\ Known(q)
  <2>1. Failed("Suspend").error = "Suspend"
    BY FailedIs
  <2> QED
    BY <1>3, <2>1 DEF OutcomesOK
<1>5. ~Unsure(stack[i].body[n], o)
  <2>1. stack[i].body[n].kind # "submit"
    BY <1>1, <1>2 DEF SubmittersLast, SubmitsLast
  <2>2. stack[i].body[n].kind # "cancel"
    BY <1>1, <1>2, SteadyCall
  <2>3. o.error # "SerDes"
    BY <1>4, KnownIs
  <2> QED
    BY <2>1, <2>2, <2>3 DEF Unsure
<1> HIDE DEF o, q
<1>6. GoesOn(stack[i].body[n], o) <=> GoesOn(stack[i].body[n], q)
  BY <1>1, <1>2, <1>3, <1>4, <1>5, SameCourse
<1> QED
  BY <1>3, <1>6 DEF o, q

-----------------------------------------------------------------------------
(* Outcomes.                                                               *)

\* The outcome of a body is one of its calls', or is made by the body.
LEMMA BodyResultKnown ==
  ASSUME OutcomesOK, StackOK, NEW i \in 1..Len(stack)
  PROVE  \/ Known(BodyResult(stack[i]))
         \/ /\ BodyResult(stack[i]) = Failed("Suspend")
            /\ \E id \in DOMAIN log : IsPending(log[id])
<1> DEFINE f    == stack[i]
           n    == Len(f.results)
           all  == <<"all">> \o [m \in 1..n |-> IF f.results[m].ok
                                               THEN f.results[m].value ELSE <<>>]
<1>1. n \in Nat
  BY FrameIs
<1>2. \/ BodyResult(f) \in {Failed("Execution"), Success(all)}
      \/ n > 0 /\ BodyResult(f) = f.results[n]
  BY DEF BodyResult
<1>3. Known(Failed("Execution")) /\ Known(Success(all))
  <2> HIDE DEF all
  <2>1. Success(all).value = all
    BY SuccessIs
  <2>2. Known(Success(all))
    BY <2>1 DEF Known
  <2>3. Known(Failed("Execution"))
    <3>1. "Execution" \in Errors
      BY DEF Errors, AnyError
    <3>2. Failed("Execution").ok = FALSE /\ Failed("Execution").error = "Execution"
      BY FailedIs
    <3> QED
      BY <3>1, <3>2 DEF Known
  <2> QED
    BY <2>2, <2>3
<1> HIDE DEF all
<1>4. CASE BodyResult(f) \in {Failed("Execution"), Success(all)}
  BY <1>3, <1>4
<1>5. CASE n > 0 /\ BodyResult(f) = f.results[n]
  <2>1. n \in 1..n
    BY <1>1, <1>5
  <2> QED
    BY <1>5, <2>1 DEF OutcomesOK
<1> QED
  BY <1>2, <1>4, <1>5

\* What a call returns is known, and suspends it only while something is pending.
LEMMA ReplyKnown ==
  ASSUME SteadyBodies, PartsInv, NEW i, NEW o, Replies(i, o), Makes(i, o) \/ Finishes(i, o)
  PROVE  \/ Known(o)
         \/ o = Failed("Suspend") /\ \E id \in DOMAIN log' : IsPending(log'[id])
<1>1. StackOK /\ Going(i) /\ IsOutcome(o)
  BY DEF PartsInv, AgreesInv, ContextsInv, Replies, Returns
<1>2. CASE Makes(i, o)
  <2>1. CASE o.ok
    BY <1>1, <2>1, OutcomeIs DEF Known
  <2>2. CASE o.error = "Suspend"
    BY <1>1, <1>2, <2>2, OutcomeIs DEF Makes
  <2>3. CASE o.error \in Errors
    BY <1>1, <2>3, OutcomeIs DEF Known
  <2>4. ASSUME CallIn(i).kind \in {"atLeastOnce", "atMostOnce", "submit"}, o \in CallIn(i).ends
        PROVE  o.ok \/ o.error \in Errors
    <3>1. i \in 1..Len(stack) /\ Position(i) \in 1..Len(stack[i].body) /\ stack[i].body \in Bodies
      <4>1. Len(stack[i].results) \in Nat /\ stack[i].body \in Bodies /\ Len(stack[i].body) \in Nat
        BY <1>1, FrameIs DEF Going
      <4> QED
        BY <1>1, <4>1 DEF Going, Position
    <3> QED
      BY <2>4, <3>1, SteadyCall DEF CallIn
  <2>5. ~(/\ CallIn(i).kind = "child" /\ CallId(i) \in DOMAIN log
          /\ log[CallId(i)].value = Summary)
    <3> SUFFICES ASSUME CallIn(i).kind = "child", CallId(i) \in DOMAIN log
                 PROVE  log[CallId(i)].value # Summary
      OBVIOUS
    <3>1. TakesId(CallIn(i))
      BY DEF TakesId
    <3>2. log[CallId(i)].type = "CONTEXT"
      <4>1. log[CallId(i)].type = Type(CallIn(i).kind)
        BY <1>1, <3>1, CallPlace DEF PartsInv, AgreesInv, ContextsInv, LogTyped
      <4> QED
        BY <4>1 DEF Type
    <3> QED
      BY <3>2 DEF PartsInv, ResultsAreStored
  <2>6. OwnErrors \subseteq Errors \cup {"Suspend"}
    BY DEF OwnErrors, Errors, AnyError
  <2> QED
    BY <1>2, <2>1, <2>2, <2>3, <2>4, <2>5, <2>6 DEF Makes, OwnOutcome
<1>3. CASE Finishes(i, o)
  <2>1. i + 1 \in 1..Len(stack)
    BY <1>1, <1>3, SeqIs DEF Finishes, StackOK, Going
  <2>2. \/ Known(BodyResult(stack[i + 1]))
        \/ /\ BodyResult(stack[i + 1]) = Failed("Suspend")
           /\ \E id \in DOMAIN log : IsPending(log[id])
    BY <1>1, <2>1, BodyResultKnown DEF PartsInv
  <2>3. Known(Failed("Execution")) /\ Failed("Suspend").error = "Suspend"
    BY FailedIs DEF Known, Errors, AnyError
  <2> QED
    BY <1>3, <2>2, <2>3 DEF Finishes
<1> QED
  BY <1>2, <1>3

\* The steps, for the contexts and the operations.
AnyStep ==
  \/ \E i : Calls(i)
  \/ Starts
  \/ EntersChild
  \/ Leaves
  \/ Invoke
  \/ Completes
  \/ Idles

\* A result that is kept while something is recorded is no suspension.
LEMMA KeptResults ==
  ASSUME SteadyBodies, StackOK, AnyStep, NEW j \in 1..Len(stack'), NEW n, Was(j, n)
  PROVE  log' = log \/ stack[j].results[n].error # "Suspend"
<1>1. Len(stack) \in Nat /\ j \in 1..Len(stack) /\ n \in 1..Len(stack[j].results)
  BY SeqIs DEF StackOK, Was
<1>2. ASSUME NEW i, Going(i), j <= i
      PROVE  stack[j].results[n].error # "Suspend"
  <2>1. Going(j)
    <3>1. i \in 1..Len(stack)
      BY <1>2 DEF Going
    <3>2. CASE j = i
      BY <1>2, <3>2
    <3>3. CASE j < i
      BY <1>1, <3>1, <3>3, FrameIs
    <3> QED
      BY <1>1, <1>2, <3>1, <3>2, <3>3
  <2> QED
    BY <1>1, <2>1, GoingResults
<1>3. CASE \E i : Calls(i)
  <2>1. PICK i, o : Returns(i, o)
    BY <1>3 DEF Calls, Replies
  <2>2. Going(i) /\ Len(stack') = i
    BY <2>1 DEF Returns, CutAt
  <2>3. i \in 1..Len(stack)
    BY <2>2 DEF Going
  <2> QED
    BY <1>1, <1>2, <2>2, <2>3
<1>4. CASE Starts \/ EntersChild
  <2>1. Going(Len(stack))
    BY <1>4 DEF Starts, Begins, EntersChild, Enters
  <2> QED
    BY <1>1, <1>2, <2>1
<1>5. CASE Leaves \/ Invoke \/ Idles
  BY <1>5 DEF Leaves, Invoke, Idles
<1>6. CASE Completes
  BY <1>1, <1>6 DEF Completes
<1> QED
  BY <1>3, <1>4, <1>5, <1>6 DEF AnyStep

LEMMA ObservedKnown ==
  ASSUME SteadyBodies, PartsInv, AnyStep
  PROVE  \A path \in DOMAIN observed' : Known(observed'[path])
<1>1. \A path \in DOMAIN observed : Known(observed[path])
  BY DEF PartsInv, OutcomesOK
<1>2. CASE \E i : Calls(i)
  <2>1. PICK i, o : Replies(i, o) /\ (Makes(i, o) \/ Finishes(i, o))
    BY <1>2 DEF Calls
  <2> DEFINE here == PathTo(i, Position(i))
  <2>2. observed' = IF o.error = "Suspend" \/ here \in DOMAIN observed THEN observed
                    ELSE Put(observed, here, o)
    BY <2>1 DEF Replies, Returns
  <2>3. Known(o) \/ o.error = "Suspend"
    <3>1. Failed("Suspend").error = "Suspend"
      BY FailedIs
    <3> QED
      BY <2>1, <3>1, ReplyKnown
  <2> HIDE DEF here
  <2>4. CASE observed' = observed
    BY <1>1, <2>4
  <2>5. CASE o.error # "Suspend" /\ observed' = Put(observed, here, o)
    <3>1. \A path \in DOMAIN observed' :
            \/ observed'[path] = o
            \/ path \in DOMAIN observed /\ observed'[path] = observed[path]
      BY <2>5 DEF Put
    <3> QED
      BY <1>1, <2>3, <2>5, <3>1
  <2> QED
    BY <2>2, <2>4, <2>5
<1>3. CASE Starts \/ EntersChild \/ Leaves \/ Invoke \/ Completes \/ Idles
  <2>1. observed' = observed
    BY <1>3 DEF Starts, Begins, EntersChild, Enters, Leaves, Forgets, Invoke, Completes, Idles
  <2> QED
    BY <1>1, <2>1
<1> QED
  BY <1>2, <1>3 DEF AnyStep

LEMMA OutcomesSteps ==
  ASSUME SteadyBodies, PartsInv, AnyStep
  PROVE  OutcomesOK'
<1>1. StackOK
  BY DEF PartsInv, AgreesInv, ContextsInv
<1>2. SUFFICES ASSUME NEW j \in 1..Len(stack'), NEW n \in 1..Len(stack'[j].results)
               PROVE  \/ Known(stack'[j].results[n])
                      \/ /\ stack'[j].results[n] = Failed("Suspend")
                         /\ \E id \in DOMAIN log' : IsPending(log'[id])
  BY ObservedKnown DEF OutcomesOK
<1>3. CASE Was(j, n)
  <2>1. \/ Known(stack[j].results[n])
        \/ /\ stack[j].results[n] = Failed("Suspend")
           /\ \E id \in DOMAIN log : IsPending(log[id])
    BY <1>3 DEF Was, PartsInv, OutcomesOK
  <2>2. log' = log \/ stack[j].results[n].error # "Suspend"
    BY <1>1, <1>3, KeptResults
  <2>3. Failed("Suspend").error = "Suspend"
    BY FailedIs
  <2>4. stack'[j].results[n] = stack[j].results[n]
    BY <1>3 DEF Was
  <2> QED
    BY <2>1, <2>2, <2>3, <2>4
<1>4. CASE \E i : Calls(i)
  <2>1. PICK i, o : Replies(i, o) /\ (Makes(i, o) \/ Finishes(i, o))
    BY <1>4 DEF Calls
  <2>2. Was(j, n) \/ stack'[j].results[n] = o
    BY <1>1, <2>1, CallsResults DEF Replies
  <2> QED
    BY <1>3, <2>1, <2>2, ReplyKnown
<1> QED
  BY <1>1, <1>3, <1>4, OtherResults DEF AnyStep

-----------------------------------------------------------------------------
(* What is recorded.                                                       *)

\* The ways in which the operations change.
LEMMA LogChanges ==
  ASSUME AnyStep
  PROVE  \/ log' = log
         \/ \E i : Going(i) /\ RecordsCall(i) /\ (i < Len(stack) => \E o : Finishes(i, o))
         \/ Completes
<1>1. ASSUME NEW i, Calls(i)
      PROVE  log' = log \/ (Going(i) /\ RecordsCall(i) /\ (i < Len(stack) => \E o : Finishes(i, o)))
  <2>1. PICK o : Replies(i, o) /\ (Makes(i, o) \/ Finishes(i, o))
    BY <1>1 DEF Calls
  <2>2. i < Len(stack) => ~Makes(i, o)
    BY DEF Makes
  <2> QED
    BY <1>1, <2>1, <2>2 DEF Calls, Replies, Returns
<1>2. ~(Len(stack) < Len(stack))
  OBVIOUS
<1> QED
  BY <1>1, <1>2 DEF AnyStep, Starts, Begins, EntersChild, Enters, Leaves, Invoke, Idles

LEMMA StoredSteps ==
  ASSUME SteadyBodies, PartsInv, AnyStep
  PROVE  ResultsAreStored'
<1>1. StackOK /\ LogOK /\ \A id \in DOMAIN log : log[id].type = "CONTEXT" => log[id].value # Summary
  BY DEF PartsInv, AgreesInv, ContextsInv, ResultsAreStored
<1>2. ASSUME NEW id, NEW op, Records(id, op), op.type = "CONTEXT" => op.value # Summary
      PROVE  ResultsAreStored'
  <2>1. /\ DOMAIN log' = DOMAIN log \cup {id} /\ log'[id] = op
        /\ \A d \in DOMAIN log \ {id} : log'[d] = log[d]
    BY <1>1, <1>2, RecordsGrow
  <2> QED
    BY <1>1, <1>2, <2>1 DEF ResultsAreStored
<1>3. ASSUME NEW id \in DOMAIN log, NEW op, Records(id, op), log[id].type # "CONTEXT"
      PROVE  ResultsAreStored'
  BY <1>2, <1>3 DEF Records, Evolves
<1>4. CASE log' = log
  BY <1>1, <1>4 DEF ResultsAreStored
<1>5. ASSUME NEW i, Going(i), RecordsCall(i)
      PROVE  ResultsAreStored'
  <2>1. PICK id, op : Records(id, op) /\ (Own(i, id, op) \/ Cancels(id, op))
    BY <1>5 DEF RecordsCall
  <2>2. CASE Own(i, id, op)
    <3>1. /\ i \in 1..Len(stack) /\ stack[i].body \in Bodies
          /\ Position(i) \in 1..Len(stack[i].body)
      <4>1. Len(stack[i].results) \in Nat /\ stack[i].body \in Bodies /\ Len(stack[i].body) \in Nat
        BY <1>1, <1>5, FrameIs DEF Going
      <4> QED
        BY <1>5, <4>1 DEF Going, Position
    <3>2. ~(CallIn(i).summary /\ CallIn(i).big)
      BY <3>1, SteadyCall DEF CallIn
    <3>3. op.type = "CONTEXT" => op.value # Summary
      BY <2>2, <3>2 DEF Own
    <3> QED
      BY <1>2, <2>1, <3>3
  <2>3. CASE Cancels(id, op)
    BY <1>3, <2>1, <2>3 DEF Cancels
  <2> QED
    BY <2>1, <2>2, <2>3
<1>6. CASE Completes
  BY <1>3, <1>6 DEF Completes
<1> QED
  BY <1>4, <1>5, <1>6, LogChanges

-----------------------------------------------------------------------------
(* The places of what is recorded.                                         *)

LEMMA UptoIs ==
  ASSUME NEW s, NEW k \in Nat
  PROVE  /\ IsSeq(Upto(s, k)) /\ Len(Upto(s, k)) = k
         /\ \A j \in 1..k : Upto(s, k)[j] = s[j]
BY TableIs DEF Upto

LEMMA IdUpto ==
  ASSUME NEW b, NEW p, NEW k \in Nat
  PROVE  IdAt(Upto(b, k), Upto(p, k)) = [j \in 1..k |-> Count(b[j], p[j])]
<1>1. Len(Upto(b, k)) = k
  BY UptoIs
<1>2. \A j \in 1..k : Upto(b, k)[j] = b[j] /\ Upto(p, k)[j] = p[j]
  BY UptoIs
<1> QED
  BY <1>1, <1>2 DEF IdAt

\* A context around a place has a place too, and its id is how that of the place begins.
LEMMA PlaceUpto ==
  ASSUME NEW b, NEW p, Place(b, p), NEW k \in 1..Len(b)
  PROVE  /\ Place(Upto(b, k), Upto(p, k))
         /\ CallAt(Upto(b, k), Upto(p, k)) = b[k][p[k]]
         /\ SubSeq(IdAt(b, p), 1, k) = IdAt(Upto(b, k), Upto(p, k))
<1>1. Len(b) \in Nat /\ k \in Nat \ {0} /\ k <= Len(b)
  BY PlaceIs
<1>2. /\ IsSeq(Upto(b, k)) /\ Len(Upto(b, k)) = k /\ IsSeq(Upto(p, k)) /\ Len(Upto(p, k)) = k
      /\ \A j \in 1..k : Upto(b, k)[j] = b[j] /\ Upto(p, k)[j] = p[j]
  BY <1>1, UptoIs
<1>3. Place(Upto(b, k), Upto(p, k))
  <2>1. \A j \in 1..k : j \in 1..Len(b)
    BY <1>1
  <2>2. \A j \in 1..(k - 1) : j \in 1..(Len(b) - 1) /\ j \in 1..k /\ j + 1 \in 1..k
    BY <1>1
  <2>3. Upto(b, k)[1] = handler
    BY <1>1, <1>2 DEF Place
  <2>4. ASSUME NEW j \in 1..k
        PROVE  Upto(b, k)[j] \in Bodies /\ Upto(p, k)[j] \in 1..Len(Upto(b, k)[j])
    BY <1>2, <2>1 DEF Place
  <2>5. ASSUME NEW j \in 1..(k - 1)
        PROVE  /\ Upto(b, k)[j][Upto(p, k)[j]].kind = "child"
               /\ Upto(b, k)[j + 1] = Upto(b, k)[j][Upto(p, k)[j]].body
    <3>1. /\ Upto(b, k)[j] = b[j] /\ Upto(p, k)[j] = p[j] /\ Upto(b, k)[j + 1] = b[j + 1]
          /\ j \in 1..(Len(b) - 1)
      BY <1>2, <2>2
    <3>2. b[j][p[j]].kind = "child" /\ b[j + 1] = b[j][p[j]].body
      BY <3>1 DEF Place
    <3> QED
      BY <3>1, <3>2
  <2> QED
    BY <1>1, <1>2, <2>3, <2>4, <2>5 DEF Place
<1>4. CallAt(Upto(b, k), Upto(p, k)) = b[k][p[k]]
  BY <1>1, <1>2 DEF CallAt
<1>5. SubSeq(IdAt(b, p), 1, k) = IdAt(Upto(b, k), Upto(p, k))
  <2>1. /\ IsSeq(IdAt(b, p)) /\ Len(IdAt(b, p)) = Len(b)
        /\ \A j \in 1..Len(b) : IdAt(b, p)[j] = Count(b[j], p[j])
    BY <1>1, TableIs DEF IdAt
  <2>2. /\ IsSeq(SubSeq(IdAt(b, p), 1, k)) /\ Len(SubSeq(IdAt(b, p), 1, k)) = k
        /\ \A j \in 1..k : SubSeq(IdAt(b, p), 1, k)[j] = IdAt(b, p)[j]
    BY <1>1, <2>1, PrefixIs
  <2>3. IdAt(Upto(b, k), Upto(p, k)) = [j \in 1..k |-> Count(b[j], p[j])]
    BY <1>1, IdUpto
  <2>4. /\ IsSeq(IdAt(Upto(b, k), Upto(p, k))) /\ Len(IdAt(Upto(b, k), Upto(p, k))) = k
        /\ \A j \in 1..k : IdAt(Upto(b, k), Upto(p, k))[j] = Count(b[j], p[j])
    BY <1>1, <2>3, TableIs
  <2>5. \A j \in 1..k : j \in 1..Len(b)
    BY <1>1
  <2> QED
    BY <2>1, <2>2, <2>4, <2>5, SameSeq
<1> QED
  BY <1>3, <1>4, <1>5

LEMMA ObservedGrows ==
  ASSUME AnyStep, NEW path \in DOMAIN observed
  PROVE  path \in DOMAIN observed' /\ observed'[path] = observed[path]
<1>1. ASSUME NEW i, NEW o, Returns(i, o)
      PROVE  path \in DOMAIN observed' /\ observed'[path] = observed[path]
  <2> DEFINE here == PathTo(i, Position(i))
  <2>1. observed' = IF o.error = "Suspend" \/ here \in DOMAIN observed THEN observed
                    ELSE Put(observed, here, o)
    BY <1>1 DEF Returns
  <2> HIDE DEF here
  <2> QED
    BY <2>1 DEF Put
<1>2. CASE \E i : Calls(i)
  BY <1>1, <1>2 DEF Calls, Replies
<1>3. CASE Starts \/ EntersChild \/ Leaves \/ Invoke \/ Completes \/ Idles
  <2>1. observed' = observed
    BY <1>3 DEF Starts, Begins, EntersChild, Enters, Leaves, Forgets, Invoke, Completes, Idles
  <2> QED
    BY <2>1
<1> QED
  BY <1>2, <1>3 DEF AnyStep

LEMMA CameToStays ==
  ASSUME AnyStep, LogGrows, NEW b, NEW p, CameTo(b, p)
  PROVE  CameTo(b, p)'
<1>1. ASSUME NEW id \in DOMAIN log, log[id].type = "CONTEXT"
      PROVE  id \in DOMAIN log' /\ log'[id].type = "CONTEXT"
  BY <1>1 DEF LogGrows, Evolves
<1>2. ASSUME NEW i \in 1..(Len(b) - 1)
      PROVE  /\ IdAt(Upto(b, i), Upto(p, i)) \in DOMAIN log'
             /\ log'[IdAt(Upto(b, i), Upto(p, i))].type = "CONTEXT"
  BY <1>1 DEF CameTo
<1>3. ASSUME NEW i \in 1..Len(b), NEW n \in 1..(p[i] - 1)
      PROVE  /\ Turn(p, i, n) \in DOMAIN observed'
             /\ GoesOn(b[i][n], observed'[Turn(p, i, n)])
  <2>1. Turn(p, i, n) \in DOMAIN observed /\ GoesOn(b[i][n], observed[Turn(p, i, n)])
    BY DEF CameTo
  <2> HIDE DEF Turn
  <2> QED
    BY <2>1, ObservedGrows
<1> QED
  BY <1>2, <1>3 DEF CameTo

\* A context that has a call to make has come to it.
LEMMA StackCameTo ==
  ASSUME SteadyBodies, SubmittersLast, PartsInv, NEW i, Going(i)
  PROVE  CameTo(BodiesTo(i), PathTo(i, Position(i)))
<1> DEFINE b == BodiesTo(i)
           p == PathTo(i, Position(i))
<1>1. StackOK /\ OpenInv /\ Len(stack) \in Nat /\ i \in Nat \ {0} /\ i \in 1..Len(stack)
  BY SeqIs DEF PartsInv, AgreesInv, ContextsInv, StackOK, Going
<1>2. /\ Len(b) = i
      /\ \A j \in 1..i : b[j] = stack[j].body /\ p[j] = Position(j)
  <2>1. Len(b) = i
    BY <1>1, TableIs DEF BodiesTo
  <2>2. \A j \in 1..i : b[j] = stack[j].body
    BY DEF BodiesTo
  <2>3. \A j \in 1..i : p[j] = IF j < i THEN Position(j) ELSE Position(i)
    BY DEF PathTo
  <2>4. \A j \in 1..i : ~(j < i) => j = i
    BY <1>1
  <2> QED
    BY <2>1, <2>2, <2>3, <2>4
<1>3. ASSUME NEW k \in 1..(i - 1)
      PROVE  /\ IdAt(Upto(b, k), Upto(p, k)) \in DOMAIN log
             /\ log[IdAt(Upto(b, k), Upto(p, k))].type = "CONTEXT"
  <2>1. k \in Nat /\ k + 1 \in 2..Len(stack) /\ k + 1 - 1 = k
    BY <1>1
  <2>2. \A j \in 1..k : j \in 1..i
    BY <1>1
  <2>3. IdAt(Upto(b, k), Upto(p, k)) = [j \in 1..k |-> Count(b[j], p[j])]
    BY <2>1, IdUpto
  <2> HIDE DEF b, p
  <2>4. [j \in 1..k |-> Count(b[j], p[j])] = ContextId(k + 1)
    BY <1>2, <2>1, <2>2 DEF ContextId
  <2> QED
    BY <1>1, <2>1, <2>3, <2>4 DEF OpenInv
<1>4. ASSUME NEW k \in 1..i, NEW n \in 1..(p[k] - 1)
      PROVE  Turn(p, k, n) \in DOMAIN observed /\ GoesOn(b[k][n], observed[Turn(p, k, n)])
  <2>1. k \in 1..Len(stack) /\ p[k] = Position(k) /\ b[k] = stack[k].body /\ k <= i
    BY <1>1, <1>2
  <2>2. Going(k)
    <3>1. CASE k < i
      <4>1. k < Len(stack)
        BY <1>1, <3>1, <2>1
      <4> QED
        BY <1>1, <2>1, <4>1, FrameIs
    <3>2. CASE k = i
      BY <3>2
    <3> QED
      BY <1>1, <2>1, <3>1, <3>2
  <2>3. n \in 1..Len(stack[k].results)
    <3>1. Len(stack[k].results) \in Nat
      BY <1>1, <2>1, FrameIs
    <3> QED
      BY <2>1, <3>1 DEF Position
  <2>4. n < Len(stack[k].body) /\ stack[k].results[n].error # "Suspend"
    BY <1>1, <2>2, <2>3, GoingResults
  <2>5. /\ PathTo(k, n) \in DOMAIN observed
        /\ GoesOn(stack[k].body[n], stack[k].results[n]) <=>
             GoesOn(stack[k].body[n], observed[PathTo(k, n)])
    BY <2>1, <2>3, <2>4, CourseIsObserved DEF PartsInv
  <2>6. GoesOn(stack[k].body[n], stack[k].results[n])
    BY <2>2, <2>3 DEF Going
  <2>7. Turn(p, k, n) = PathTo(k, n)
    <3>1. \A j \in 1..k : j \in 1..i
      BY <1>1
    <3> HIDE DEF p
    <3> QED
      BY <1>2, <3>1 DEF Turn, PathTo
  <2> QED
    BY <2>1, <2>5, <2>6, <2>7
<1> HIDE DEF b, p
<1>5. CameTo(b, p)
  BY <1>2, <1>3, <1>4 DEF CameTo
<1> QED
  BY <1>5 DEF b, p

LEMMA PlacedSteps ==
  ASSUME SteadyBodies, SubmittersLast, PartsInv, AnyStep, LogGrows
  PROVE  LogPlaced'
<1>1. StackOK /\ LogOK /\ LogPlaced /\ UNCHANGED handler
  BY DEF PartsInv, AgreesInv, ContextsInv, AnyStep, Calls, Replies, Returns, Starts, Begins,
         EntersChild, Enters, Leaves, Forgets, Invoke, Completes, Idles
<1>2. \A b, p : Place(b, p) => Place(b, p)'
  BY <1>1 DEF Place
<1>3. ASSUME NEW id \in DOMAIN log
      PROVE  \E b, p : Place(b, p)' /\ TakesId(CallAt(b, p)) /\ IdAt(b, p) = id /\ CameTo(b, p)'
  <2>1. PICK b, p : Place(b, p) /\ TakesId(CallAt(b, p)) /\ IdAt(b, p) = id /\ CameTo(b, p)
    BY <1>1 DEF LogPlaced
  <2>2. Place(b, p)' /\ CameTo(b, p)'
    BY <1>2, <2>1, CameToStays
  <2> QED
    BY <2>1, <2>2
<1>4. ASSUME NEW id \in DOMAIN log' \ DOMAIN log
      PROVE  \E b, p : Place(b, p)' /\ TakesId(CallAt(b, p)) /\ IdAt(b, p) = id /\ CameTo(b, p)'
  <2>1. \A d, op : Records(d, op) => DOMAIN log' = DOMAIN log \cup {d}
    BY <1>1, RecordsGrow
  <2>2. ~Completes /\ log' # log
    <3>1. Completes => \E d \in DOMAIN log : \E op : Records(d, op)
      BY DEF Completes
    <3>2. DOMAIN log' # DOMAIN log
      BY <1>4
    <3> QED
      BY <2>1, <3>1, <3>2
  <2>3. PICK i : Going(i) /\ RecordsCall(i)
    BY <2>2, LogChanges
  <2>4. id = CallId(i) /\ TakesId(CallIn(i))
    <3>1. PICK d, op : Records(d, op) /\ (Own(i, d, op) \/ Cancels(d, op))
      BY <2>3 DEF RecordsCall
    <3>2. id = d
      BY <1>4, <2>1, <3>1
    <3> QED
      BY <1>4, <3>1, <3>2 DEF Own, Cancels
  <2> DEFINE b == BodiesTo(i)
             p == PathTo(i, Position(i))
  <2>5. Place(b, p) /\ CallAt(b, p) = CallIn(i) /\ IdAt(b, p) = CallId(i)
    BY <1>1, <2>3, CallPlace
  <2>6. CameTo(b, p)
    BY <2>3, StackCameTo
  <2>7. \E c, q : Place(c, q) /\ TakesId(CallAt(c, q)) /\ IdAt(c, q) = id /\ CameTo(c, q)
    <3> HIDE DEF b, p
    <3> QED
      BY <2>4, <2>5, <2>6
  <2>8. PICK c, q : Place(c, q) /\ TakesId(CallAt(c, q)) /\ IdAt(c, q) = id /\ CameTo(c, q)
    BY <2>7
  <2>9. Place(c, q)' /\ CameTo(c, q)'
    BY <1>2, <2>8, CameToStays
  <2> QED
    BY <2>8, <2>9
<1>5. \A id \in DOMAIN log' : id \in DOMAIN log \/ id \in DOMAIN log' \ DOMAIN log
  OBVIOUS
<1>6. LogPlaced' <=>
        \A id \in DOMAIN log' : \E b, p :
          Place(b, p)' /\ TakesId(CallAt(b, p)) /\ IdAt(b, p) = id /\ CameTo(b, p)'
  BY DEF LogPlaced
<1> QED
  BY <1>3, <1>4, <1>5, <1>6

-----------------------------------------------------------------------------
(* What a body leaves behind when it returns.                              *)

\* A body of the handler has come to a place of its own, or to one below.
LEMMA PlaceBelow ==
  ASSUME StackOK, NEW L, L = Len(stack), L > 0, NEW b, NEW p, Place(b, p), Len(b) >= L,
         L > 1 => SubSeq(IdAt(b, p), 1, L - 1) = ContextId(L)
  PROVE  /\ p[L] \in 1..Len(stack[L].body)
         /\ Upto(b, L) = BodiesTo(L) /\ Upto(p, L) = PathTo(L, p[L])
<1>1. L \in Nat \ {0} /\ Len(b) \in Nat /\ L \in 1..Len(b)
  BY SeqIs, PlaceIs DEF StackOK
<1>2. ASSUME L > 1
      PROVE  /\ \A j \in 1..(L - 1) : b[j] = stack[j].body /\ p[j] = Position(j)
             /\ b[L] = stack[L].body
  <2> DEFINE k == L - 1
  <2>1. k \in Nat \ {0} /\ k \in 1..(Len(stack) - 1) /\ k \in 1..Len(b) /\ k \in 1..(Len(b) - 1)
        /\ k + 1 = L /\ k \in 1..Len(stack) /\ k < Len(stack)
    BY <1>1, <1>2
  <2>2. Going(k) /\ CallIn(k).kind = "child" /\ stack[k + 1].body = CallIn(k).body
    BY <2>1, FrameIs DEF StackOK
  <2>3. /\ Place(Upto(b, k), Upto(p, k)) /\ CallAt(Upto(b, k), Upto(p, k)) = b[k][p[k]]
        /\ SubSeq(IdAt(b, p), 1, k) = IdAt(Upto(b, k), Upto(p, k))
    <3>1. k \in 1..Len(b)
      BY <2>1
    <3> HIDE DEF k
    <3> QED
      BY <3>1, PlaceUpto
  <2>4. IdAt(Upto(b, k), Upto(p, k)) = CallId(k)
    <3>1. ContextId(k + 1) = CallId(k)
      BY <2>1, ContextIdIs
    <3> QED
      BY <1>2, <2>1, <2>3, <3>1
  <2>5. /\ Place(BodiesTo(k), PathTo(k, Position(k)))
        /\ CallAt(BodiesTo(k), PathTo(k, Position(k))) = CallIn(k)
        /\ IdAt(BodiesTo(k), PathTo(k, Position(k))) = CallId(k)
    BY <2>2, CallPlace
  <2>6. b[k][p[k]].kind = "child" /\ b[k + 1] = b[k][p[k]].body
    BY <2>1 DEF Place
  <2>7. Upto(b, k) = BodiesTo(k) /\ Upto(p, k) = PathTo(k, Position(k))
    <3>1. TakesId(CallAt(Upto(b, k), Upto(p, k)))
          /\ TakesId(CallAt(BodiesTo(k), PathTo(k, Position(k))))
      BY <2>2, <2>3, <2>5, <2>6 DEF TakesId
    <3> HIDE DEF k
    <3> QED
      BY <2>3, <2>4, <2>5, <3>1, PlaceOfId
  <2>8. ASSUME NEW j \in 1..k PROVE b[j] = stack[j].body /\ p[j] = Position(j)
    <3>1. Upto(b, k)[j] = b[j] /\ Upto(p, k)[j] = p[j]
      BY DEF Upto
    <3>2. BodiesTo(k)[j] = stack[j].body /\ PathTo(k, Position(k))[j] = IF j < k THEN Position(j)
                                                                       ELSE Position(k)
      BY DEF BodiesTo, PathTo
    <3>3. ~(j < k) => j = k
      BY <2>1
    <3> HIDE DEF k
    <3> QED
      BY <2>7, <3>1, <3>2, <3>3
  <2>9. b[L] = stack[L].body
    <3>1. k \in 1..k
      BY <2>1
    <3>2. b[k] = stack[k].body /\ p[k] = Position(k)
      BY <2>8, <3>1
    <3> QED
      BY <2>1, <2>2, <2>6, <3>2 DEF CallIn
  <2> QED
    BY <2>8, <2>9
<1>3. b[L] = stack[L].body
  <2>1. CASE L = 1
    BY <2>1 DEF Place, StackOK
  <2>2. CASE L > 1
    BY <1>2, <2>2
  <2> QED
    BY <1>1, <2>1, <2>2
<1>4. p[L] \in 1..Len(stack[L].body)
  BY <1>1, <1>3 DEF Place
<1>5. \A j \in 1..L : /\ b[j] = stack[j].body
                      /\ p[j] = IF j < L THEN Position(j) ELSE p[L]
  <2>1. \A j \in 1..L : j = L \/ (L > 1 /\ j \in 1..(L - 1) /\ j < L)
    BY <1>1
  <2>2. ~(L < L)
    BY <1>1
  <2> QED
    BY <1>2, <1>3, <2>1, <2>2
<1> QED
  BY <1>4, <1>5 DEF Upto, BodiesTo, PathTo

\* When a body is over, and not because it is suspended, everything that is recorded below its
\* context has ended.
LEMMA NothingIsLeft ==
  ASSUME SteadyBodies, SubmittersLast, PartsInv, NEW L, L = Len(stack), L > 0, pc = "call",
         BodyOver(stack[L]), BodyResult(stack[L]).error # "Suspend",
         NEW id \in DOMAIN log, Len(id) >= L, L > 1 => SubSeq(id, 1, L - 1) = ContextId(L)
  PROVE  Ended(log[id])
<1>1. /\ AgreesInv /\ OutcomesOK /\ StackOK /\ LogTyped /\ L \in Nat \ {0} /\ L \in 1..Len(stack)
      /\ stack[L].body \in Bodies /\ Len(stack[L].body) \in Nat /\ Len(stack[L].results) \in Nat
      /\ DOMAIN stack[L].body = 1..Len(stack[L].body)
  <2>1. StackOK /\ L \in Nat \ {0} /\ L \in 1..Len(stack)
    BY SeqIs DEF PartsInv, AgreesInv, ContextsInv, StackOK
  <2> QED
    BY <2>1, FrameIs, BodyIs DEF PartsInv, AgreesInv, ContextsInv
<1>2. PICK b, p : Place(b, p) /\ TakesId(CallAt(b, p)) /\ IdAt(b, p) = id /\ CameTo(b, p)
  BY DEF PartsInv, LogPlaced
<1>3. Len(b) \in Nat /\ Len(id) = Len(b) /\ IsSeq(id)
  <2>1. Len(b) \in Nat
    BY <1>2, PlaceIs
  <2>2. IsSeq(IdAt(b, p)) /\ Len(IdAt(b, p)) = Len(b)
    BY <2>1, TableIs DEF IdAt
  <2> QED
    BY <1>2, <2>1, <2>2
<1> DEFINE m == p[L]
           n == Len(stack[L].results)
           call == stack[L].body[m]
<1>4. /\ m \in 1..Len(stack[L].body)
      /\ Upto(b, L) = BodiesTo(L) /\ Upto(p, L) = PathTo(L, m)
  BY <1>1, <1>2, <1>3, PlaceBelow
<1>5. L \in 1..Len(b) /\ b[L] = stack[L].body
  <2>1. L \in 1..Len(b) /\ L \in 1..L
    BY <1>1, <1>3
  <2>2. Upto(b, L)[L] = b[L] /\ BodiesTo(L)[L] = stack[L].body
    BY <2>1 DEF Upto, BodiesTo
  <2> QED
    BY <1>4, <2>1, <2>2
<1>6. ASSUME NEW k \in 1..n PROVE stack[L].results[k].error # "Suspend"
  BY <1>1, <1>6, OverResults
<1>7. m <= n
  <2> SUFFICES ASSUME n < m PROVE FALSE
    BY <1>1, <1>4
  <2>1. n < Len(stack[L].body) /\ n # Len(stack[L].body)
    BY <1>1, <1>4
  <2>2. n > 0 /\ ~GoesOn(stack[L].body[n], stack[L].results[n])
    BY <2>1 DEF BodyOver
  <2>3. n \in 1..n /\ n \in 1..(p[L] - 1)
    BY <1>1, <1>4, <2>2
  <2>4. ~GoesOn(stack[L].body[n], observed[PathTo(L, n)])
    BY <1>1, <1>6, <2>1, <2>2, <2>3, CourseIsObserved
  <2>5. GoesOn(b[L][n], observed[Turn(p, L, n)])
    BY <1>2, <1>5, <2>3 DEF CameTo
  <2>6. Turn(p, L, n) = PathTo(L, n)
    <3>1. \A j \in 1..L : Upto(p, L)[j] = p[j] /\ PathTo(L, m)[j] = IF j < L THEN Position(j) ELSE m
      BY DEF Upto, PathTo
    <3>2. \A j \in 1..L : j < L => p[j] = Position(j)
      BY <1>4, <3>1
    <3> HIDE DEF n
    <3> QED
      BY <3>2 DEF Turn, PathTo
  <2> QED
    BY <1>5, <2>4, <2>5, <2>6
<1>8. m \in 1..n
  BY <1>1, <1>4, <1>7
<1>9. Agreed(log, call, OpAt(BodiesTo(L), PathTo(L, m)), observed[PathTo(L, m)])
  <2>1. PathTo(L, m) \in DOMAIN observed
    BY <1>1, <1>6, <1>8 DEF AgreesInv, ResultsOK
  <2>2. /\ Place(BodiesTo(L), PathTo(L, m))
        /\ CallAt(BodiesTo(L), PathTo(L, m)) = call
    BY <1>1, <1>4, StackPlace
  <2> QED
    BY <1>1, <2>1, <2>2 DEF AgreesInv, ObservedOK
<1>10. /\ CallAt(BodiesTo(L), PathTo(L, m)) = call
       /\ IdAt(BodiesTo(L), PathTo(L, m)) = SubSeq(id, 1, L)
       /\ Place(BodiesTo(L), PathTo(L, m))
  BY <1>2, <1>4, <1>5, PlaceUpto
<1> HIDE DEF m, n
<1>11. call.kind # "result" => OpAt(BodiesTo(L), PathTo(L, m)) = SubSeq(id, 1, L)
  BY <1>10 DEF OpAt, IdAt
<1>12. CASE Len(b) = L
  <2>1. call = CallAt(b, p)
    BY <1>5, <1>12 DEF CallAt, m
  <2>2. TakesId(call) /\ call.kind # "nextId" /\ log[id].type = Type(call.kind)
    BY <1>1, <1>2, <2>1 DEF LogTyped
  <2>3. call.kind \in Guarded \ {"result"}
    <3>1. call.kind \in {"atLeastOnce", "atMostOnce", "condition", "wait", "invoke", "callback",
                         "result", "submit", "nextId", "cancel", "complete", "child"}
      BY <1>1, <1>4, BodyAssumption
    <3> QED
      BY <2>2, <3>1 DEF TakesId, Guarded, Durable
  <2>4. SubSeq(id, 1, L) = id
    <3>1. /\ IsSeq(SubSeq(id, 1, L)) /\ Len(SubSeq(id, 1, L)) = L
          /\ \A j \in 1..L : SubSeq(id, 1, L)[j] = id[j]
      BY <1>1, <1>3, <1>12, PrefixIs
    <3> QED
      BY <1>3, <1>12, <3>1, SameSeq
  <2>5. Decision(call.kind, log[id]) = "replay"
    BY <1>9, <1>11, <2>3, <2>4 DEF Agreed
  <2> QED
    BY <2>2, <2>3, <2>5, ReplayedHasEnded
<1>13. CASE Len(b) # L
  <2>1. L \in 1..(Len(b) - 1) /\ L \in 1..(Len(id) - 1)
    BY <1>3, <1>5, <1>13
  <2>2. call.kind = "child"
    BY <1>2, <1>5, <2>1 DEF Place, m
  <2>3. /\ SubSeq(id, 1, L) \in DOMAIN log
        /\ Decision(call.kind, log[SubSeq(id, 1, L)]) = "replay"
    BY <1>9, <1>11, <2>2 DEF Agreed, Guarded
  <2>4. log[SubSeq(id, 1, L)].type = "CONTEXT"
    <3>1. IdAt(Upto(b, L), Upto(p, L)) = SubSeq(id, 1, L)
      BY <1>4, <1>10
    <3> QED
      BY <1>2, <2>1, <3>1 DEF CameTo
  <2>5. log[SubSeq(id, 1, L)].status \in Terminal
    <3>1. Type("child") = "CONTEXT" /\ "child" \in Guarded \ {"result"}
      BY DEF Type, Guarded
    <3> QED
      BY <2>2, <2>3, <2>4, <3>1, ReplayedHasEnded
  <2> QED
    BY <2>1, <2>5 DEF PartsInv, PartsOK
<1> QED
  BY <1>12, <1>13

\* What a new operation begins with are the contexts that are open, and one that ends has nothing
\* below it that has not ended.
LEMMA PartsSteps ==
  ASSUME SteadyBodies, SubmittersLast, PartsInv, AnyStep, LogGrows
  PROVE  PartsOK'
<1>1. SUFFICES ASSUME NEW id \in DOMAIN log', ~Ended(log'[id]), NEW n \in 1..(Len(id) - 1)
               PROVE  log'[SubSeq(id, 1, n)].status \notin Terminal
  BY DEF PartsOK
<1> DEFINE c == SubSeq(id, 1, n)
<1>2. ContextsInv /\ StackOK /\ LogOK /\ LogPlaced /\ PartsOK
  BY DEF PartsInv, AgreesInv, ContextsInv
<1>3. ASSUME id \in DOMAIN log
      PROVE  /\ ~Ended(log[id]) /\ Len(id) \in Nat /\ Len(c) = n /\ c \in DOMAIN log
             /\ log[c].type = "CONTEXT" /\ log[c].status \notin Terminal
  <2>1. ~Ended(log[id])
    BY <1>1, <1>3 DEF LogGrows, Evolves, Ended
  <2>2. PICK b, p : Place(b, p) /\ IdAt(b, p) = id /\ CameTo(b, p)
    BY <1>2, <1>3 DEF LogPlaced
  <2>3. IsSeq(id) /\ Len(id) = Len(b) /\ Len(b) \in Nat
    <3>1. Len(b) \in Nat
      BY <2>2, PlaceIs
    <3>2. IsSeq(IdAt(b, p)) /\ Len(IdAt(b, p)) = Len(b)
      BY <3>1, TableIs DEF IdAt
    <3> QED
      BY <2>2, <3>1, <3>2
  <2>4. n \in 1..(Len(b) - 1) /\ n \in 1..Len(b) /\ n \in 0..Len(id)
    BY <2>3
  <2>5. c = IdAt(Upto(b, n), Upto(p, n))
    BY <2>2, <2>4, PlaceUpto
  <2>6. c \in DOMAIN log /\ log[c].type = "CONTEXT"
    BY <2>2, <2>4, <2>5 DEF CameTo
  <2>7. Len(c) = n
    BY <2>3, <2>4, PrefixIs
  <2> QED
    BY <1>2, <1>3, <2>1, <2>3, <2>6, <2>7 DEF PartsOK
<1>4. CASE log' = log
  BY <1>1, <1>2, <1>3, <1>4
<1>5. ASSUME NEW d, NEW op, Records(d, op)
      PROVE  /\ DOMAIN log' = DOMAIN log \cup {d}
             /\ \A e \in DOMAIN log \ {d} : log'[e] = log[e]
             /\ d \in DOMAIN log => op.type = log[d].type
  <2>1. /\ DOMAIN log' = DOMAIN log \cup {d}
        /\ \A e \in DOMAIN log \ {d} : log'[e] = log[e]
    BY <1>2, <1>5, RecordsGrow
  <2> QED
    BY <1>5, <2>1 DEF Records, Evolves
<1>6. ASSUME NEW d \in DOMAIN log, NEW op, Records(d, op), log[d].type # "CONTEXT"
      PROVE  c \in DOMAIN log /\ log'[c] = log[c] /\ log[c].status \notin Terminal
  <2>1. id \in DOMAIN log
    BY <1>5, <1>6
  <2> QED
    BY <1>3, <1>5, <1>6, <2>1
<1>7. CASE Completes
  <2>1. PICK d, op : d \in DOMAIN log /\ Records(d, op) /\ log[d].type # "CONTEXT"
    BY <1>7 DEF Completes
  <2> QED
    BY <1>6, <2>1
<1>8. ASSUME NEW i, Going(i), RecordsCall(i), i < Len(stack) => \E o : Finishes(i, o)
      PROVE  c \in DOMAIN log /\ log'[c].status \notin Terminal
  <2>1. PICK d, op : Records(d, op) /\ (Own(i, d, op) \/ Cancels(d, op))
    BY <1>8 DEF RecordsCall
  <2>2. CASE Cancels(d, op)
    <3>1. d \in DOMAIN log /\ log[d].type # "CONTEXT"
      BY <2>2 DEF Cancels
    <3> QED
      BY <1>6, <2>1, <3>1
  <2>3. i \in Nat \ {0} /\ i \in 1..Len(stack) /\ Len(stack) \in Nat
    BY <1>2, <1>8, SeqIs DEF StackOK, Going
  <2>4. ASSUME Own(i, d, op)
        PROVE  IsSeq(d) /\ Len(d) = i /\ d = CallId(i)
    <3>1. IsSeq(ContextId(i)) /\ Len(ContextId(i)) = i - 1
      BY <2>3, ContextIdIs
    <3> QED
      BY <2>3, <2>4, <3>1, AppendIs DEF Own, CallId
  <2>5. CASE Own(i, d, op) /\ id \notin DOMAIN log
    <3>1. id = d
      BY <1>5, <2>1, <2>5
    <3>2. n \in 0..(i - 1) /\ n + 1 \in 2..Len(stack)
      BY <2>3, <2>4, <2>5, <3>1
    <3>3. c = ContextId(n + 1)
      BY <2>3, <2>4, <2>5, <3>1, <3>2, ContextIdPrefix
    <3>4. c \in DOMAIN log /\ log[c].status \notin Terminal
      BY <1>2, <3>2, <3>3 DEF ContextsInv, OpenInv
    <3>5. log'[c] = log[c]
      BY <1>5, <2>1, <2>5, <3>1, <3>4
    <3> QED
      BY <3>4, <3>5
  <2>6. CASE Own(i, d, op) /\ id \in DOMAIN log /\ c # d
    BY <1>3, <1>5, <2>1, <2>6
  <2>7. CASE Own(i, d, op) /\ id \in DOMAIN log /\ c = d
    <3> SUFFICES ASSUME log'[c].status \in Terminal PROVE FALSE
      BY <1>3, <2>7
    <3>1. log'[d] = op /\ op.type = "CONTEXT" /\ op.status \in Terminal
      <4>1. log'[d] = op
        BY <1>2, <2>1, RecordsGrow
      <4> QED
        BY <1>3, <1>5, <2>1, <2>7, <4>1
    <3>2. i < Len(stack)
      BY <2>7, <3>1 DEF Own
    <3>3. PICK o : Finishes(i, o)
      BY <1>8, <3>2
    <3>4. log' # log
      BY <1>3, <2>7, <3>1
    <3>5. /\ i + 1 = Len(stack) /\ pc = "call" /\ BodyOver(stack[i + 1])
          /\ BodyResult(stack[i + 1]).error # "Suspend"
      BY <2>3, <3>3, <3>4 DEF Finishes
    <3>6. Len(id) >= i + 1 /\ n = i
      BY <1>3, <2>3, <2>4, <2>7
    <3>7. SubSeq(id, 1, i) = ContextId(i + 1)
      BY <2>3, <2>4, <2>7, <3>6, ContextIdIs
    <3>8. Ended(log[id])
      <4> DEFINE L == i + 1
      <4>1. /\ L = Len(stack) /\ L > 0 /\ BodyOver(stack[L])
            /\ BodyResult(stack[L]).error # "Suspend"
            /\ Len(id) >= L /\ SubSeq(id, 1, L - 1) = ContextId(L)
        <5>1. L - 1 = i /\ L > 0
          BY <2>3
        <5> QED
          BY <3>5, <3>6, <3>7, <5>1
      <4> HIDE DEF L
      <4> QED
        BY <2>7, <3>5, <4>1, NothingIsLeft
    <3> QED
      BY <1>3, <2>7, <3>8
  <2> QED
    BY <2>1, <2>2, <2>5, <2>6, <2>7
<1> QED
  BY <1>4, <1>7, <1>8, LogChanges

LEMMA PartsInit ==
  ASSUME Init
  PROVE  PartsInv
<1>1. AgreesInv
  BY AgreesInit
<1>2. DOMAIN observed = {} /\ DOMAIN log = {}
  BY DEF Init
<1>3. Len(stack) = 0
  BY EmptyIs DEF Init
<1> QED
  BY <1>1, <1>2, <1>3 DEF PartsInv, OutcomesOK, ResultsAreStored, LogPlaced, PartsOK

LEMMA PartsStep ==
  ASSUME OwnContexts, SubmittersLast, SteadyBodies, PartsInv, [Next]_vars
  PROVE  PartsInv'
<1>1. ContextsInv' /\ LogGrows /\ AnyStep
  BY ContextsStep DEF PartsInv, AgreesInv, AnyStep
<1>2. AgreesInv'
  BY <1>1, ObservedSteps, ResultsSteps DEF PartsInv, AgreesInv, AnyStep
<1>3. OutcomesOK' /\ ResultsAreStored' /\ LogPlaced' /\ PartsOK'
  BY <1>1, OutcomesSteps, StoredSteps, PlacedSteps, PartsSteps
<1> QED
  BY <1>2, <1>3 DEF PartsInv

-----------------------------------------------------------------------------
(* How an execution ends.                                                  *)

AllEnded == \A id \in DOMAIN log : Ended(log[id])

\* The handler has returned, and the invocation is still to end.
HandlerOver ==
  /\ Len(stack) = 1 /\ pc = "call" /\ BodyOver(stack[1])
  /\ BodyResult(stack[1]).error # "Suspend"

\* An execution that has an output does nothing any more.
OutputOK ==
  /\ output \in {"none", "succeeded", "failed"}
  /\ output # "none" => invocation = "over" \/ HandlerOver
  /\ output = "succeeded" /\ invocation = "over" => AllEnded

LEMMA NothingIsLeftAtAll ==
  ASSUME SteadyBodies, SubmittersLast, PartsInv, HandlerOver
  PROVE  AllEnded
<1> SUFFICES ASSUME NEW id \in DOMAIN log PROVE Ended(log[id])
  BY DEF AllEnded
<1>1. Len(id) >= 1
  <2>1. PICK b, p : Place(b, p) /\ IdAt(b, p) = id
    BY DEF PartsInv, LogPlaced
  <2>2. Len(b) \in Nat /\ Len(b) > 0
    BY <2>1, PlaceIs DEF Place
  <2>3. Len(IdAt(b, p)) = Len(b)
    BY <2>2, TableIs DEF IdAt
  <2> QED
    BY <2>1, <2>2, <2>3
<1> DEFINE L == 1
<1>2. /\ L = Len(stack) /\ L > 0 /\ pc = "call" /\ BodyOver(stack[L])
      /\ BodyResult(stack[L]).error # "Suspend" /\ Len(id) >= L /\ ~(L > 1)
  BY <1>1 DEF HandlerOver
<1> HIDE DEF L
<1> QED
  BY <1>2, NothingIsLeft

\* The handler has a call to make, or runs it: no step of a body that is over.
LEMMA BusyIsNotOver ==
  ASSUME StackOK, NEW point, At(point)
  PROVE  ~HandlerOver /\ invocation = "running"
<1> SUFFICES ASSUME Len(stack) = 1, BodyOver(stack[1]) PROVE FALSE
  BY DEF At, HandlerOver
<1>1. Top = stack[1]
  BY DEF Top, Last
<1> QED
  BY <1>1 DEF At

LEMMA OutputInit ==
  ASSUME Init
  PROVE  OutputOK
BY DEF Init, OutputOK

\* complete_execution_if_large records the result when the handler has nothing else to do.
LEMMA CompleteExecutionEnds ==
  ASSUME SteadyBodies, OwnContexts, ContextsInv, CompleteExecution, output' # output
  PROVE  HandlerOver' /\ output' = "succeeded"
<1> DEFINE o == Success(Nothing)
<1>1. At("call") /\ Here.kind = "complete" /\ Here.big /\ ExecutionListed
      /\ output' = "succeeded"
  BY DEF CompleteExecution, Calling
<1>2. /\ StackOK /\ Going(Len(stack)) /\ Here = CallIn(Len(stack))
      /\ CutAt(Begun, Len(stack), Called(Len(stack)))
  BY <1>1, CallIs DEF ContextsInv
<1> SUFFICES ASSUME NEW L, L = Len(stack), NEW n, n = Position(L) PROVE HandlerOver'
  BY <1>1
<1>3. /\ L \in Nat /\ L \in 1..L /\ stack[L].body \in Bodies /\ IsSeq(stack[L].results)
      /\ n = Len(stack[L].results) + 1 /\ Len(stack[L].results) \in Nat
      /\ n \in 1..Len(stack[L].body)
  <2>1. L \in Nat /\ L \in 1..L
    BY <1>2, SeqIs DEF StackOK, Going
  <2>2. /\ stack[L].body \in Bodies /\ IsSeq(stack[L].results) /\ Len(stack[L].body) \in Nat
        /\ Len(stack[L].results) \in Nat
    BY <1>2, <2>1, FrameIs
  <2> QED
    BY <1>2, <2>1, <2>2 DEF Going, Position
<1>4. n = Len(stack[L].body)
  BY <1>1, <1>2, <1>3, SteadyCall DEF CallIn
<1>5. L = 1
  <2> SUFFICES ASSUME L # 1 PROVE FALSE
    OBVIOUS
  <2> DEFINE k == L - 1
  <2>1. k \in 1..(Len(stack) - 1) /\ k \in 1..Len(stack) /\ k < Len(stack) /\ k + 1 = L
    BY <1>3
  <2>2. /\ Going(k) /\ CallIn(k).kind = "child" /\ stack[L].body = CallIn(k).body
        /\ stack[k].body \in Bodies /\ Len(stack[k].results) \in Nat /\ Len(stack[k].body) \in Nat
    BY <1>2, <2>1, FrameIs DEF StackOK
  <2>3. Position(k) \in 1..Len(stack[k].body)
    BY <2>2 DEF Going, Position
  <2>4. \A m \in DOMAIN stack[L].body :
          ~(stack[L].body[m].kind = "complete" /\ stack[L].body[m].big)
    <3> HIDE DEF k
    <3> QED
      BY <2>2, <2>3, SteadyCall DEF CallIn
  <2>5. n \in DOMAIN stack[L].body
    BY <1>3, BodyIs
  <2> QED
    BY <1>1, <1>2, <2>4, <2>5 DEF CallIn
<1>6. Return(Begun, o) /\ IsOutcome(o) /\ o.error # "Suspend"
  BY <1>1, SuccessIs DEF CompleteExecution
<1>7. Returns(L, o)
  <2> HIDE DEF o
  <2> QED
    BY <1>2, <1>6, ReturnIs DEF CompleteExecution
<1>8. /\ Len(stack') = 1 /\ pc' = "call" /\ stack'[1].body = stack[1].body
      /\ stack'[1].results = Append(stack[1].results, o)
  BY <1>5, <1>7 DEF Returns, CutAt, Answered, FrameOf
<1> HIDE DEF o
<1>9. /\ Len(stack'[1].results) = Len(stack'[1].body) /\ Len(stack'[1].results) = n
      /\ stack'[1].results[n] = o
  BY <1>3, <1>4, <1>5, <1>8, AppendIs
<1>10. BodyOver(stack'[1])
  BY <1>9 DEF BodyOver
<1>11. BodyResult(stack'[1]).error # "Suspend"
  BY <1>3, <1>6, <1>9, SuspendIsLast
<1> QED
  BY <1>8, <1>10, <1>11 DEF HandlerOver

\* The handler returns: the execution goes on only when it waits for something.
LEMMA EndHandlerEnds ==
  ASSUME SteadyBodies, SubmittersLast, PartsInv, OutputOK, EndHandler
  PROVE  OutputOK'
<1> DEFINE result == BodyResult(Top)
           ending == IF output # "none" THEN output
                     ELSE IF result.error = "Suspend"
                     THEN IF Pending # {} THEN "none" ELSE "rejected"
                     ELSE IF result.ok THEN "succeeded" ELSE "failed"
<1>1. /\ invocation = "running" /\ Len(stack) = 1 /\ BodyOver(Top)
      /\ output' = ending /\ invocation' = IF ending = "none" THEN "suspended" ELSE "over"
      /\ log' = log
  BY DEF EndHandler
<1>2. StackOK /\ Top = stack[1] /\ 1 \in 1..Len(stack)
  BY <1>1 DEF PartsInv, AgreesInv, ContextsInv, Top, Last
<1>3. pc = "call"
  <2> SUFFICES ASSUME pc = "run" PROVE FALSE
    BY <1>2 DEF StackOK
  <2>1. Going(1)
    BY <1>2, FrameIs
  <2>2. Len(stack[1].results) \in Nat /\ Len(stack[1].body) \in Nat
    BY <1>2, FrameIs
  <2>3. Len(stack[1].results) # Len(stack[1].body)
    BY <2>1, <2>2 DEF Going, Position
  <2>4. Len(stack[1].results) > 0
        => GoesOn(stack[1].body[Len(stack[1].results)], stack[1].results[Len(stack[1].results)])
    BY <2>1, <2>2 DEF Going
  <2> QED
    BY <1>1, <1>2, <2>3, <2>4 DEF BodyOver
<1>4. result.error # "Suspend" => HandlerOver
  BY <1>1, <1>2, <1>3 DEF HandlerOver
<1>5. output # "none" => HandlerOver
  BY <1>1 DEF OutputOK
<1>6. result.error = "Suspend" => Pending # {}
  <2>1. \/ Known(result)
        \/ \E id \in DOMAIN log : IsPending(log[id])
    BY <1>2, BodyResultKnown DEF PartsInv
  <2> HIDE DEF result
  <2> QED
    BY <2>1, KnownIs DEF Pending
<1>7. HandlerOver => AllEnded
  BY NothingIsLeftAtAll
<1> HIDE DEF result
<1>8. ending \in {"none", "succeeded", "failed"}
  BY <1>6 DEF OutputOK
<1>9. ending = "succeeded" => AllEnded
  BY <1>4, <1>5, <1>7
<1>10. AllEnded => AllEnded'
  BY <1>1 DEF AllEnded
<1> HIDE DEF ending
<1> QED
  BY <1>1, <1>8, <1>9, <1>10 DEF OutputOK

LEMMA OutputSteps ==
  ASSUME OwnContexts, SubmittersLast, SteadyBodies, PartsInv, OutputOK, [Next]_vars
  PROVE  OutputOK'
<1>1. ContextsInv /\ StackOK
  BY DEF PartsInv, AgreesInv, ContextsInv
<1>2. HandlerOver => invocation = "running"
  BY <1>1 DEF HandlerOver, StackOK
<1>3. CASE output' = output /\ output = "none"
  BY <1>3 DEF OutputOK
<1>5. ASSUME NEW point, At(point), output' = output
      PROVE  OutputOK'
  <2>1. output = "none"
    BY <1>1, <1>5, BusyIsNotOver DEF OutputOK
  <2> QED
    BY <1>3, <1>5, <2>1
<1>6. CASE \/ Replay \/ Begin \/ Suspend \/ CreateCallback \/ StepEnds \/ ConditionMet
           \/ ConditionNotMet \/ Submit \/ Submitted \/ TakeId \/ CancelWait \/ CancelTooLate
           \/ ReplayChild \/ EnterChild
  <2>1. output' = output /\ (At("call") \/ At("run"))
    BY <1>6 DEF Replay, Begin, Suspend, CreateCallback, StepEnds, ConditionMet, ConditionNotMet,
            Submit, Submitted, TakeId, CancelWait, CancelTooLate, ReplayChild, EnterChild, Calling
  <2> QED
    BY <1>5, <2>1
<1>7. CASE CompleteExecution
  <2>1. At("call")
    BY <1>7 DEF CompleteExecution, Calling
  <2>2. CASE output' = output
    BY <1>5, <2>1, <2>2
  <2>3. CASE output' # output
    <3>1. HandlerOver' /\ output' = "succeeded"
      BY <1>1, <1>7, <2>3, CompleteExecutionEnds
    <3>2. invocation' # "over"
      BY <1>1, <1>7, <2>1, BusyIsNotOver DEF CompleteExecution
    <3> QED
      BY <3>1, <3>2 DEF OutputOK
  <2> QED
    BY <2>2, <2>3
<1>8. CASE EndChild
  <2>1. output' = output /\ invocation = "running" /\ Len(stack) > 1
    BY <1>8 DEF EndChild
  <2>2. output = "none"
    <3>1. Len(stack) # 1
      BY <1>1, <2>1, SeqIs DEF StackOK
    <3>2. ~HandlerOver
      BY <3>1 DEF HandlerOver
    <3>3. invocation # "over"
      BY <2>1
    <3> QED
      BY <3>2, <3>3 DEF OutputOK
  <2> QED
    BY <1>3, <2>1, <2>2
<1>9. CASE RecordLargeResult
  <2>1. /\ invocation = "running" /\ Len(stack) = 1 /\ BodyOver(Top) /\ BodyResult(Top).ok
        /\ output' = "succeeded" /\ UNCHANGED <<invocation, stack, pc>>
    BY <1>9 DEF RecordLargeResult
  <2>2. Top = stack[1] /\ 1 \in 1..Len(stack)
    BY <2>1 DEF Top, Last
  <2>3. BodyResult(stack[1]).error # "Suspend"
    <3>1. Failed("Suspend").ok = FALSE
      BY FailedIs
    <3> QED
      BY <1>1, <2>1, <2>2, <3>1, BodyResultKnown, KnownIs DEF PartsInv
  <2>4. pc = "call"
    <3> SUFFICES ASSUME pc = "run" PROVE FALSE
      BY <1>1 DEF StackOK
    <3>1. Going(1)
      BY <1>1, <2>2, FrameIs
    <3>2. Len(stack[1].results) \in Nat /\ Len(stack[1].body) \in Nat
      BY <1>1, <2>2, FrameIs
    <3> QED
      BY <2>1, <2>2, <3>1, <3>2 DEF BodyOver, Going, Position
  <2>5. HandlerOver /\ HandlerOver'
    BY <2>1, <2>2, <2>3, <2>4 DEF HandlerOver
  <2> QED
    BY <2>1, <2>5 DEF OutputOK
<1>10. CASE EndHandler
  BY <1>10, EndHandlerEnds
<1>11. CASE Crash
  <2>1. /\ invocation = "running" /\ UNCHANGED <<output, log>>
        /\ invocation' = IF output = "none" THEN "due" ELSE "over"
    BY <1>11 DEF Crash
  <2>2. output # "none" => HandlerOver
    BY <2>1 DEF OutputOK
  <2>3. output = "succeeded" => AllEnded /\ AllEnded'
    BY <2>1, <2>2, NothingIsLeftAtAll DEF AllEnded
  <2> QED
    BY <2>1, <2>3 DEF OutputOK
<1>12. CASE Invoke \/ \E id \in Pending : Complete(id)
  <2>1. invocation \in {"due", "suspended"} /\ output' = output
    BY <1>12 DEF Invoke, Complete
  <2>2. output = "none"
    BY <1>2, <2>1 DEF OutputOK
  <2> QED
    BY <1>3, <2>1, <2>2
<1>13. CASE UNCHANGED vars
  <2>1. UNCHANGED <<output, invocation, stack, pc, log>>
    BY <1>13 DEF vars
  <2> QED
    BY <2>1 DEF OutputOK, HandlerOver, AllEnded
<1> QED
  BY <1>6, <1>7, <1>8, <1>9, <1>10, <1>11, <1>12, <1>13 DEF Next, HandlerStep

LEMMA PartsImply ==
  ASSUME SteadyBodies, SubmittersLast, PartsInv, OutputOK
  PROVE  EndsAfterItsParts
<1> SUFFICES ASSUME NEW id \in DOMAIN log, ~Ended(log[id])
             PROVE  /\ output \notin {"succeeded", "rejected"}
                    /\ \A n \in 1..(Len(id) - 1) : log[SubSeq(id, 1, n)].status \notin Terminal
  BY DEF EndsAfterItsParts, Ended
<1>1. \A n \in 1..(Len(id) - 1) : log[SubSeq(id, 1, n)].status \notin Terminal
  BY DEF PartsInv, PartsOK
<1>2. output # "succeeded"
  BY NothingIsLeftAtAll DEF OutputOK, AllEnded
<1> QED
  BY <1>1, <1>2 DEF OutputOK

\* A context, or an execution, that ends leaves nothing behind that is still to end, for its
\* body has come to all that was ever recorded in it and has the results.  Supposed of every
\* body: no calls on the parent's context and no context with replay_children (OwnContexts),
\* no call after a submitter (SubmittersLast), and what Steady says: the same course whatever
\* error an operation fails with, no suspension handled, no summary stored, no wait cancelled,
\* and nothing done after the result of the execution is recorded (SteadyBodies).
THEOREM EndsComeLast ==
  ASSUME OwnContexts, SubmittersLast, SteadyBodies
  PROVE  Spec => []EndsAfterItsParts
<1>1. Init => PartsInv /\ OutputOK
  BY PartsInit, OutputInit
<1>2. PartsInv /\ OutputOK /\ [Next]_vars => PartsInv' /\ OutputOK'
  BY PartsStep, OutputSteps
<1>3. PartsInv /\ OutputOK => EndsAfterItsParts
  BY PartsImply
<1> QED
  BY <1>1, <1>2, <1>3, PTL DEF Spec

==============================================================================
