----------------------- MODULE CheckpointOrderProofs -----------------------
(***************************************************************************)
(* What sort_checkpoint_batch makes of a batch, whatever its length: an    *)
(* insertion sort, by induction over the updates that have been inserted.  *)
(* The induction is that a set of naturals has a least element.            *)
(***************************************************************************)
EXTENDS CheckpointOrder, FiniteSetTheorems, SequenceTheorems, TLAPS

-----------------------------------------------------------------------------
(* Induction.                                                              *)

LEMMA LeastOfNaturals ==
  ASSUME NEW S, S \subseteq Nat, S # {}
  PROVE  \E x \in S : \A y \in S : x <= y
<1> DEFINE less == {ss \in Nat \X Nat : ss[1] < ss[2]}
<1>1. IsWellFoundedOn(less, Nat)
  BY NatLessThanWellFounded DEF OpToRel
<1>2. \A x, y \in Nat : <<y, x>> \in less <=> y < x
  OBVIOUS
<1> HIDE DEF less
<1>3. PICK x \in S : \A y \in S : <<y, x>> \notin less
  BY <1>1, WFMin
<1>4. ASSUME NEW y \in S PROVE x <= y
  <2>1. x \in Nat /\ y \in Nat /\ <<y, x>> \notin less
    BY <1>3
  <2> QED
    BY <1>2, <2>1
<1> QED
  BY <1>3, <1>4

LEMMA InductionTo ==
  ASSUME NEW N \in Nat, NEW P, 0 \in P, \A k \in 1..N : k - 1 \in P => k \in P
  PROVE  0..N \subseteq P
<1> DEFINE Others == (0..N) \ P
<1> SUFFICES ASSUME Others # {} PROVE FALSE
  OBVIOUS
<1>1. PICK x \in Others : \A y \in Others : x <= y
  <2>1. Others \subseteq Nat
    OBVIOUS
  <2> QED
    BY <2>1, LeastOfNaturals
<1>2. x \in 1..N
  BY <1>1
<1>3. x - 1 \in 0..N /\ ~(x <= x - 1)
  BY <1>2
<1>4. x - 1 \in P
  BY <1>1, <1>3
<1> QED
  BY <1>1, <1>2, <1>4

LEMMA LargestOf ==
  ASSUME NEW n \in Nat, NEW S, S \subseteq 0..n, S # {}
  PROVE  Max(S) \in S /\ \A y \in S : y <= Max(S)
<1> DEFINE T == {n - y : y \in S}
<1>1. T \subseteq Nat /\ T # {}
  OBVIOUS
<1>2. PICK t \in T : \A u \in T : t <= u
  BY <1>1, LeastOfNaturals
<1>3. PICK x \in S : t = n - x
  BY <1>2
<1>4. ASSUME NEW y \in S PROVE x >= y
  <2>1. n - x <= n - y
    BY <1>2, <1>3
  <2> QED
    BY <2>1
<1>5. \E z \in S : \A y \in S : z >= y
  BY <1>4
<1>6. Max(S) \in S /\ \A y \in S : Max(S) >= y
  BY <1>5 DEF Max
<1> QED
  BY <1>6

-----------------------------------------------------------------------------
(* The insertion sort.                                                     *)

\* Insert in the definition of SortedOrder.
Inserted(batch, order, k) ==
  LET stops == {p \in 1..Len(order) : ~ComparesLess(batch, k, order[p])}
  IN  InsertAt(order, 1 + Max(stops \cup {0}), k)

\* And Order.
OrdersOf(batch) ==
  CHOOSE g : g = [k \in 0..Len(batch) |-> IF k = 0 THEN <<>> ELSE Inserted(batch, g[k - 1], k)]

LEMMA OrdersExist ==
  ASSUME NEW batch, Len(batch) \in Nat
  PROVE  \E g : g = [k \in 0..Len(batch) |->
                       IF k = 0 THEN <<>> ELSE Inserted(batch, g[k - 1], k)]
<1> DEFINE N == Len(batch)
           P == {m \in 0..N : \E g : g = [k \in 0..m |->
                   IF k = 0 THEN <<>> ELSE Inserted(batch, g[k - 1], k)]}
<1>1. 0 \in P
  <2> DEFINE h == [k \in 0..0 |-> <<>>]
  <2>1. h = [k \in 0..0 |-> IF k = 0 THEN <<>> ELSE Inserted(batch, h[k - 1], k)]
    OBVIOUS
  <2> HIDE DEF h
  <2> QED
    BY <2>1
<1>2. ASSUME NEW m \in 1..N, m - 1 \in P PROVE m \in P
  <2>1. PICK g : g = [k \in 0..(m - 1) |-> IF k = 0 THEN <<>> ELSE Inserted(batch, g[k - 1], k)]
    BY <1>2
  <2> DEFINE h == [k \in 0..m |-> IF k = m THEN Inserted(batch, g[m - 1], m) ELSE g[k]]
  <2>2. ASSUME NEW k \in 0..m
        PROVE  h[k] = IF k = 0 THEN <<>> ELSE Inserted(batch, h[k - 1], k)
    BY <2>1
  <2>3. h = [k \in 0..m |-> IF k = 0 THEN <<>> ELSE Inserted(batch, h[k - 1], k)]
    BY <2>2
  <2> HIDE DEF h
  <2> QED
    BY <2>3
<1> HIDE DEF P
<1>3. 0..N \subseteq P
  <2>1. N \in Nat
    OBVIOUS
  <2> QED
    BY <1>1, <1>2, <2>1, InductionTo
<1> QED
  BY <1>3 DEF P

LEMMA OrdersAre ==
  ASSUME NEW batch, Len(batch) \in Nat
  PROVE  /\ OrdersOf(batch)[0] = <<>>
         /\ \A k \in 1..Len(batch) :
              OrdersOf(batch)[k] = Inserted(batch, OrdersOf(batch)[k - 1], k)
         /\ SortedOrder(batch) = OrdersOf(batch)[Len(batch)]
<1> DEFINE f == OrdersOf(batch)
<1>1. f = [k \in 0..Len(batch) |-> IF k = 0 THEN <<>> ELSE Inserted(batch, f[k - 1], k)]
  BY OrdersExist DEF OrdersOf
<1>2. SortedOrder(batch) = f[Len(batch)]
  BY DEF SortedOrder, OrdersOf, Inserted
<1> HIDE DEF f
<1>3. \A k \in 0..Len(batch) : f[k] = IF k = 0 THEN <<>> ELSE Inserted(batch, f[k - 1], k)
  BY <1>1
<1>4. f[0] = <<>> /\ \A k \in 1..Len(batch) : f[k] = Inserted(batch, f[k - 1], k)
  BY <1>3
<1> QED
  BY <1>2, <1>4 DEF f

LEMMA InsertAtIs ==
  ASSUME NEW S, NEW s \in Seq(S), NEW i \in 1..(Len(s) + 1), NEW e \in S,
         NEW o, o = InsertAt(s, i, e)
  PROVE  /\ o \in Seq(S) /\ Len(o) = Len(s) + 1 /\ o[i] = e
         /\ \A j \in 1..(i - 1) : o[j] = s[j]
         /\ \A j \in (i + 1)..(Len(s) + 1) : o[j] = s[j - 1]
<1> DEFINE n == Len(s)
           t == SubSeq(s, 1, i - 1)
           u == SubSeq(s, i, n)
           r == (t \o <<e>>) \o u
<1>1. n \in Nat /\ i \in 1..(n + 1)
  OBVIOUS
<1>2. t \in Seq(S) /\ Len(t) = i - 1 /\ \A j \in 1..(i - 1) : t[j] = s[j]
  <2>1. i = 1 => t = <<>>
    BY <1>1
  <2>2. i # 1 => t \in Seq(S) /\ Len(t) = i - 1 /\ \A j \in 1..(i - 1) : t[j] = s[j]
    BY <1>1
  <2> HIDE DEF t
  <2>3. i = 1 => t \in Seq(S) /\ Len(t) = i - 1 /\ \A j \in 1..(i - 1) : t[j] = s[j]
    BY <2>1
  <2> QED
    BY <2>2, <2>3
<1>3. u \in Seq(S) /\ Len(u) = n - i + 1 /\ \A j \in 1..(n - i + 1) : u[j] = s[i + j - 1]
  <2>1. i = n + 1 => u = <<>>
    BY <1>1
  <2>2. i # n + 1 => /\ u \in Seq(S) /\ Len(u) = n - i + 1
                      /\ \A j \in 1..(n - i + 1) : u[j] = s[i + j - 1]
    BY <1>1
  <2> HIDE DEF u
  <2>3. i = n + 1 => /\ u \in Seq(S) /\ Len(u) = n - i + 1
                     /\ \A j \in 1..(n - i + 1) : u[j] = s[i + j - 1]
    BY <1>1, <2>1
  <2> QED
    BY <2>2, <2>3
<1> HIDE DEF t, u, n
<1>4. /\ t \o <<e>> \in Seq(S) /\ Len(t \o <<e>>) = i
      /\ \A j \in 1..i : (t \o <<e>>)[j] = IF j = i THEN e ELSE t[j]
  BY <1>1, <1>2
<1> DEFINE v == t \o <<e>>
<1> HIDE DEF v
<1>5. /\ v \o u \in Seq(S) /\ Len(v \o u) = n + 1
      /\ \A j \in 1..i : (v \o u)[j] = v[j]
      /\ \A j \in (i + 1)..(n + 1) : (v \o u)[j] = u[j - i]
  <2>1. v \in Seq(S) /\ u \in Seq(S) /\ Len(v) = i /\ Len(u) = n - i + 1
    BY <1>3, <1>4 DEF v
  <2> QED
    BY <1>1, <2>1
<1>6. \A j \in (i + 1)..(n + 1) : u[j - i] = s[j - 1]
  <2>1. ASSUME NEW j \in (i + 1)..(n + 1) PROVE u[j - i] = s[j - 1]
    <3>1. j - i \in 1..(n - i + 1) /\ i + (j - i) - 1 = j - 1
      BY <1>1
    <3> QED
      BY <1>3, <3>1
  <2> QED
    BY <2>1
<1>7. /\ r \in Seq(S) /\ Len(r) = n + 1 /\ r[i] = e
      /\ \A j \in 1..(i - 1) : r[j] = s[j]
      /\ \A j \in (i + 1)..(n + 1) : r[j] = s[j - 1]
  <2>1. r = v \o u
    BY DEF v
  <2>2. v[i] = e /\ \A j \in 1..(i - 1) : v[j] = s[j]
    <3>1. i \in 1..i /\ \A j \in 1..(i - 1) : j \in 1..i /\ j # i
      BY <1>1
    <3>2. \A j \in 1..i : v[j] = IF j = i THEN e ELSE t[j]
      BY <1>4 DEF v
    <3> QED
      BY <1>2, <3>1, <3>2
  <2>3. i \in 1..i /\ \A j \in 1..(i - 1) : j \in 1..i
    BY <1>1
  <2> HIDE DEF r
  <2> QED
    BY <1>5, <1>6, <2>1, <2>2, <2>3
<1>8. InsertAt(s, i, e) = r
  BY DEF InsertAt, t, u, n
<1> QED
  BY <1>7, <1>8 DEF n

\* An update is put at p, behind those that it does not compare Less than.
IsInsertedAt(batch, order, k, r, p) ==
  /\ r[p] = k
  /\ \A j \in 1..(p - 1) : r[j] = order[j]
  /\ \A j \in (p + 1)..(Len(order) + 1) : r[j] = order[j - 1]
  /\ p > 1 => ~ComparesLess(batch, k, order[p - 1])
  /\ \A j \in p..Len(order) : ComparesLess(batch, k, order[j])

LEMMA InsertedIs ==
  ASSUME NEW batch, NEW S, NEW order \in Seq(S), NEW k \in S, NEW r, r = Inserted(batch, order, k)
  PROVE  /\ r \in Seq(S) /\ Len(r) = Len(order) + 1
         /\ \E p \in 1..(Len(order) + 1) : IsInsertedAt(batch, order, k, r, p)
<1> DEFINE stops == {p \in 1..Len(order) : ~ComparesLess(batch, k, order[p])}
           m == Max(stops \cup {0})
           p == 1 + m
<1>1. m \in stops \cup {0} /\ \A q \in stops \cup {0} : q <= m
  <2>1. stops \cup {0} \subseteq 0..Len(order) /\ stops \cup {0} # {} /\ Len(order) \in Nat
    OBVIOUS
  <2> HIDE DEF stops
  <2> QED
    BY <2>1, LargestOf
<1>2. r = InsertAt(order, p, k)
  BY DEF Inserted
<1> HIDE DEF m
<1>3. m \in 0..Len(order) /\ p \in 1..(Len(order) + 1) /\ Len(order) \in Nat
  BY <1>1
<1>4. p > 1 => ~ComparesLess(batch, k, order[p - 1])
  BY <1>1, <1>3
<1>5. ASSUME NEW j \in p..Len(order) PROVE ComparesLess(batch, k, order[j])
  <2>1. j \in 1..Len(order) /\ ~(j <= m)
    BY <1>3
  <2> QED
    BY <1>1, <2>1
<1> HIDE DEF p
<1>6. /\ r \in Seq(S) /\ Len(r) = Len(order) + 1 /\ r[p] = k
      /\ \A j \in 1..(p - 1) : r[j] = order[j]
      /\ \A j \in (p + 1)..(Len(order) + 1) : r[j] = order[j - 1]
  <2> HIDE DEF stops
  <2>1. r \in Seq(S) /\ Len(r) = Len(order) + 1
    BY <1>2, <1>3, InsertAtIs
  <2>2. r[p] = k
    BY <1>2, <1>3, InsertAtIs
  <2>3. \A j \in 1..(p - 1) : r[j] = order[j]
    BY <1>2, <1>3, InsertAtIs
  <2>4. ASSUME NEW j \in (p + 1)..(Len(order) + 1) PROVE r[j] = order[j - 1]
    <3>1. p \in 1..(Len(order) + 1)
      BY <1>3
    <3>2. \A i \in (p + 1)..(Len(order) + 1) : InsertAt(order, p, k)[i] = order[i - 1]
      BY <3>1, InsertAtIs
    <3> QED
      BY <1>2, <3>2
  <2> QED
    BY <2>1, <2>2, <2>3, <2>4
<1>7. IsInsertedAt(batch, order, k, r, p)
  BY <1>4, <1>5, <1>6 DEF IsInsertedAt
<1> QED
  BY <1>3, <1>6, <1>7

\* The order of the first k updates of a batch.
SortedTo(batch, order, k) ==
  /\ order \in Seq(Nat) /\ Len(order) = k
  /\ \A i \in 1..k : order[i] \in 1..k
  /\ \A i \in 1..k : \E j \in 1..k : order[j] = i
  /\ \A i, j \in 1..k : order[i] = order[j] => i = j
  /\ \A i, j \in 1..k : order[i] < order[j] /\ ~ComparesLess(batch, order[j], order[i]) => i < j
  /\ \A i, j \in 1..k : IsExecutionCompletion(batch[order[i]]) /\ i < j =>
                          IsExecutionCompletion(batch[order[j]])

\* Rule 2 of the comparator.
LEMMA CompletionsCompare ==
  ASSUME NEW batch, NEW i, NEW j
  PROVE  /\ ~IsExecutionCompletion(batch[i]) /\ IsExecutionCompletion(batch[j]) =>
              ComparesLess(batch, i, j)
         /\ ComparesLess(batch, i, j) /\ IsExecutionCompletion(batch[i]) =>
              IsExecutionCompletion(batch[j])
<1>1. IsExecutionCompletion(batch[i]) \in BOOLEAN /\ IsExecutionCompletion(batch[j]) \in BOOLEAN
  BY DEF IsExecutionCompletion
<1>2. ComparesLess(batch, i, j) =>
        \/ ~IsExecutionCompletion(batch[i]) /\ IsExecutionCompletion(batch[j])
        \/ IsExecutionCompletion(batch[i]) = IsExecutionCompletion(batch[j])
  BY DEF ComparesLess
<1>3. ~IsExecutionCompletion(batch[i]) /\ IsExecutionCompletion(batch[j]) =>
        ComparesLess(batch, i, j)
  BY DEF ComparesLess
<1> QED
  BY <1>1, <1>2, <1>3

LEMMA InsertedSorts ==
  ASSUME NEW batch, NEW k \in Nat \ {0}, NEW order, SortedTo(batch, order, k - 1)
  PROVE  SortedTo(batch, Inserted(batch, order, k), k)
<1> DEFINE r == Inserted(batch, order, k)
           n == k - 1
<1>1. /\ order \in Seq(Nat) /\ Len(order) = n /\ n \in Nat
      /\ \A i \in 1..n : order[i] \in 1..n
      /\ \A i \in 1..n : \E j \in 1..n : order[j] = i
      /\ \A i, j \in 1..n : order[i] = order[j] => i = j
      /\ \A i, j \in 1..n :
           order[i] < order[j] /\ ~ComparesLess(batch, order[j], order[i]) => i < j
      /\ \A i, j \in 1..n : IsExecutionCompletion(batch[order[i]]) /\ i < j =>
                              IsExecutionCompletion(batch[order[j]])
  BY DEF SortedTo
<1>2. /\ r \in Seq(Nat) /\ Len(r) = Len(order) + 1
      /\ \E p \in 1..(Len(order) + 1) : IsInsertedAt(batch, order, k, r, p)
  <2> DEFINE x == k
             S == Nat
  <2>1. order \in Seq(S) /\ x \in S /\ r = Inserted(batch, order, x)
    BY <1>1
  <2> HIDE DEF x, S, r
  <2>2. r \in Seq(S) /\ Len(r) = Len(order) + 1
    BY <2>1, InsertedIs
  <2>3. \E p \in 1..(Len(order) + 1) : IsInsertedAt(batch, order, x, r, p)
    BY <2>1, InsertedIs
  <2> QED
    BY <2>2, <2>3 DEF x, S
<1> HIDE DEF r, n
<1>3. PICK p \in 1..k :
           /\ r[p] = k
           /\ \A j \in 1..(p - 1) : r[j] = order[j]
           /\ \A j \in (p + 1)..k : r[j] = order[j - 1]
           /\ p > 1 => ~ComparesLess(batch, k, order[p - 1])
           /\ \A j \in p..n : ComparesLess(batch, k, order[j])
  <2>1. Len(order) = n /\ Len(order) + 1 = k
    BY <1>1 DEF n
  <2>2. PICK q \in 1..(Len(order) + 1) : IsInsertedAt(batch, order, k, r, q)
    BY <1>2
  <2>3. q \in 1..k
    BY <2>1
  <2>4. \A j \in (q + 1)..k : r[j] = order[j - 1]
    BY <2>1, <2>2 DEF IsInsertedAt
  <2>5. \A j \in q..n : ComparesLess(batch, k, order[j])
    BY <2>1, <2>2 DEF IsInsertedAt
  <2> QED
    BY <2>2, <2>3, <2>4, <2>5 DEF IsInsertedAt
<1>4. r \in Seq(Nat) /\ Len(r) = k
  BY <1>1, <1>2 DEF n
<1> DEFINE Was(i) == IF i < p THEN i ELSE i - 1
<1>5. ASSUME NEW i \in 1..k, i # p
      PROVE  Was(i) \in 1..n /\ r[i] = order[Was(i)] /\ r[i] \in 1..n
  <2>1. CASE i < p
    <3>1. i \in 1..(p - 1) /\ i \in 1..n
      BY <2>1 DEF n
    <3> QED
      BY <1>1, <1>3, <2>1, <3>1
  <2>2. CASE ~(i < p)
    <3>1. i \in (p + 1)..k /\ i - 1 \in 1..n
      BY <1>5, <2>2 DEF n
    <3> QED
      BY <1>1, <1>3, <2>2, <3>1
  <2> QED
    BY <2>1, <2>2
<1>6. ASSUME NEW i \in 1..k, NEW j \in 1..k, i # p, j # p
      PROVE  (Was(i) < Was(j) <=> i < j) /\ (Was(i) = Was(j) => i = j)
  BY <1>6
<1>7. p \in 1..k /\ r[p] = k /\ n + 1 = k
  BY <1>1, <1>3 DEF n
<1>8. \A i \in 1..k : r[i] \in 1..k
  BY <1>5, <1>7 DEF n
<1>9. ASSUME NEW x \in 1..k PROVE \E j \in 1..k : r[j] = x
  <2>1. CASE x = k
    BY <1>7, <2>1
  <2>2. CASE x # k
    <3>1. x \in 1..n
      BY <2>2 DEF n
    <3>2. PICK j \in 1..n : order[j] = x
      BY <1>1, <3>1
    <3>3. CASE j < p
      <4>1. j \in 1..(p - 1) /\ j \in 1..k
        BY <3>3, <1>7
      <4> QED
        BY <1>3, <3>2, <4>1
    <3>4. CASE ~(j < p)
      <4>1. j + 1 \in (p + 1)..k /\ j + 1 \in 1..k /\ (j + 1) - 1 = j
        BY <3>2, <3>4, <1>1, <1>7
      <4>2. r[j + 1] = order[j]
        BY <1>3, <4>1
      <4> QED
        BY <3>2, <4>1, <4>2
    <3> QED
      BY <3>3, <3>4
  <2> QED
    BY <2>1, <2>2
<1>10. ASSUME NEW i \in 1..k, NEW j \in 1..k, r[i] = r[j] PROVE i = j
  <2>1. CASE i # p /\ j # p
    <3>1. /\ Was(i) \in 1..n /\ Was(j) \in 1..n
          /\ order[Was(i)] = order[Was(j)] /\ (Was(i) = Was(j) => i = j)
      BY <1>5, <1>6, <1>10, <2>1
    <3> HIDE DEF Was
    <3> QED
      BY <1>1, <3>1
  <2>2. ASSUME NEW q \in 1..k, q # p PROVE r[q] # r[p]
    <3>1. r[q] \in 1..n
      BY <1>5, <2>2
    <3> QED
      BY <1>1, <1>7, <3>1
  <2> QED
    BY <1>10, <2>1, <2>2
<1>11. ASSUME NEW i \in 1..k, NEW j \in 1..k,
              r[i] < r[j], ~ComparesLess(batch, r[j], r[i])
       PROVE  i < j
  <2>1. CASE i # p /\ j # p
    BY <1>1, <1>5, <1>6, <1>11, <2>1
  <2>2. CASE i = p
    <3>1. r[j] <= k /\ r[j] \in Nat
      BY <1>8
    <3> QED
      BY <1>7, <1>11, <2>2, <3>1
  <2>3. CASE i # p /\ j = p
    <3>1. ~ComparesLess(batch, k, order[Was(i)]) /\ Was(i) \in 1..n
      BY <1>5, <1>7, <1>11, <2>3
    <3>2. ~(Was(i) \in p..n)
      BY <1>3, <3>1
    <3> QED
      BY <1>7, <2>3, <3>1, <3>2
  <2> QED
    BY <2>1, <2>2, <2>3
<1>12. ASSUME NEW i \in 1..k, NEW j \in 1..k, IsExecutionCompletion(batch[r[i]]), i < j
       PROVE  IsExecutionCompletion(batch[r[j]])
  <2>1. CASE i # p /\ j # p
    <3>1. Was(i) \in 1..n /\ Was(j) \in 1..n /\ Was(i) < Was(j)
      BY <1>5, <1>6, <1>12, <2>1
    <3>2. r[i] = order[Was(i)] /\ r[j] = order[Was(j)]
      BY <1>5, <2>1
    <3> HIDE DEF Was
    <3> QED
      BY <1>1, <1>12, <3>1, <3>2
  <2>2. CASE i = p
    <3>1. j # p /\ Was(j) \in p..n /\ r[j] = order[Was(j)]
      <4>1. j # p /\ Was(j) = j - 1
        BY <1>7, <1>12, <2>2
      <4> QED
        BY <1>5, <1>7, <1>12, <2>2, <4>1
    <3>2. ComparesLess(batch, k, r[j])
      BY <1>3, <3>1
    <3> QED
      BY <1>7, <1>12, <2>2, <3>2, CompletionsCompare
  <2>3. CASE j = p
    <3>1. i < p /\ p > 1 /\ i \in 1..(p - 1) /\ p - 1 \in 1..n /\ i \in 1..n
      BY <1>1, <1>7, <1>12, <2>3
    <3>2. r[i] = order[i]
      BY <1>3, <3>1
    <3>3. IsExecutionCompletion(batch[order[p - 1]])
      <4>1. i = p - 1 \/ i < p - 1
        BY <1>7, <3>1
      <4>2. IsExecutionCompletion(batch[order[i]])
        BY <1>12, <3>2
      <4> QED
        BY <1>1, <3>1, <4>1, <4>2
    <3>4. ~ComparesLess(batch, k, order[p - 1])
      BY <1>3, <3>1
    <3> QED
      BY <1>7, <2>3, <3>3, <3>4, CompletionsCompare
  <2> QED
    BY <2>1, <2>2, <2>3
<1>13. SortedTo(batch, r, k)
  BY <1>4, <1>8, <1>9, <1>10, <1>11, <1>12 DEF SortedTo
<1> QED
  BY <1>13 DEF r

LEMMA OrderSorts ==
  ASSUME NEW batch, Len(batch) \in Nat
  PROVE  SortedTo(batch, SortedOrder(batch), Len(batch))
<1> DEFINE N == Len(batch)
           f == OrdersOf(batch)
           P == {k \in 0..N : SortedTo(batch, f[k], k)}
<1>1. /\ f[0] = <<>> /\ \A k \in 1..N : f[k] = Inserted(batch, f[k - 1], k)
      /\ SortedOrder(batch) = f[N]
  BY OrdersAre
<1> HIDE DEF f
<1>2. 0 \in P
  <2>1. SortedTo(batch, <<>>, 0)
    BY DEF SortedTo
  <2> QED
    BY <1>1, <2>1
<1>3. ASSUME NEW k \in 1..N, k - 1 \in P PROVE k \in P
  <2>1. SortedTo(batch, f[k - 1], k - 1) /\ k \in Nat \ {0}
    BY <1>3
  <2> QED
    BY <1>1, <2>1, InsertedSorts
<1> HIDE DEF P
<1>4. 0..N \subseteq P
  <2>1. N \in Nat
    OBVIOUS
  <2> QED
    BY <1>2, <1>3, <2>1, InductionTo
<1> QED
  BY <1>1, <1>4 DEF P

\* sort_checkpoint_batch rearranges a batch, and puts an update in front of an earlier one
\* only if it compares Less.
THEOREM BatchesAreSorted ==
  ASSUME NEW n \in Nat, NEW batch \in [1..n -> Request]
  PROVE  IsSorting(batch, SortedOrder(batch))
<1> DEFINE order == SortedOrder(batch)
<1>1. Len(batch) = n /\ DOMAIN batch = 1..n
  OBVIOUS
<1>2. SortedTo(batch, order, n)
  BY <1>1, OrderSorts
<1> HIDE DEF order
<1>3. order \in [1..n -> 1..n]
  <2>1. order \in Seq(Nat) /\ Len(order) = n /\ \A i \in 1..n : order[i] \in 1..n
    BY <1>2 DEF SortedTo
  <2>2. DOMAIN order = 1..n /\ order = [i \in DOMAIN order |-> order[i]]
    BY <2>1
  <2> QED
    BY <2>1, <2>2
<1>4. IsSorting(batch, order)
  BY <1>1, <1>2, <1>3 DEF SortedTo, IsSorting
<1> QED
  BY <1>4 DEF order

\* Rule 2: the completion of the execution is the last update that is sent.
LEMMA CompletionIsLast ==
  ASSUME NEW n \in Nat, NEW batch \in [1..n -> Request]
  PROVE  ExecutionCompletionLast(SortCheckpointBatch(batch))
<1> DEFINE order  == SortedOrder(batch)
           sorted == SortCheckpointBatch(batch)
<1>1. Len(batch) = n
  OBVIOUS
<1>2. SortedTo(batch, order, n)
  BY <1>1, OrderSorts
<1>3. sorted = [k \in 1..n |-> batch[order[k]]]
  BY <1>1 DEF SortCheckpointBatch
<1> HIDE DEF order, sorted
<1>4. ExecutionCompletionLast(sorted)
  BY <1>2, <1>3 DEF SortedTo, ExecutionCompletionLast
<1> QED
  BY <1>4 DEF sorted

\* Two updates are exchanged if the second compares Less.
LEMMA TwoUpdates ==
  ASSUME NEW batch, Len(batch) = 2
  PROVE  LET order == SortedOrder(batch)
         IN  \/ order[1] = 1 /\ order[2] = 2 /\ ~ComparesLess(batch, 2, 1)
             \/ order[1] = 2 /\ order[2] = 1 /\ ComparesLess(batch, 2, 1)
<1> DEFINE f == OrdersOf(batch)
           S == Nat
           one == 1
           two == 2
<1>1. /\ f[0] = <<>> /\ f[1] = Inserted(batch, f[0], one) /\ f[2] = Inserted(batch, f[1], two)
      /\ SortedOrder(batch) = f[2]
  <2>1. Len(batch) \in Nat /\ 1 \in 1..Len(batch) /\ 2 \in 1..Len(batch)
    OBVIOUS
  <2>2. /\ f[0] = <<>> /\ SortedOrder(batch) = f[Len(batch)]
        /\ \A k \in 1..Len(batch) : f[k] = Inserted(batch, f[k - 1], k)
    BY <2>1, OrdersAre
  <2> HIDE DEF f
  <2>3. f[1] = Inserted(batch, f[1 - 1], 1) /\ f[2] = Inserted(batch, f[2 - 1], 2)
    BY <2>1, <2>2
  <2> QED
    BY <2>2, <2>3
<1>2. one \in S /\ two \in S /\ f[0] \in Seq(S) /\ Len(f[0]) = 0
  BY <1>1
<1> HIDE DEF f, S, one, two
<1>3. /\ f[1] \in Seq(S) /\ Len(f[1]) = Len(f[0]) + 1
      /\ \E p \in 1..(Len(f[0]) + 1) : IsInsertedAt(batch, f[0], one, f[1], p)
  BY <1>1, <1>2, InsertedIs
<1>4. /\ Len(f[1]) = 1
      /\ f[1][1] = one
  <2>1. PICK p \in 1..(Len(f[0]) + 1) : IsInsertedAt(batch, f[0], one, f[1], p)
    BY <1>3
  <2>2. p = 1
    BY <1>2
  <2> QED
    BY <1>2, <1>3, <2>1, <2>2 DEF IsInsertedAt
<1>5. \E p \in 1..(Len(f[1]) + 1) : IsInsertedAt(batch, f[1], two, f[2], p)
  BY <1>1, <1>2, <1>3, InsertedIs
<1>6. PICK p \in 1..(Len(f[1]) + 1) : IsInsertedAt(batch, f[1], two, f[2], p)
  BY <1>5
<1>7. p = 1 \/ p = 2
  BY <1>4
<1>8. CASE p = 1
  <2>1. f[2][1] = two /\ f[2][2] = f[1][1] /\ ComparesLess(batch, two, f[1][1])
    <3>1. 2 \in (1 + 1)..(Len(f[1]) + 1) /\ 1 \in 1..Len(f[1]) /\ 2 - 1 = 1
      BY <1>4
    <3> QED
      BY <1>6, <1>8, <3>1 DEF IsInsertedAt
  <2> QED
    BY <1>1, <1>4, <2>1 DEF one, two
<1>9. CASE p = 2
  <2>1. f[2][2] = two /\ f[2][1] = f[1][1] /\ ~ComparesLess(batch, two, f[1][1])
    <3>1. 1 \in 1..(2 - 1) /\ 2 > 1 /\ 2 - 1 = 1
      OBVIOUS
    <3> QED
      BY <1>6, <1>9, <3>1 DEF IsInsertedAt
  <2> QED
    BY <1>1, <1>4, <2>1 DEF one, two
<1> QED
  BY <1>7, <1>8, <1>9

=============================================================================
