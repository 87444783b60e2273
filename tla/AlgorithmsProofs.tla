-------------------------- MODULE AlgorithmsProofs --------------------------
(***************************************************************************)
(* Theorems about the pure algorithms, for inputs of any size.  What a     *)
(* recursive function computes is shown by induction over the naturals, in *)
(* the form that a set of naturals has a least element.                    *)
(***************************************************************************)
EXTENDS Algorithms, CheckpointOrderProofs

-----------------------------------------------------------------------------
(* Recursive functions: each of the models' is what its definition says.   *)

LEMMA PowerExists ==
  ASSUME NEW n \in Nat, NEW N \in Nat
  PROVE  \E g : g = [k \in 0..N |-> IF k = 0 THEN 1 ELSE n * g[k - 1]]
<1> DEFINE P == {m \in 0..N : \E g : g = [k \in 0..m |-> IF k = 0 THEN 1 ELSE n * g[k - 1]]}
<1>1. 0 \in P
  <2> DEFINE h == [k \in 0..0 |-> 1]
  <2>1. h = [k \in 0..0 |-> IF k = 0 THEN 1 ELSE n * h[k - 1]]
    OBVIOUS
  <2> HIDE DEF h
  <2> QED
    BY <2>1
<1>2. ASSUME NEW m \in 1..N, m - 1 \in P PROVE m \in P
  <2>1. PICK g : g = [k \in 0..(m - 1) |-> IF k = 0 THEN 1 ELSE n * g[k - 1]]
    BY <1>2
  <2> DEFINE h == [k \in 0..m |-> IF k = m THEN n * g[m - 1] ELSE g[k]]
  <2>2. ASSUME NEW k \in 0..m PROVE h[k] = IF k = 0 THEN 1 ELSE n * h[k - 1]
    BY <2>1
  <2>3. h = [k \in 0..m |-> IF k = 0 THEN 1 ELSE n * h[k - 1]]
    BY <2>2
  <2> HIDE DEF h
  <2> QED
    BY <2>3
<1> HIDE DEF P
<1>3. 0..N \subseteq P
  BY <1>1, <1>2, InductionTo
<1> QED
  BY <1>3 DEF P

\* A name for the function in the definition of Power.
Powers(n, N) == CHOOSE g : g = [k \in 0..N |-> IF k = 0 THEN 1 ELSE n * g[k - 1]]

LEMMA PowersAre ==
  ASSUME NEW n \in Nat, NEW N \in Nat
  PROVE  /\ Power(n, N) = Powers(n, N)[N]
         /\ Powers(n, N)[0] = 1
         /\ \A k \in 1..N : Powers(n, N)[k] = n * Powers(n, N)[k - 1]
<1>1. Powers(n, N) = [k \in 0..N |-> IF k = 0 THEN 1 ELSE n * Powers(n, N)[k - 1]]
  BY PowerExists DEF Powers
<1>2. Power(n, N) = Powers(n, N)[N]
  BY DEF Power, Powers
<1> HIDE DEF Powers
<1> DEFINE f == Powers(n, N)
<1>3. \A k \in 0..N : f[k] = IF k = 0 THEN 1 ELSE n * f[k - 1]
  BY <1>1
<1> QED
  BY <1>2, <1>3

LEMMA PowerIs ==
  ASSUME NEW n \in Nat, NEW N \in Nat
  PROVE  /\ Power(n, 0) = 1
         /\ Power(n, N + 1) = n * Power(n, N)
         /\ Power(n, N) \in Nat
         /\ n >= 1 => Power(n, N) >= 1
<1> DEFINE f == Powers(n, N)
           g == Powers(n, N + 1)
<1>1. /\ Power(n, N) = f[N] /\ f[0] = 1
      /\ \A k \in 1..N : f[k] = n * f[k - 1]
  BY PowersAre
<1>2. /\ Power(n, N + 1) = g[N + 1] /\ g[0] = 1
      /\ \A k \in 1..(N + 1) : g[k] = n * g[k - 1]
  BY PowersAre
<1>3. Power(n, 0) = 1
  BY PowersAre
<1> HIDE DEF f, g
<1> DEFINE P == {k \in 0..N : f[k] = g[k] /\ f[k] \in Nat /\ (n >= 1 => f[k] >= 1)}
<1>4. 0 \in P
  BY <1>1, <1>2
<1>5. ASSUME NEW k \in 1..N, k - 1 \in P PROVE k \in P
  <2>1. f[k] = n * f[k - 1] /\ g[k] = n * g[k - 1]
    BY <1>1, <1>2
  <2>2. \A a \in Nat : n * a \in Nat /\ (n >= 1 /\ a >= 1 => n * a >= 1)
    OBVIOUS
  <2> QED
    BY <1>5, <2>1, <2>2
<1> HIDE DEF P
<1>6. N \in P
  BY <1>4, <1>5, InductionTo
<1>7. g[N + 1] = n * g[N]
  BY <1>2
<1> QED
  BY <1>1, <1>2, <1>3, <1>6, <1>7 DEF P

-----------------------------------------------------------------------------
(* The delays.                                                             *)

\* A delay of n/d seconds.
IsDelay(x) == \E n \in Nat, d \in Nat \ {0} : x = <<n, d>>

AtMost(x, most) == x[1] <= most * x[2]

NoLonger(x, y) == x[1] * y[2] <= y[1] * x[2]

LEMMA JitteredIs ==
  ASSUME NEW x, IsDelay(x), NEW most \in Nat, AtMost(x, most), NEW q \in 0..4,
         NEW jitter \in {NoJitter, Half, Full}
  PROVE  /\ IsDelay(Jittered(jitter, x, q))
         /\ AtMost(Jittered(jitter, x, q), most)
<1>1. PICK n \in Nat, d \in Nat \ {0} : x = <<n, d>>
  BY DEF IsDelay
<1>2. n <= most * d
  BY <1>1 DEF AtMost
<1>3. CASE jitter = NoJitter
  BY <1>3 DEF Jittered, Full, Half, NoJitter
<1>4. CASE jitter = Full
  <2>1. n * q \in Nat /\ d * 4 \in Nat \ {0} /\ n * q <= n * 4
    OBVIOUS
  <2>2. n * q <= most * (d * 4)
    BY <1>2, <2>1
  <2>3. Jittered(jitter, x, q) = <<n * q, d * 4>>
    BY <1>1, <1>4 DEF Jittered, Full, Half, NoJitter
  <2> QED
    BY <2>1, <2>2, <2>3 DEF IsDelay, AtMost
<1>5. CASE jitter = Half
  <2>1. n * (4 + q) \in Nat /\ d * 8 \in Nat \ {0} /\ n * (4 + q) <= n * 8
    OBVIOUS
  <2>2. n * (4 + q) <= most * (d * 8)
    BY <1>2, <2>1
  <2>3. Jittered(jitter, x, q) = <<n * (4 + q), d * 8>>
    BY <1>1, <1>5 DEF Jittered, Full, Half, NoJitter
  <2> QED
    BY <2>1, <2>2, <2>3 DEF IsDelay, AtMost
<1> QED
  BY <1>3, <1>4, <1>5

LEMMA AtLeastOneIs ==
  ASSUME NEW x, IsDelay(x)
  PROVE  /\ IsDelay(AtLeastOne(x))
         /\ AtLeastOne(x)[1] >= AtLeastOne(x)[2]
         /\ AtLeastOne(x) = <<1, 1>> \/ AtLeastOne(x) = x
<1>1. PICK n \in Nat, d \in Nat \ {0} : x = <<n, d>>
  BY DEF IsDelay
<1>2. CASE n < d
  <2>1. AtLeastOne(x) = <<1, 1>>
    BY <1>1, <1>2 DEF AtLeastOne
  <2> QED
    BY <2>1 DEF IsDelay
<1>3. CASE ~(n < d)
  BY <1>1, <1>3 DEF AtLeastOne, IsDelay
<1> QED
  BY <1>2, <1>3

\* How a delay becomes a number of seconds.
LEMMA SecondsAre ==
  ASSUME NEW x, IsDelay(x), x[1] >= x[2], NEW most \in Nat, AtMost(x, most) \/ x = <<1, 1>>,
         NEW seconds \in {Truncated(x), Rounded(x)}
  PROVE  seconds \in Nat /\ ValidForWait(seconds) /\ (seconds <= most \/ seconds = 1)
<1>1. PICK n \in Nat, d \in Nat \ {0} : x = <<n, d>>
  BY DEF IsDelay
<1>2. n >= d
  BY <1>1
<1>3. CASE x = <<1, 1>>
  BY <1>3 DEF Truncated, Rounded, ValidForWait
<1>4. CASE n <= most * d
  <2>1. n \div d \in Nat /\ n \div d >= 1 /\ n \div d <= most
    BY <1>2, <1>4
  <2>2. 2 * n + d \in Nat /\ 2 * d \in Nat \ {0} /\ 2 * n + d >= 2 * d
    BY <1>2
  <2>3. 2 * n + d < (most + 1) * (2 * d)
    BY <1>4
  <2>4. \A a, b, m \in Nat : b > 0 /\ a >= b /\ a < (m + 1) * b =>
                               a \div b \in Nat /\ a \div b >= 1 /\ a \div b <= m
    OBVIOUS
  <2>5. /\ (2 * n + d) \div (2 * d) \in Nat
        /\ (2 * n + d) \div (2 * d) >= 1 /\ (2 * n + d) \div (2 * d) <= most
    BY <2>2, <2>3, <2>4
  <2> QED
    BY <1>1, <2>1, <2>5 DEF Truncated, Rounded, ValidForWait
<1> QED
  BY <1>1, <1>3, <1>4 DEF AtMost

LEMMA SecondsGrow ==
  ASSUME NEW x, IsDelay(x), NEW y, IsDelay(y), NoLonger(x, y)
  PROVE  /\ Truncated(AtLeastOne(x)) <= Truncated(AtLeastOne(y))
         /\ Rounded(AtLeastOne(x)) <= Rounded(AtLeastOne(y))
<1>1. PICK a \in Nat, b \in Nat \ {0} : x = <<a, b>>
  BY DEF IsDelay
<1>2. PICK c \in Nat, d \in Nat \ {0} : y = <<c, d>>
  BY DEF IsDelay
<1>3. a * d <= c * b
  BY <1>1, <1>2 DEF NoLonger
<1>4. PICK p \in Nat, q \in Nat \ {0} : AtLeastOne(x) = <<p, q>>
  BY AtLeastOneIs DEF IsDelay
<1>5. PICK r \in Nat, s \in Nat \ {0} : AtLeastOne(y) = <<r, s>>
  BY AtLeastOneIs DEF IsDelay
<1>6. p * s <= r * q
  <2>1. CASE a < b
    <3>1. p = 1 /\ q = 1
      BY <1>1, <1>4, <2>1 DEF AtLeastOne
    <3>2. r >= s
      BY <1>5, AtLeastOneIs
    <3> QED
      BY <3>1, <3>2
  <2>2. CASE ~(a < b)
    <3>1. p = a /\ q = b
      BY <1>1, <1>4, <2>2 DEF AtLeastOne
    <3>2. c >= d
      BY <1>3, <2>2
    <3>3. r = c /\ s = d
      BY <1>2, <1>5, <3>2 DEF AtLeastOne
    <3> QED
      BY <1>3, <3>1, <3>3
  <2> QED
    BY <2>1, <2>2
<1>7. \A k, l, m, n \in Nat : l > 0 /\ n > 0 /\ k * n <= m * l => k \div l <= m \div n
  OBVIOUS
<1>8. p \div q <= r \div s
  BY <1>6, <1>7
<1>9. (2 * p + q) * (2 * s) <= (2 * r + s) * (2 * q)
  BY <1>6
<1>10. (2 * p + q) \div (2 * q) <= (2 * r + s) \div (2 * s)
  BY <1>7, <1>9
<1> QED
  BY <1>4, <1>5, <1>8, <1>10 DEF Truncated, Rounded

LEMMA GrownIs ==
  ASSUME NEW base \in Nat, NEW halves \in Nat \ {0, 1}, NEW k \in Nat, NEW most \in Nat
  PROVE  /\ IsDelay(Grown(base, halves, k, most))
         /\ AtMost(Grown(base, halves, k, most), most)
         /\ NoLonger(Grown(base, halves, k, most), Grown(base, halves, k + 1, most))
<1> DEFINE m == Power(halves, k)
           d == Power(2, k)
<1>1. /\ m \in Nat /\ Power(halves, k + 1) = halves * m
      /\ d \in Nat \ {0} /\ Power(2, k + 1) = 2 * d
  <2>1. m \in Nat /\ Power(halves, k + 1) = halves * m
    BY PowerIs
  <2>2. d \in Nat /\ Power(2, k + 1) = 2 * d /\ d >= 1
    BY PowerIs
  <2> QED
    BY <2>1, <2>2
<1> HIDE DEF m, d
<1> DEFINE n == base * m
           x == IF n > most * d THEN <<most, 1>> ELSE <<n, d>>
           o == base * (halves * m)
           y == IF o > most * (2 * d) THEN <<most, 1>> ELSE <<o, 2 * d>>
<1>2. Grown(base, halves, k, most) = x /\ Grown(base, halves, k + 1, most) = y
  BY <1>1 DEF Grown, m, d
<1>3. n \in Nat /\ o = n * halves
  BY <1>1
<1>4. o \in Nat /\ o >= 2 * n
  <2>1. \A i, j \in Nat : j >= 2 => i * j \in Nat /\ i * j >= 2 * i
    OBVIOUS
  <2> QED
    BY <1>3, <2>1
<1> HIDE DEF n, o
<1>5. IsDelay(x) /\ AtMost(x, most)
  BY <1>1, <1>3 DEF IsDelay, AtMost
<1>6. NoLonger(x, y)
  <2>1. CASE o > most * (2 * d)
    <3>1. y = <<most, 1>>
      BY <2>1
    <3>2. PICK p \in Nat, q \in Nat \ {0} : x = <<p, q>>
      BY <1>5 DEF IsDelay
    <3>3. p <= most * q
      BY <1>5, <3>2 DEF AtMost
    <3> QED
      BY <3>1, <3>2, <3>3 DEF NoLonger
  <2>2. CASE ~(o > most * (2 * d))
    <3>1. ~(n > most * d)
      BY <1>1, <1>3, <1>4, <2>2
    <3>2. x = <<n, d>> /\ y = <<o, 2 * d>>
      BY <2>2, <3>1
    <3>3. n * (2 * d) <= o * d
      BY <1>1, <1>3, <1>4
    <3> QED
      BY <3>2, <3>3 DEF NoLonger
  <2> QED
    BY <2>1, <2>2
<1> QED
  BY <1>2, <1>5, <1>6

\* The delay of a retry strategy without its jitter.
Plain(s, k) ==
  CASE s.kind = "exponential" -> ExponentialBackoff(s, k)
    [] s.kind = "fixed"       -> FixedDelay(s, k)
    [] s.kind = "linear"      -> LinearBackoff(s, k)

LEMMA PlainIs ==
  ASSUME NEW s \in RetryStrategies, NEW k \in Nat
  PROVE  /\ IsDelay(Plain(s, k)) /\ AtMost(Plain(s, k), s.most)
         /\ NoLonger(Plain(s, k), Plain(s, k + 1))
<1>1. s.base \in Nat /\ s.most \in Nat /\ s.kind \in {"exponential", "fixed", "linear"}
  BY StrategyAssumption
<1>2. CASE s.kind = "exponential"
  <2>1. s.halves \in Nat \ {0, 1}
    BY <1>2, StrategyAssumption
  <2>2. \A i \in Nat : Plain(s, i) = Grown(s.base, s.halves, i, s.most)
    BY <1>2 DEF Plain, ExponentialBackoff
  <2>3. k + 1 \in Nat
    OBVIOUS
  <2>4. Plain(s, k) = Grown(s.base, s.halves, k, s.most)
    BY <2>2
  <2>5. Plain(s, k + 1) = Grown(s.base, s.halves, k + 1, s.most)
    BY <2>2, <2>3
  <2> QED
    BY <1>1, <2>1, <2>4, <2>5, GrownIs
<1>3. CASE s.kind = "fixed"
  <2>1. s.base <= s.most
    BY <1>3, StrategyAssumption
  <2>2. Plain(s, k) = <<s.base, 1>> /\ Plain(s, k + 1) = <<s.base, 1>>
    BY <1>3 DEF Plain, FixedDelay
  <2> QED
    BY <1>1, <2>1, <2>2 DEF IsDelay, AtMost, NoLonger
<1>4. CASE s.kind = "linear"
  <2> DEFINE g(i) == s.base * (i + 1)
             m(i) == IF g(i) > s.most THEN s.most ELSE g(i)
  <2>1. \A i \in Nat : Plain(s, i) = <<m(i), 1>>
    BY <1>4 DEF Plain, LinearBackoff
  <2>2. g(k) \in Nat /\ g(k + 1) \in Nat /\ g(k) <= g(k + 1)
    BY <1>1
  <2>3. m(k) \in Nat /\ m(k + 1) \in Nat /\ m(k) <= m(k + 1) /\ m(k) <= s.most
    BY <1>1, <2>2
  <2>4. Plain(s, k) = <<m(k), 1>> /\ Plain(s, k + 1) = <<m(k + 1), 1>>
    BY <2>1
  <2> HIDE DEF m
  <2> QED
    BY <1>1, <2>3, <2>4 DEF IsDelay, AtMost, NoLonger
<1> QED
  BY <1>1, <1>2, <1>3, <1>4

LEMMA RetryDelays ==
  ASSUME NEW s \in RetryStrategies, NEW k \in Nat
  PROVE  /\ \A q \in 0..4 :
              /\ NextDelay(s, k, q) = {} <=> k >= s.attempts
              /\ \A d \in NextDelay(s, k, q) : ValidForWait(d) /\ (d <= s.most \/ d = 1)
         /\ s.jitter = NoJitter =>
              \A d \in NextDelay(s, k, 0), e \in NextDelay(s, k + 1, 0) : d <= e
<1>1. /\ s.most \in Nat /\ s.attempts \in Nat /\ s.jitter \in {NoJitter, Half, Full}
  BY StrategyAssumption
<1>2. \A i \in Nat, q \in 0..4 :
        NextDelay(s, i, q) = IF i >= s.attempts THEN {}
                             ELSE {Truncated(AtLeastOne(Jittered(s.jitter, Plain(s, i), q)))}
  BY DEF NextDelay, Plain
<1>3. ASSUME NEW q \in 0..4, NEW d \in NextDelay(s, k, q)
      PROVE  ValidForWait(d) /\ (d <= s.most \/ d = 1)
  <2> DEFINE x == Jittered(s.jitter, Plain(s, k), q)
             c == AtLeastOne(x)
  <2>1. d = Truncated(c)
    BY <1>2, <1>3
  <2>2. IsDelay(x) /\ AtMost(x, s.most)
    BY <1>1, PlainIs, JitteredIs
  <2> HIDE DEF x
  <2>3. IsDelay(c) /\ c[1] >= c[2] /\ (AtMost(c, s.most) \/ c = <<1, 1>>)
    BY <2>2, AtLeastOneIs
  <2> HIDE DEF c
  <2> QED
    BY <1>1, <2>1, <2>3, SecondsAre
<1>4. ASSUME s.jitter = NoJitter, NEW d \in NextDelay(s, k, 0), NEW e \in NextDelay(s, k + 1, 0)
      PROVE  d <= e
  <2>1. \A i \in Nat : Jittered(s.jitter, Plain(s, i), 0) = Plain(s, i)
    BY <1>4 DEF Jittered, NoJitter, Full, Half
  <2>2. d = Truncated(AtLeastOne(Plain(s, k))) /\ e = Truncated(AtLeastOne(Plain(s, k + 1)))
    BY <1>2, <1>4, <2>1
  <2>3. /\ IsDelay(Plain(s, k)) /\ IsDelay(Plain(s, k + 1))
        /\ NoLonger(Plain(s, k), Plain(s, k + 1))
    BY PlainIs
  <2> QED
    BY <2>2, <2>3, SecondsGrow
<1> QED
  BY <1>1, <1>2, <1>3, <1>4

\* How often a wait strategy lets a condition be checked.
Checked(s) == IF s.maxAttempts = {} THEN {60} ELSE s.maxAttempts

LEMMA WaitDelays ==
  ASSUME NEW s \in WaitStrategies, NEW k \in Nat \ {0}
  PROVE  /\ \A q \in 0..4 :
              /\ WaitDecision(s, TRUE, k, q) = {} <=> \E n \in Checked(s) : k >= n
              /\ \A d \in WaitDecision(s, TRUE, k, q) : ValidForWait(d) /\ (d <= s.most \/ d = 1)
         /\ s.jitter = NoJitter =>
              \A d \in WaitDecision(s, TRUE, k, 0), e \in WaitDecision(s, TRUE, k + 1, 0) : d <= e
<1> DEFINE most == IF s.maxAttempts = {} THEN 60 ELSE CHOOSE n \in s.maxAttempts : TRUE
           Grows(i) == Grown(s.base, s.halves, i - 1, s.most)
<1>1. /\ s.base \in Nat /\ s.most \in Nat /\ s.halves \in Nat \ {0, 1}
      /\ s.jitter \in {NoJitter, Half, Full}
      /\ s.maxAttempts \subseteq Nat /\ \A m, n \in s.maxAttempts : m = n
  BY StrategyAssumption
<1>2. Checked(s) = {most} /\ most \in Nat
  BY <1>1 DEF Checked
<1>3. \A i \in Nat \ {0}, q \in 0..4 :
        WaitDecision(s, TRUE, i, q) =
          IF i >= most THEN {} ELSE {Rounded(AtLeastOne(Jittered(s.jitter, Grows(i), q)))}
  BY DEF WaitDecision
<1> HIDE DEF most
<1>4. /\ IsDelay(Grows(k)) /\ AtMost(Grows(k), s.most) /\ IsDelay(Grows(k + 1))
      /\ NoLonger(Grows(k), Grows(k + 1))
  <2> DEFINE j == k - 1
  <2>1. j \in Nat /\ j + 1 \in Nat /\ k + 1 - 1 = j + 1
    OBVIOUS
  <2>2. /\ Grows(k) = Grown(s.base, s.halves, j, s.most)
        /\ Grows(k + 1) = Grown(s.base, s.halves, j + 1, s.most)
    BY <2>1
  <2> HIDE DEF j
  <2> QED
    BY <1>1, <2>1, <2>2, GrownIs
<1> HIDE DEF Grows
<1>5. ASSUME NEW q \in 0..4, NEW d \in WaitDecision(s, TRUE, k, q)
      PROVE  ValidForWait(d) /\ (d <= s.most \/ d = 1)
  <2> DEFINE x == Jittered(s.jitter, Grows(k), q)
             c == AtLeastOne(x)
  <2>1. d = Rounded(c)
    BY <1>3, <1>5
  <2>2. IsDelay(x) /\ AtMost(x, s.most)
    BY <1>1, <1>4, JitteredIs
  <2> HIDE DEF x
  <2>3. IsDelay(c) /\ c[1] >= c[2] /\ (AtMost(c, s.most) \/ c = <<1, 1>>)
    BY <2>2, AtLeastOneIs
  <2> HIDE DEF c
  <2> QED
    BY <1>1, <2>1, <2>3, SecondsAre
<1>6. ASSUME s.jitter = NoJitter,
             NEW d \in WaitDecision(s, TRUE, k, 0), NEW e \in WaitDecision(s, TRUE, k + 1, 0)
      PROVE  d <= e
  <2>1. \A x : Jittered(s.jitter, x, 0) = x
    BY <1>6 DEF Jittered, NoJitter, Full, Half
  <2>2. d = Rounded(AtLeastOne(Grows(k))) /\ e = Rounded(AtLeastOne(Grows(k + 1)))
    <3>1. k + 1 \in Nat \ {0} /\ 0 \in 0..4
      OBVIOUS
    <3>2. /\ d = Rounded(AtLeastOne(Jittered(s.jitter, Grows(k), 0)))
          /\ e = Rounded(AtLeastOne(Jittered(s.jitter, Grows(k + 1), 0)))
      <4> DEFINE Seconds(i) == Rounded(AtLeastOne(Jittered(s.jitter, Grows(i), 0)))
      <4>1. \A i \in Nat \ {0} : WaitDecision(s, TRUE, i, 0) \subseteq {Seconds(i)}
        BY <1>3, <3>1
      <4> HIDE DEF Seconds
      <4>2. d = Seconds(k) /\ e = Seconds(k + 1)
        BY <1>6, <3>1, <4>1
      <4> QED
        BY <4>2 DEF Seconds
    <3> QED
      BY <2>1, <3>2
  <2> QED
    BY <1>4, <2>2, SecondsGrow
<1> QED
  BY <1>2, <1>3, <1>5, <1>6

LEMMA IntervalDelays ==
  ASSUME NEW s \in Intervals, NEW k \in Nat
  PROVE  /\ IntervalDecision(s.base, s.maxAttempts, k) = {} <=> \E n \in s.maxAttempts : k >= n
         /\ \A d \in IntervalDecision(s.base, s.maxAttempts, k) : ValidForWait(d) /\ d <= s.most
         /\ \A d \in IntervalDecision(s.base, s.maxAttempts, k),
               e \in IntervalDecision(s.base, s.maxAttempts, k + 1) : d <= e
<1>1. s.base \in Nat /\ 1 <= s.base /\ s.base <= s.most
  BY StrategyAssumption
<1> QED
  <2>1. \A i : IntervalDecision(s.base, s.maxAttempts, i) =
                IF \E n \in s.maxAttempts : i >= n THEN {} ELSE {s.base}
    BY DEF IntervalDecision
  <2>2. ValidForWait(s.base)
    BY <1>1 DEF ValidForWait
  <2> QED
    BY <1>1, <2>1, <2>2

\* The strategy that is asked, and how often it has been.
RetryInv ==
  about = "retry" =>
    retry \in [strategy : RetryStrategies, wait : {"no"}, attempt : Nat] \cup
              [strategy : WaitStrategies, wait : {"backoff"}, attempt : Nat \ {0}] \cup
              [strategy : Intervals, wait : {"interval"}, attempt : Nat \ {0}]

LEMMA RetryBounds == RetryInv => DelaysAreBounded
<1> SUFFICES ASSUME RetryInv, about = "retry" PROVE DelaysAreBounded
  BY DEF DelaysAreBounded
<1> DEFINE s == retry.strategy
           k == retry.attempt
<1>1. k \in Nat
  BY DEF RetryInv
<1>2. CASE retry.wait = "no" /\ s \in RetryStrategies
  <2>1. /\ \A i, q : Delay(i, q) = NextDelay(s, i, q)
        /\ Limit = {s.attempts}
    BY <1>2 DEF Delay, Limit
  <2> QED
    BY <1>1, <1>2, <2>1, RetryDelays DEF DelaysAreBounded
<1>3. CASE retry.wait = "backoff" /\ s \in WaitStrategies /\ k >= 1
  <2>1. /\ \A i, q : Delay(i, q) = WaitDecision(s, TRUE, i, q)
        /\ Limit = Checked(s)
    BY <1>3 DEF Delay, Limit, Checked
  <2>2. k \in Nat \ {0}
    BY <1>1, <1>3
  <2> QED
    BY <1>3, <2>1, <2>2, WaitDelays DEF DelaysAreBounded
<1>4. CASE retry.wait = "interval" /\ s \in Intervals
  <2>1. /\ \A i, q : Delay(i, q) = IntervalDecision(s.base, s.maxAttempts, i)
        /\ Limit = s.maxAttempts
    BY <1>4 DEF Delay, Limit
  <2> QED
    BY <1>1, <1>4, <2>1, IntervalDelays DEF DelaysAreBounded
<1> QED
  BY <1>2, <1>3, <1>4 DEF RetryInv

-----------------------------------------------------------------------------
(* ItemBatcher.                                                            *)

LEMMA TotalsExist ==
  ASSUME NEW sizes \in Seq(Nat)
  PROVE  \E g : g = [n \in 0..Len(sizes) |-> IF n = 0 THEN 0 ELSE g[n - 1] + sizes[n]]
<1> DEFINE N == Len(sizes)
           P == {m \in 0..N : \E g : g = [n \in 0..m |-> IF n = 0 THEN 0 ELSE g[n - 1] + sizes[n]]}
<1>1. 0 \in P
  <2> DEFINE h == [n \in 0..0 |-> 0]
  <2>1. h = [n \in 0..0 |-> IF n = 0 THEN 0 ELSE h[n - 1] + sizes[n]]
    OBVIOUS
  <2> HIDE DEF h
  <2> QED
    BY <2>1
<1>2. ASSUME NEW m \in 1..N, m - 1 \in P PROVE m \in P
  <2>1. PICK g : g = [n \in 0..(m - 1) |-> IF n = 0 THEN 0 ELSE g[n - 1] + sizes[n]]
    BY <1>2
  <2> DEFINE h == [n \in 0..m |-> IF n = m THEN g[m - 1] + sizes[m] ELSE g[n]]
  <2>2. ASSUME NEW n \in 0..m PROVE h[n] = IF n = 0 THEN 0 ELSE h[n - 1] + sizes[n]
    BY <2>1
  <2>3. h = [n \in 0..m |-> IF n = 0 THEN 0 ELSE h[n - 1] + sizes[n]]
    BY <2>2
  <2> HIDE DEF h
  <2> QED
    BY <2>3
<1> HIDE DEF P
<1>3. 0..N \subseteq P
  <2>1. N \in Nat
    OBVIOUS
  <2> QED
    BY <1>1, <1>2, <2>1, InductionTo
<1> QED
  BY <1>3 DEF P

LEMMA TotalsAre ==
  ASSUME NEW sizes \in Seq(Nat)
  PROVE  /\ Totals(sizes)[0] = 0
         /\ \A n \in 1..Len(sizes) : Totals(sizes)[n] = Totals(sizes)[n - 1] + sizes[n]
         /\ \A n \in 0..Len(sizes) : Totals(sizes)[n] \in Nat
<1> DEFINE f == Totals(sizes)
           N == Len(sizes)
<1>1. f = [n \in 0..N |-> IF n = 0 THEN 0 ELSE f[n - 1] + sizes[n]]
  BY TotalsExist DEF Totals
<1> HIDE DEF f
<1>2. \A n \in 0..N : f[n] = IF n = 0 THEN 0 ELSE f[n - 1] + sizes[n]
  BY <1>1
<1>3. f[0] = 0 /\ \A n \in 1..N : f[n] = f[n - 1] + sizes[n]
  BY <1>2
<1> DEFINE P == {n \in 0..N : f[n] \in Nat}
<1>4. 0 \in P
  BY <1>3
<1>5. ASSUME NEW n \in 1..N, n - 1 \in P PROVE n \in P
  BY <1>3, <1>5
<1> HIDE DEF P
<1>6. 0..N \subseteq P
  <2>1. N \in Nat
    OBVIOUS
  <2> QED
    BY <1>4, <1>5, <2>1, InductionTo
<1> QED
  BY <1>3, <1>6 DEF f, P

LEMMA MadeExists ==
  ASSUME NEW batcher, NEW sizes \in Seq(Nat)
  PROVE  \E g : g = [i \in 0..Len(sizes) |->
                       IF i = 0 THEN NoBatches ELSE AddItem(batcher, g[i - 1], sizes[i], i)]
<1> DEFINE N == Len(sizes)
           P == {m \in 0..N : \E g : g = [i \in 0..m |->
                   IF i = 0 THEN NoBatches ELSE AddItem(batcher, g[i - 1], sizes[i], i)]}
<1>1. 0 \in P
  <2> DEFINE h == [i \in 0..0 |-> NoBatches]
  <2>1. h = [i \in 0..0 |-> IF i = 0 THEN NoBatches ELSE AddItem(batcher, h[i - 1], sizes[i], i)]
    OBVIOUS
  <2> HIDE DEF h
  <2> QED
    BY <2>1
<1>2. ASSUME NEW m \in 1..N, m - 1 \in P PROVE m \in P
  <2>1. PICK g : g = [i \in 0..(m - 1) |->
                        IF i = 0 THEN NoBatches ELSE AddItem(batcher, g[i - 1], sizes[i], i)]
    BY <1>2
  <2> DEFINE h == [i \in 0..m |-> IF i = m THEN AddItem(batcher, g[m - 1], sizes[m], m) ELSE g[i]]
  <2>2. ASSUME NEW i \in 0..m
        PROVE  h[i] = IF i = 0 THEN NoBatches ELSE AddItem(batcher, h[i - 1], sizes[i], i)
    BY <2>1
  <2>3. h = [i \in 0..m |-> IF i = 0 THEN NoBatches ELSE AddItem(batcher, h[i - 1], sizes[i], i)]
    BY <2>2
  <2> HIDE DEF h
  <2> QED
    BY <2>3
<1> HIDE DEF P
<1>3. 0..N \subseteq P
  <2>1. N \in Nat
    OBVIOUS
  <2> QED
    BY <1>1, <1>2, <2>1, InductionTo
<1> QED
  BY <1>3 DEF P

\* The function in the definition of Batches.
MadeOf(batcher, sizes) ==
  CHOOSE g : g = [i \in 0..Len(sizes) |->
                    IF i = 0 THEN NoBatches ELSE AddItem(batcher, g[i - 1], sizes[i], i)]

LEMMA MadeIs ==
  ASSUME NEW batcher, NEW sizes \in Seq(Nat)
  PROVE  /\ MadeOf(batcher, sizes)[0] = NoBatches
         /\ \A i \in 1..Len(sizes) :
              MadeOf(batcher, sizes)[i] =
                AddItem(batcher, MadeOf(batcher, sizes)[i - 1], sizes[i], i)
         /\ Batches(batcher, sizes) =
              LET made == MadeOf(batcher, sizes)[Len(sizes)]
              IN  IF made.current = <<>> THEN made.closed ELSE Close(made)
<1> DEFINE f == MadeOf(batcher, sizes)
<1>1. f = [i \in 0..Len(sizes) |->
             IF i = 0 THEN NoBatches ELSE AddItem(batcher, f[i - 1], sizes[i], i)]
  BY MadeExists DEF MadeOf
<1>2. Batches(batcher, sizes) = IF f[Len(sizes)].current = <<>> THEN f[Len(sizes)].closed
                                ELSE Close(f[Len(sizes)])
  BY DEF Batches, MadeOf
<1> HIDE DEF f
<1>3. \A i \in 0..Len(sizes) :
        f[i] = IF i = 0 THEN NoBatches ELSE AddItem(batcher, f[i - 1], sizes[i], i)
  BY <1>1
<1>4. f[0] = NoBatches /\ \A i \in 1..Len(sizes) : f[i] = AddItem(batcher, f[i - 1], sizes[i], i)
  BY <1>3
<1> QED
  BY <1>2, <1>4 DEF f

Batch == [start : Nat, items : Seq(Nat)]

\* A batch follows the one before it.
Follows(batches, n) ==
  batches[n].start = IF n = 1 THEN 1 ELSE LastOf(batches[n - 1]) + 1

\* What has been made of the first i items.
MadeOK(batcher, sizes, m, i) ==
  /\ m = [closed |-> m.closed, start |-> m.start, current |-> m.current, bytes |-> m.bytes]
  /\ m.closed \in Seq(Batch)
  /\ \A n \in DOMAIN m.closed : /\ Fits(batcher, sizes, m.closed[n])
                                /\ Follows(m.closed, n)
                                /\ IsFull(batcher, sizes, m.closed[n])
  /\ m.start \in 1..(i + 1) /\ (i > 0 => m.start <= i)
  /\ m.start = (IF m.closed = <<>> THEN 1 ELSE LastOf(m.closed[Len(m.closed)]) + 1)
  /\ m.current = SubSeq(sizes, m.start, i)
  /\ m.bytes = Totals(sizes)[i] - Totals(sizes)[m.start - 1]
  /\ i - m.start + 1 <= batcher.items
  /\ m.bytes <= batcher.bytes \/ m.start = i

LEMMA MadeStarts ==
  ASSUME NEW batcher \in Batchers, NEW sizes \in Seq(Nat)
  PROVE  MadeOK(batcher, sizes, NoBatches, 0)
<1>1. SubSeq(sizes, 1, 0) = <<>> /\ <<>> \in Seq(Batch) /\ DOMAIN <<>> = {}
  OBVIOUS
<1>2. batcher.items \in Nat \ {0} /\ batcher.bytes \in Nat
  BY BatcherAssumption
<1> QED
  BY <1>1, <1>2, TotalsAre DEF MadeOK, NoBatches

\* The items since the last batch that is closed.
LEMMA CurrentIs ==
  ASSUME NEW batcher \in Batchers, NEW sizes \in Seq(Nat), NEW i \in 0..Len(sizes), NEW m,
         MadeOK(batcher, sizes, m, i)
  PROVE  /\ m.current \in Seq(Nat) /\ Len(m.current) = i - m.start + 1
         /\ m.start \in Nat \ {0} /\ m.bytes \in Int
<1>1. /\ m.start \in 1..(i + 1) /\ m.current = SubSeq(sizes, m.start, i)
      /\ m.bytes = Totals(sizes)[i] - Totals(sizes)[m.start - 1]
  BY DEF MadeOK
<1>2. m.start - 1 \in 0..Len(sizes)
  BY <1>1
<1>3. m.bytes \in Int
  BY <1>1, <1>2, TotalsAre
<1> DEFINE s == m.start
<1>4. s \in 1..(i + 1) /\ i \in 0..Len(sizes)
  BY <1>1
<1> HIDE DEF s
<1>5. SubSeq(sizes, s, i) \in Seq(Nat) /\ Len(SubSeq(sizes, s, i)) = i - s + 1
  <2>1. CASE s <= i
    <3>1. \A j \in s..i : sizes[j] \in Nat
      BY <1>4
    <3> QED
      BY <1>4, <2>1, <3>1
  <2>2. CASE s = i + 1
    <3>1. SubSeq(sizes, s, i) = <<>>
      BY <1>4, <2>2
    <3> QED
      BY <1>4, <2>2, <3>1
  <2> QED
    BY <1>4, <2>1, <2>2
<1> QED
  BY <1>1, <1>3, <1>5 DEF s

\* The batch that the current items make.
LEMMA CurrentFits ==
  ASSUME NEW batcher \in Batchers, NEW sizes \in Seq(Nat), NEW i \in 1..Len(sizes), NEW m,
         MadeOK(batcher, sizes, m, i)
  PROVE  LET b == [start |-> m.start, items |-> m.current]
         IN  /\ b \in Batch /\ LastOf(b) = i /\ SizeOf(sizes, b) = m.bytes
             /\ Fits(batcher, sizes, b)
<1> DEFINE b == [start |-> m.start, items |-> m.current]
<1>1. /\ m.current \in Seq(Nat) /\ Len(m.current) = i - m.start + 1
      /\ m.start \in Nat \ {0} /\ m.bytes \in Int
  BY CurrentIs
<1>2. /\ m.current = SubSeq(sizes, m.start, i) /\ m.start <= i
      /\ m.bytes = Totals(sizes)[i] - Totals(sizes)[m.start - 1]
      /\ i - m.start + 1 <= batcher.items
      /\ m.bytes <= batcher.bytes \/ m.start = i
  BY DEF MadeOK
<1>3. b \in Batch /\ b.start = m.start /\ b.items = m.current
  BY <1>1 DEF Batch
<1> HIDE DEF b
<1>4. LastOf(b) = i
  <2>1. LastOf(b) = m.start + (i - m.start + 1) - 1
    BY <1>1, <1>3 DEF LastOf
  <2>2. \A x, y \in Int : x + (y - x + 1) - 1 = y
    OBVIOUS
  <2> QED
    BY <1>1, <2>1, <2>2
<1>5. SizeOf(sizes, b) = m.bytes
  BY <1>2, <1>3, <1>4 DEF SizeOf
<1>6. m.current # <<>>
  <2>1. Len(m.current) > 0
    BY <1>1, <1>2
  <2> QED
    BY <2>1
<1>7. Fits(batcher, sizes, b)
  BY <1>1, <1>2, <1>3, <1>4, <1>5, <1>6 DEF Fits
<1> QED
  BY <1>3, <1>4, <1>5, <1>7 DEF b

\* Closing the current batch.
LEMMA ClosedAre ==
  ASSUME NEW batcher \in Batchers, NEW sizes \in Seq(Nat), NEW i \in 1..Len(sizes), NEW m,
         MadeOK(batcher, sizes, m, i), NEW c, c = Close(m)
  PROVE  LET b == [start |-> m.start, items |-> m.current]
         IN  /\ c \in Seq(Batch) /\ Len(c) = Len(m.closed) + 1 /\ c[Len(c)] = b
             /\ \A n \in 1..Len(m.closed) : c[n] = m.closed[n]
             /\ \A n \in DOMAIN c : Fits(batcher, sizes, c[n]) /\ Follows(c, n)
<1> DEFINE b == [start |-> m.start, items |-> m.current]
<1>1. b \in Batch /\ Fits(batcher, sizes, b) /\ m.closed \in Seq(Batch) /\ b.start = m.start
  BY CurrentFits DEF MadeOK
<1>2. c = Append(m.closed, b)
  BY DEF Close
<1>3. /\ m.start = (IF m.closed = <<>> THEN 1 ELSE LastOf(m.closed[Len(m.closed)]) + 1)
      /\ \A n \in DOMAIN m.closed : Fits(batcher, sizes, m.closed[n]) /\ Follows(m.closed, n)
  BY DEF MadeOK
<1> HIDE DEF b
<1>4. /\ c \in Seq(Batch) /\ Len(c) = Len(m.closed) + 1 /\ c[Len(c)] = b
      /\ \A n \in 1..Len(m.closed) : c[n] = m.closed[n]
      /\ Len(m.closed) \in Nat /\ DOMAIN c = 1..Len(c) /\ DOMAIN m.closed = 1..Len(m.closed)
  BY <1>1, <1>2
<1>5. ASSUME NEW n \in 1..Len(m.closed) PROVE Fits(batcher, sizes, c[n]) /\ Follows(c, n)
  <2>1. c[n] = m.closed[n]
    BY <1>4
  <2>2. n # 1 => c[n - 1] = m.closed[n - 1]
    <3>1. n # 1 => n - 1 \in 1..Len(m.closed)
      BY <1>4
    <3> QED
      BY <1>4, <3>1
  <2> QED
    BY <1>3, <1>4, <2>1, <2>2 DEF Follows
<1>6. Fits(batcher, sizes, c[Len(c)]) /\ Follows(c, Len(c))
  <2>1. m.closed = <<>> <=> Len(c) = 1
    BY <1>1, <1>4
  <2>2. Len(c) # 1 => c[Len(c) - 1] = m.closed[Len(m.closed)]
    BY <1>4
  <2> QED
    BY <1>1, <1>3, <1>4, <2>1, <2>2 DEF Follows
<1>7. \A n \in DOMAIN c : Fits(batcher, sizes, c[n]) /\ Follows(c, n)
  BY <1>4, <1>5, <1>6
<1> QED
  BY <1>4, <1>7 DEF b

\* An item that starts a batch of its own.
LEMMA StartsABatch ==
  ASSUME NEW batcher \in Batchers, NEW sizes \in Seq(Nat), NEW i \in 2..Len(sizes), NEW m,
         MadeOK(batcher, sizes, m, i - 1), Exceeds(batcher, m, sizes[i])
  PROVE  MadeOK(batcher, sizes, AddItem(batcher, m, sizes[i], i), i)
<1> DEFINE b == [start |-> m.start, items |-> m.current]
           c == Close(m)
           k == AddItem(batcher, m, sizes[i], i)
<1>1. k = [closed |-> c, start |-> i, current |-> <<sizes[i]>>, bytes |-> sizes[i]]
  BY DEF AddItem
<1>2. i - 1 \in 1..Len(sizes) /\ i - 1 \in 0..Len(sizes) /\ i \in 1..Len(sizes) /\ i \in Nat
  OBVIOUS
<1>3. /\ c \in Seq(Batch) /\ Len(c) = Len(m.closed) + 1 /\ c[Len(c)] = b
      /\ \A n \in 1..Len(m.closed) : c[n] = m.closed[n]
      /\ \A n \in DOMAIN c : Fits(batcher, sizes, c[n]) /\ Follows(c, n)
  BY <1>2, ClosedAre
<1>4. LastOf(b) = i - 1 /\ SizeOf(sizes, b) = m.bytes /\ b.items = m.current /\ b \in Batch
  BY <1>2, CurrentFits
<1>5. /\ m.closed \in Seq(Batch)
      /\ \A n \in DOMAIN m.closed : IsFull(batcher, sizes, m.closed[n])
      /\ i - 1 - m.start + 1 <= batcher.items
  BY DEF MadeOK
<1>6. /\ m.current \in Seq(Nat) /\ Len(m.current) = i - 1 - m.start + 1
      /\ m.start \in Nat \ {0} /\ m.bytes \in Int
  BY <1>2, CurrentIs
<1>7. batcher.items \in Nat \ {0} /\ batcher.bytes \in Nat
  BY BatcherAssumption
<1> HIDE DEF b, c, k
<1>8. IsFull(batcher, sizes, b)
  <2>1. CASE Len(m.current) >= batcher.items
    <3>1. Len(b.items) = batcher.items
      BY <1>4, <1>5, <1>6, <1>7, <2>1
    <3> QED
      BY <3>1 DEF IsFull
  <2>2. CASE m.bytes + sizes[i] > batcher.bytes
    <3>1. LastOf(b) + 1 = i
      BY <1>2, <1>4
    <3> QED
      BY <1>4, <2>2, <3>1 DEF IsFull
  <2> QED
    BY <2>1, <2>2 DEF Exceeds
<1>9. \A n \in DOMAIN c : IsFull(batcher, sizes, c[n])
  <2>1. DOMAIN c = 1..Len(c) /\ DOMAIN m.closed = 1..Len(m.closed) /\ Len(m.closed) \in Nat
    BY <1>3, <1>5
  <2>2. \A n \in DOMAIN c : n \in 1..Len(m.closed) \/ n = Len(c)
    BY <1>3, <2>1
  <2>3. IsFull(batcher, sizes, c[Len(c)])
    BY <1>3, <1>8
  <2>4. ASSUME NEW n \in 1..Len(m.closed) PROVE IsFull(batcher, sizes, c[n])
    BY <1>3, <1>5, <2>1
  <2> QED
    BY <2>2, <2>3, <2>4
<1>10. c # <<>> /\ LastOf(c[Len(c)]) + 1 = i
  <2>1. Len(c) > 0
    BY <1>3, <1>5
  <2> QED
    BY <1>2, <1>3, <1>4, <2>1
<1>11. SubSeq(sizes, i, i) = <<sizes[i]>>
  <2> DEFINE t == SubSeq(sizes, i, i)
  <2>1. t \in Seq(Nat) /\ Len(t) = 1 /\ t[1] = sizes[i]
    BY <1>2
  <2>2. <<sizes[i]>> \in Seq(Nat) /\ Len(<<sizes[i]>>) = 1 /\ <<sizes[i]>>[1] = sizes[i]
    BY <1>2
  <2> HIDE DEF t
  <2>3. t = <<sizes[i]>>
    <3>1. \A j \in 1..1 : j = 1
      OBVIOUS
    <3> QED
      BY <2>1, <2>2, <3>1, SeqEqual
  <2> QED
    BY <2>3 DEF t
<1>12. sizes[i] = Totals(sizes)[i] - Totals(sizes)[i - 1]
  <2>1. Totals(sizes)[i] = Totals(sizes)[i - 1] + sizes[i] /\ Totals(sizes)[i - 1] \in Nat
    BY <1>2, TotalsAre
  <2>2. sizes[i] \in Nat
    BY <1>2
  <2> QED
    BY <2>1, <2>2
<1>13. i - i + 1 <= batcher.items /\ i \in 1..(i + 1)
  BY <1>2, <1>7
<1> QED
  <2>1. /\ k.closed = c /\ k.start = i /\ k.current = <<sizes[i]>> /\ k.bytes = sizes[i]
        /\ k = [closed |-> k.closed, start |-> k.start, current |-> k.current,
                bytes |-> k.bytes]
    BY <1>1
  <2>2. i <= i /\ (sizes[i] <= batcher.bytes \/ i = i)
    BY <1>2
  <2>3. MadeOK(batcher, sizes, k, i)
    BY <1>3, <1>9, <1>10, <1>11, <1>12, <1>13, <2>1, <2>2 DEF MadeOK
  <2> QED
    BY <2>3 DEF k

\* An item that is added to the current batch.
LEMMA JoinsTheBatch ==
  ASSUME NEW batcher \in Batchers, NEW sizes \in Seq(Nat), NEW i \in 1..Len(sizes), NEW m,
         MadeOK(batcher, sizes, m, i - 1), ~Exceeds(batcher, m, sizes[i])
  PROVE  MadeOK(batcher, sizes, AddItem(batcher, m, sizes[i], i), i)
<1> DEFINE k == AddItem(batcher, m, sizes[i], i)
<1>1. k = [m EXCEPT !.current = Append(@, sizes[i]), !.bytes = @ + sizes[i]]
  BY DEF AddItem
<1>2. i - 1 \in 0..Len(sizes) /\ i \in Nat \ {0}
  OBVIOUS
<1>3. /\ m = [closed |-> m.closed, start |-> m.start, current |-> m.current, bytes |-> m.bytes]
      /\ m.start \in 1..i /\ m.current = SubSeq(sizes, m.start, i - 1)
      /\ m.bytes = Totals(sizes)[i - 1] - Totals(sizes)[m.start - 1]
  BY DEF MadeOK
<1>4. /\ m.current \in Seq(Nat) /\ Len(m.current) = i - 1 - m.start + 1
      /\ m.start \in Nat \ {0} /\ m.bytes \in Int
  BY <1>2, CurrentIs
<1>5. batcher.items \in Nat \ {0} /\ batcher.bytes \in Nat
  BY BatcherAssumption
<1> HIDE DEF k
<1>6. /\ k = [closed |-> m.closed, start |-> m.start, current |-> Append(m.current, sizes[i]),
              bytes |-> m.bytes + sizes[i]]
  BY <1>1, <1>3
<1>7. Append(m.current, sizes[i]) = SubSeq(sizes, m.start, i)
  <2> DEFINE s == m.start
  <2>1. s \in 1..i /\ i \in 1..Len(sizes)
    BY <1>3
  <2> HIDE DEF s
  <2>2. Append(SubSeq(sizes, s, i - 1), sizes[i]) = SubSeq(sizes, s, i)
    <3> DEFINE t == SubSeq(sizes, s, i - 1)
               u == SubSeq(sizes, s, i)
    <3>1. /\ t \in Seq(Nat) /\ Len(t) = i - s
          /\ \A j \in 1..(i - s) : t[j] = sizes[s + j - 1]
      <4>1. CASE s <= i - 1
        BY <2>1, <4>1
      <4>2. CASE s = i
        <5>1. t = <<>>
          BY <2>1, <4>2
        <5> QED
          BY <2>1, <4>2, <5>1
      <4> HIDE DEF t
      <4>3. s <= i - 1 \/ s = i
        BY <2>1
      <4> QED
        BY <4>1, <4>2, <4>3
    <3>2. /\ u \in Seq(Nat) /\ Len(u) = i - s + 1
          /\ \A j \in 1..(i - s + 1) : u[j] = sizes[s + j - 1]
      BY <2>1
    <3> HIDE DEF t, u
    <3>3. sizes[i] \in Nat
      BY <2>1
    <3>4. /\ Append(t, sizes[i]) \in Seq(Nat) /\ Len(Append(t, sizes[i])) = i - s + 1
          /\ Append(t, sizes[i])[i - s + 1] = sizes[i]
          /\ \A j \in 1..(i - s) : Append(t, sizes[i])[j] = t[j]
      <4>1. /\ Append(t, sizes[i]) \in Seq(Nat)
            /\ Len(Append(t, sizes[i])) = Len(t) + 1
            /\ Append(t, sizes[i])[Len(t) + 1] = sizes[i]
        BY <3>1, <3>3
      <4>2. \A j \in 1..Len(t) : Append(t, sizes[i])[j] = t[j]
        BY <3>1, <3>3
      <4> QED
        BY <3>1, <4>1, <4>2
    <3>5. \A j \in 1..(i - s + 1) : Append(t, sizes[i])[j] = u[j]
      <4>1. s + (i - s + 1) - 1 = i /\ i - s + 1 \in 1..(i - s + 1)
        BY <2>1
      <4>2. \A j \in 1..(i - s + 1) : j \in 1..(i - s) \/ j = i - s + 1
        BY <2>1
      <4> QED
        BY <3>1, <3>2, <3>4, <4>1, <4>2
    <3>6. Append(t, sizes[i]) = u
      BY <3>2, <3>4, <3>5, SeqEqual
    <3> QED
      BY <3>6 DEF t, u
  <2> QED
    BY <1>3, <2>2 DEF s
<1>8. m.bytes + sizes[i] = Totals(sizes)[i] - Totals(sizes)[m.start - 1]
  <2>1. m.start - 1 \in 0..Len(sizes)
    BY <1>3
  <2>2. Totals(sizes)[i] = Totals(sizes)[i - 1] + sizes[i] /\ Totals(sizes)[i - 1] \in Nat
        /\ Totals(sizes)[m.start - 1] \in Nat
    BY <1>2, <2>1, TotalsAre
  <2>3. sizes[i] \in Nat
    OBVIOUS
  <2> QED
    BY <1>3, <2>2, <2>3
<1>9. i - m.start + 1 <= batcher.items
  <2>1. ~(i - 1 - m.start + 1 >= batcher.items)
    BY <1>4 DEF Exceeds
  <2>2. \A x, y, z \in Int : ~(x - 1 - y + 1 >= z) => x - y + 1 <= z
    OBVIOUS
  <2> QED
    BY <1>2, <1>4, <1>5, <2>1, <2>2
<1>10. m.bytes + sizes[i] <= batcher.bytes \/ m.start = i
  <2>1. m.current = <<>> => m.start = i
    <3>1. m.current = <<>> => Len(m.current) = 0
      OBVIOUS
    <3> QED
      BY <1>2, <1>3, <1>4, <3>1
  <2>2. sizes[i] \in Nat
    OBVIOUS
  <2>3. m.bytes + sizes[i] > batcher.bytes => m.start = i
    BY <2>1 DEF Exceeds
  <2> QED
    BY <1>4, <1>5, <2>2, <2>3
<1>11. m.start \in 1..(i + 1) /\ m.start <= i
  BY <1>2, <1>3
<1> QED
  <2>1. /\ k.closed = m.closed /\ k.start = m.start
        /\ k.current = Append(m.current, sizes[i]) /\ k.bytes = m.bytes + sizes[i]
        /\ k = [closed |-> k.closed, start |-> k.start, current |-> k.current,
                bytes |-> k.bytes]
    BY <1>6
  <2> QED
    BY <1>7, <1>8, <1>9, <1>10, <1>11, <2>1 DEF MadeOK, k

LEMMA MadeAre ==
  ASSUME NEW batcher \in Batchers, NEW sizes \in Seq(Nat)
  PROVE  MadeOK(batcher, sizes, MadeOf(batcher, sizes)[Len(sizes)], Len(sizes))
<1> DEFINE N == Len(sizes)
           made == MadeOf(batcher, sizes)
           P == {i \in 0..N : MadeOK(batcher, sizes, made[i], i)}
<1>1. N \in Nat
  OBVIOUS
<1>2. made[0] = NoBatches /\ \A i \in 1..N : made[i] = AddItem(batcher, made[i - 1], sizes[i], i)
  BY MadeIs
<1> HIDE DEF made
<1>3. 0 \in P
  BY <1>1, <1>2, MadeStarts
<1>4. ASSUME NEW i \in 1..N, i - 1 \in P PROVE i \in P
  <2>1. MadeOK(batcher, sizes, made[i - 1], i - 1)
    BY <1>4
  <2>2. CASE ~Exceeds(batcher, made[i - 1], sizes[i])
    <3>1. MadeOK(batcher, sizes, AddItem(batcher, made[i - 1], sizes[i], i), i)
      BY <2>1, <2>2, JoinsTheBatch
    <3> QED
      BY <1>2, <3>1
  <2>3. CASE Exceeds(batcher, made[i - 1], sizes[i])
    <3>1. i # 1
      <4>1. SUFFICES ASSUME i = 1 PROVE FALSE
        OBVIOUS
      <4>2. made[i - 1] = NoBatches
        BY <1>2, <4>1
      <4>3. Len(<<>>) = 0 /\ batcher.items \in Nat \ {0}
        BY BatcherAssumption
      <4> QED
        BY <2>3, <4>2, <4>3 DEF Exceeds, NoBatches
    <3>2. i \in 2..Len(sizes)
      BY <1>1, <3>1
    <3>3. MadeOK(batcher, sizes, AddItem(batcher, made[i - 1], sizes[i], i), i)
      BY <2>1, <2>3, <3>2, StartsABatch
    <3> QED
      BY <1>2, <3>3
  <2> QED
    BY <2>2, <2>3
<1> HIDE DEF P
<1>5. 0..N \subseteq P
  BY <1>1, <1>3, <1>4, InductionTo
<1> QED
  BY <1>1, <1>5 DEF P, made

\* The items that have been given, and the batcher.
ItemsInv == about = "items" => items \in [batcher : Batchers, sizes : Seq(Nat)]

LEMMA ItemsPartitioned == ItemsInv => BatchesPartitionItems
<1> SUFFICES ASSUME ItemsInv, about = "items" PROVE BatchesPartitionItems
  BY DEF BatchesPartitionItems
<1> DEFINE batcher == items.batcher
           sizes   == items.sizes
           made    == MadeOf(batcher, sizes)[Len(sizes)]
           batches == Batches(batcher, sizes)
<1>1. batcher \in Batchers /\ sizes \in Seq(Nat) /\ Len(sizes) \in Nat
  BY DEF ItemsInv
<1>2. batches = IF made.current = <<>> THEN made.closed ELSE Close(made)
  BY <1>1, MadeIs
<1>3. MadeOK(batcher, sizes, made, Len(sizes))
  BY <1>1, MadeAre
<1>4. CASE sizes = <<>>
  <2>1. Len(sizes) = 0
    BY <1>4
  <2>2. made = NoBatches
    BY <1>1, <2>1, MadeIs
  <2>3. batches = <<>>
    BY <1>2, <2>2 DEF NoBatches
  <2> QED
    BY <1>4, <2>3 DEF BatchesPartitionItems
<1>5. CASE sizes # <<>>
  <2> DEFINE N == Len(sizes)
             b == [start |-> made.start, items |-> made.current]
  <2>1. N \in 1..N /\ N \in Nat
    BY <1>1, <1>5, EmptySeq
  <2>2. made.current # <<>>
    <3>1. Fits(batcher, sizes, b)
      BY <1>1, <1>3, <2>1, CurrentFits
    <3> QED
      BY <3>1 DEF Fits
  <2>3. LastOf(b) = N
    BY <1>1, <1>3, <2>1, CurrentFits
  <2>4. /\ batches \in Seq(Batch) /\ Len(batches) = Len(made.closed) + 1
        /\ batches[Len(batches)] = b
        /\ \A n \in 1..Len(made.closed) : batches[n] = made.closed[n]
        /\ \A n \in DOMAIN batches : Fits(batcher, sizes, batches[n]) /\ Follows(batches, n)
    <3>1. batches = Close(made)
      BY <1>2, <2>2
    <3> HIDE DEF batcher, sizes, made, batches
    <3> QED
      BY <1>1, <1>3, <2>1, <3>1, ClosedAre
  <2>5. /\ made.closed \in Seq(Batch)
        /\ \A n \in DOMAIN made.closed : IsFull(batcher, sizes, made.closed[n])
    BY <1>3 DEF MadeOK
  <2> HIDE DEF batcher, sizes, made, batches, b
  <2>6. DOMAIN batches = 1..Len(batches) /\ Len(made.closed) \in Nat /\ batches # <<>>
        /\ DOMAIN made.closed = 1..Len(made.closed)
    <3>1. Len(batches) # 0
      BY <2>4, <2>5
    <3> QED
      BY <2>4, <2>5, <3>1
  <2>7. ASSUME NEW n \in DOMAIN batches
        PROVE  /\ Fits(batcher, sizes, batches[n])
               /\ batches[n].start = (IF n = 1 THEN 1 ELSE LastOf(batches[n - 1]) + 1)
               /\ IF n = Len(batches) THEN LastOf(batches[n]) = Len(sizes)
                  ELSE IsFull(batcher, sizes, batches[n])
    <3>1. Fits(batcher, sizes, batches[n]) /\ Follows(batches, n)
      BY <2>4
    <3>2. n = Len(batches) => LastOf(batches[n]) = Len(sizes)
      BY <2>3, <2>4
    <3>3. n # Len(batches) => IsFull(batcher, sizes, batches[n])
      <4>1. n # Len(batches) => n \in 1..Len(made.closed)
        BY <2>4, <2>6, <2>7
      <4> QED
        BY <2>4, <2>5, <2>6, <4>1
    <3> QED
      BY <3>1, <3>2, <3>3 DEF Follows
  <2> QED
    BY <1>5, <2>6, <2>7 DEF BatchesPartitionItems, batcher, sizes, batches
<1> QED
  BY <1>4, <1>5

-----------------------------------------------------------------------------
(* Errors.                                                                 *)

LEMMA ReplayKeepsTheObject ==
  ASSUME NEW e
  PROVE  ErrorObject(ReplayedError(ErrorObject(e))) = ErrorObject(e)
<1> DEFINE o == ErrorObject(e)
<1>1. o = [type |-> o.type, message |-> o.message, trace |-> o.trace]
  BY DEF ErrorObject
<1> HIDE DEF o
<1>2. ErrorObject(ReplayedError(o)) = [type |-> o.type, message |-> o.message, trace |-> o.trace]
  BY DEF ErrorObject, ReplayedError, UserCode, IsSuspend
<1> QED
  BY <1>1, <1>2 DEF o

\* What may be recorded of an error like these, or has been.
Objects(stored, errors) == stored \cup {ErrorObject(e) : e \in errors}

Operations == Kinds \cup {"step", "condition"}

KindsOf(n) == {n.kinds[i] : i \in DOMAIN n.kinds}

NestInv ==
  about = "errors" =>
    /\ nest.kinds \in Seq(Operations)
    /\ KindsOf(nest) \cap {"condition", "all"} = {} =>
         /\ nest.errors # {}
         /\ \A o, p \in Objects(nest.stored, nest.errors) : o.type = p.type
         /\ "any" \notin KindsOf(nest) =>
              \A o, p \in Objects(nest.stored, nest.errors) : o = p

LEMMA NestIsStable == NestInv => StoredErrorIsStable
<1> SUFFICES ASSUME NestInv, about = "errors", KindsOf(nest) \cap {"condition", "all"} = {}
             PROVE  StoredErrorIsStable
  BY DEF StoredErrorIsStable, KindsOf
<1> DEFINE outputs == Objects(nest.stored, nest.errors)
<1>1. PICK o \in outputs : TRUE
  BY DEF NestInv, Objects
<1>2. /\ \A p \in outputs : p.type = o.type
      /\ "any" \notin KindsOf(nest) => \A p \in outputs : p = o
  BY <1>1 DEF NestInv
<1> HIDE DEF outputs
<1>3. {p.type : p \in outputs} = {o.type}
  BY <1>1, <1>2
<1>4. "any" \notin KindsOf(nest) => outputs = {o}
  BY <1>1, <1>2
<1>5. Cardinality({p.type : p \in outputs}) = 1
  BY <1>3, FS_Singleton
<1>6. "any" \notin KindsOf(nest) => Cardinality(outputs) = 1
  BY <1>4, FS_Singleton
<1>7. outputs = nest.stored \cup {ErrorObject(e) : e \in nest.errors}
  BY DEF outputs, Objects
<1> QED
  BY <1>5, <1>6, <1>7 DEF StoredErrorIsStable, KindsOf

LEMMA NestStarts == Init => NestInv
<1> SUFFICES ASSUME Init, about = "errors" PROVE NestInv
  BY DEF NestInv
<1>1. nest \in {[kinds |-> <<>>, stored |-> {}, errors |-> {e}] : e \in Origins} \cup
               {[kinds |-> <<f[1]>>, stored |-> {f[2].stored},
                 errors |-> {f[2].returned, ReplayedError(f[2].stored)}] :
                   f \in {<<"step", StepFails(Text)>>,
                          <<"condition", ConditionFails(UserCode("Own", Text, <<>>))>>}}
  BY DEF Init
<1>2. CASE \E e \in Origins : nest = [kinds |-> <<>>, stored |-> {}, errors |-> {e}]
  <2>1. PICK e \in Origins : nest = [kinds |-> <<>>, stored |-> {}, errors |-> {e}]
    BY <1>2
  <2>2. Objects(nest.stored, nest.errors) = {ErrorObject(e)} /\ nest.errors # {}
    BY <2>1 DEF Objects
  <2>3. nest.kinds \in Seq(Operations)
    BY <2>1
  <2> QED
    BY <2>2, <2>3 DEF NestInv
<1>3. CASE nest = [kinds |-> <<"step">>, stored |-> {StepFails(Text).stored},
                   errors |-> {StepFails(Text).returned, ReplayedError(StepFails(Text).stored)}]
  <2> DEFINE o == StepFails(Text).stored
  <2>1. ErrorObject(StepFails(Text).returned) = o /\ ErrorObject(ReplayedError(o)) = o
    BY DEF StepFails, ErrorObject, ReplayedError, UserCode, IsSuspend
  <2> HIDE DEF o
  <2>2. Objects(nest.stored, nest.errors) = {o} /\ nest.errors # {}
    <3>1. nest.stored = {o} /\ nest.errors = {StepFails(Text).returned, ReplayedError(o)}
      BY <1>3 DEF o
    <3> QED
      BY <2>1, <3>1 DEF Objects
  <2>3. nest.kinds \in Seq(Operations)
    <3>1. nest.kinds = <<"step">> /\ "step" \in Operations
      BY <1>3 DEF Operations
    <3>2. \A k \in Operations : <<k>> \in Seq(Operations)
      OBVIOUS
    <3> QED
      BY <3>1, <3>2
  <2> QED
    BY <2>2, <2>3 DEF NestInv
<1>4. CASE nest.kinds = <<"condition">>
  <2>1. "condition" \in KindsOf(nest) /\ nest.kinds \in Seq(Operations)
    <3>1. \A k \in Operations : <<k>> \in Seq(Operations) /\ 1 \in DOMAIN <<k>> /\ <<k>>[1] = k
      OBVIOUS
    <3>2. 1 \in DOMAIN nest.kinds /\ nest.kinds[1] = "condition" /\ nest.kinds \in Seq(Operations)
      BY <1>4, <3>1 DEF Operations
    <3> QED
      BY <3>2 DEF KindsOf
  <2> QED
    BY <2>1 DEF NestInv
<1> QED
  BY <1>1, <1>2, <1>3, <1>4

LEMMA NestGrows ==
  ASSUME NestInv, NEW kind \in Kinds, Nest(kind)
  PROVE  NestInv'
<1> DEFINE Fails(e) == CASE kind = "child" -> ChildFails(e)
                         [] kind = "race"  -> RaceFails(e)
                         [] kind = "any"   -> AnyFails(e)
                         [] kind = "all"   -> AllFails(e)
           ends   == {Fails(e) : e \in nest.errors}
           stored == {end.stored : end \in ends}
           errors == {end.returned : end \in ends} \cup
                     {ReplayedError(end.stored) : end \in ends}
<1>1. /\ about = "errors" /\ about' = "errors"
      /\ nest' = [kinds |-> Append(nest.kinds, kind), stored |-> stored, errors |-> errors]
  BY DEF Nest
<1>2. nest.kinds \in Seq(Operations) /\ kind \in Operations
  <2>1. nest.kinds \in Seq(Operations)
    BY <1>1 DEF NestInv
  <2>2. kind \in Operations
    BY DEF Operations
  <2> QED
    BY <2>1, <2>2
<1>3. /\ nest'.kinds = Append(nest.kinds, kind) /\ nest'.stored = stored
      /\ nest'.errors = errors
  BY <1>1
<1>4. KindsOf(nest)' = KindsOf(nest) \cup {kind}
  <2> DEFINE k == nest.kinds
  <2>1. /\ DOMAIN Append(k, kind) = DOMAIN k \cup {Len(k) + 1}
        /\ \A i \in DOMAIN k : Append(k, kind)[i] = k[i]
        /\ Append(k, kind)[Len(k) + 1] = kind
    BY <1>2
  <2> QED
    BY <1>3, <2>1 DEF KindsOf
<1>5. nest'.kinds \in Seq(Operations)
  BY <1>2, <1>3
<1>6. CASE kind = "all"
  BY <1>1, <1>4, <1>5, <1>6 DEF NestInv
<1>7. CASE kind \in {"child", "race"}
  <2>1. \A e : Fails(e) = [stored |-> ErrorObject(e), returned |-> e]
    BY <1>7 DEF ChildFails, RaceFails
  <2>2. /\ stored = {ErrorObject(e) : e \in nest.errors}
        /\ errors = nest.errors \cup {ReplayedError(ErrorObject(e)) : e \in nest.errors}
    <3> HIDE DEF Fails
    <3> QED
      BY <2>1
  <2> HIDE DEF stored, errors
  <2>3. Objects(stored, errors) = {ErrorObject(e) : e \in nest.errors}
    BY <2>2, ReplayKeepsTheObject DEF Objects
  <2>4. Objects(stored, errors) \subseteq Objects(nest.stored, nest.errors)
    BY <2>3 DEF Objects
  <2>5. nest.errors # {} => errors # {}
    BY <2>2
  <2> QED
    BY <1>1, <1>3, <1>4, <1>5, <2>4, <2>5 DEF NestInv
<1>8. CASE kind = "any"
  <2>1. \A e : /\ Fails(e).stored = ErrorObject(Fails(e).returned)
               /\ Fails(e).stored.type = "AnyCombinatorError"
    BY <1>8 DEF AnyFails, ErrorObject, UserCode, IsSuspend
  <2>2. "any" \in KindsOf(nest)'
    BY <1>4, <1>8
  <2>3. \A o \in Objects(stored, errors) : o.type = "AnyCombinatorError"
    <3>1. ASSUME NEW o \in Objects(stored, errors)
          PROVE  \E e \in nest.errors : o = Fails(e).stored
      <4>1. ASSUME NEW e PROVE ErrorObject(ReplayedError(Fails(e).stored)) = Fails(e).stored
        BY <2>1, ReplayKeepsTheObject
      <4> HIDE DEF Fails
      <4>2. o \in stored \/ \E r \in errors : o = ErrorObject(r)
        BY DEF Objects
      <4>3. o \in stored => \E e \in nest.errors : o = Fails(e).stored
        OBVIOUS
      <4>4. ASSUME NEW r \in errors
            PROVE  \E e \in nest.errors : ErrorObject(r) = Fails(e).stored
        BY <2>1, <4>1
      <4> QED
        BY <4>2, <4>3, <4>4
    <3> QED
      BY <2>1, <3>1
  <2>4. nest.errors # {} => errors # {}
    OBVIOUS
  <2> HIDE DEF stored, errors
  <2>5. KindsOf(nest)' \cap {"condition", "all"} = {} => nest.errors # {}
    BY <1>1, <1>4 DEF NestInv
  <2>6. \A o, p \in Objects(stored, errors) : o.type = p.type
    BY <2>3
  <2> QED
    BY <1>3, <1>5, <2>2, <2>4, <2>5, <2>6 DEF NestInv
<1> QED
  BY <1>6, <1>7, <1>8 DEF Kinds

-----------------------------------------------------------------------------
(* The order of a batch.                                                   *)

LEMMA UpdatesAre ==
  ASSUME NEW r \in Request
  PROVE  /\ Update[r].id \in OpId
         /\ Update[r].parent \in Above[Update[r].id] \cup {NoParent}
BY AboveAssumption, UpdateAssumption DEF OperationUpdate

LEMMA ParentsAreAbove ==
  ASSUME NEW b \in Seq(Request), NEW id \in DOMAIN ParentMap(b)
  PROVE  id \in OpId /\ ParentMap(b)[id] \in Above[id] \cup {NoParent}
<1> DEFINE same == {k \in DOMAIN b : Update[b[k]].id = id}
           last == Max(same)
<1>1. DOMAIN ParentMap(b) = {Update[r].id : r \in ToSet(b)}
  BY DEF ParentMap
<1>2. PICK k \in DOMAIN b : Update[b[k]].id = id
  BY <1>1 DEF ToSet
<1>3. last \in same
  <2>1. same \subseteq 0..Len(b) /\ same # {} /\ Len(b) \in Nat
    BY <1>2
  <2> HIDE DEF same
  <2> QED
    BY <2>1, LargestOf
<1>4. ParentMap(b)[id] = Update[b[last]].parent
  BY <1>1 DEF ParentMap
<1> HIDE DEF last
<1>5. b[last] \in Request /\ Update[b[last]].id = id
  BY <1>3
<1> QED
  BY <1>4, <1>5, UpdatesAre

\* The walk in the definition of IsAncestor.
IsWalk(g, parents, id, bound) ==
  g = [n \in 0..bound |-> IF n = 0 THEN id
                          ELSE IF g[n - 1] \in DOMAIN parents THEN parents[g[n - 1]]
                          ELSE NoParent]

LEMMA WalkExists ==
  ASSUME NEW parents, NEW id, NEW N \in Nat
  PROVE  \E g : IsWalk(g, parents, id, N)
<1> DEFINE P == {m \in 0..N : \E g :
                   g = [n \in 0..m |-> IF n = 0 THEN id
                                       ELSE IF g[n - 1] \in DOMAIN parents THEN parents[g[n - 1]]
                                       ELSE NoParent]}
<1>1. 0 \in P
  <2> DEFINE h == [n \in 0..0 |-> id]
  <2>1. h = [n \in 0..0 |-> IF n = 0 THEN id
                            ELSE IF h[n - 1] \in DOMAIN parents THEN parents[h[n - 1]]
                            ELSE NoParent]
    OBVIOUS
  <2> HIDE DEF h
  <2> QED
    BY <2>1
<1>2. ASSUME NEW m \in 1..N, m - 1 \in P PROVE m \in P
  <2>1. PICK g : g = [n \in 0..(m - 1) |->
                        IF n = 0 THEN id
                        ELSE IF g[n - 1] \in DOMAIN parents THEN parents[g[n - 1]]
                        ELSE NoParent]
    BY <1>2
  <2> DEFINE h == [n \in 0..m |->
                     IF n # m THEN g[n]
                     ELSE IF g[m - 1] \in DOMAIN parents THEN parents[g[m - 1]] ELSE NoParent]
  <2>2. ASSUME NEW n \in 0..m
        PROVE  h[n] = IF n = 0 THEN id
                      ELSE IF h[n - 1] \in DOMAIN parents THEN parents[h[n - 1]]
                      ELSE NoParent
    BY <2>1
  <2>3. h = [n \in 0..m |-> IF n = 0 THEN id
                            ELSE IF h[n - 1] \in DOMAIN parents THEN parents[h[n - 1]]
                            ELSE NoParent]
    BY <2>2
  <2> HIDE DEF h
  <2> QED
    BY <2>3
<1> HIDE DEF P
<1>3. 0..N \subseteq P
  BY <1>1, <1>2, InductionTo
<1> QED
  BY <1>3 DEF P, IsWalk

WalkOf(parents, id, bound) == CHOOSE g : IsWalk(g, parents, id, bound)

\* An ancestor by the parents in the batch is one.
LEMMA AncestorsAreAbove ==
  ASSUME NEW b \in Seq(Request), NEW r \in Request, NEW a \in OpId,
         IsAncestor(ParentMap(b), Update[r].id, a)
  PROVE  a \in Above[Update[r].id]
<1> DEFINE parents == ParentMap(b)
           id      == Update[r].id
           N       == Cardinality(DOMAIN parents)
           f       == WalkOf(parents, id, N)
<1>1. N \in Nat
  <2>1. DOMAIN parents = {Update[s].id : s \in ToSet(b)}
    BY DEF ParentMap
  <2>2. DOMAIN parents = {Update[b[k]].id : k \in 1..Len(b)}
    BY <2>1 DEF ToSet
  <2>3. IsFiniteSet(1..Len(b))
    <3>1. Len(b) \in Nat
      OBVIOUS
    <3> QED
      BY <3>1, FS_Interval
  <2> HIDE DEF parents
  <2>4. IsFiniteSet({Update[b[k]].id : k \in 1..Len(b)})
    <3> DEFINE g == [k \in 1..Len(b) |-> Update[b[k]].id]
    <3>1. {Update[b[k]].id : k \in 1..Len(b)} = {g[k] : k \in 1..Len(b)}
      OBVIOUS
    <3> HIDE DEF g
    <3>2. g \in Surjection(1..Len(b), {g[k] : k \in 1..Len(b)})
      BY DEF g, Surjection
    <3>3. IsFiniteSet({g[k] : k \in 1..Len(b)})
      BY <2>3, <3>2, FS_Surjection
    <3> QED
      BY <3>1, <3>3
  <2> QED
    BY <2>2, <2>4, FS_CardinalityType
<1>2. \E n \in 1..N : f[n] = a
  BY DEF IsAncestor, WalkOf, IsWalk
<1> HIDE DEF N
<1>3. f = [n \in 0..N |-> IF n = 0 THEN id
                          ELSE IF f[n - 1] \in DOMAIN parents THEN parents[f[n - 1]]
                          ELSE NoParent]
  <2> HIDE DEF parents, id
  <2>1. \E g : IsWalk(g, parents, id, N)
    BY <1>1, WalkExists
  <2>2. IsWalk(f, parents, id, N)
    BY <2>1 DEF WalkOf
  <2> HIDE DEF f
  <2> QED
    BY <2>2 DEF IsWalk
<1> HIDE DEF f
<1>4. /\ f[0] = id
      /\ \A n \in 1..N : f[n] = IF f[n - 1] \in DOMAIN parents THEN parents[f[n - 1]]
                                ELSE NoParent
  <2>1. \A n \in 0..N : f[n] = IF n = 0 THEN id
                               ELSE IF f[n - 1] \in DOMAIN parents THEN parents[f[n - 1]]
                               ELSE NoParent
    BY <1>3
  <2> QED
    BY <1>1, <2>1
<1>5. id \in OpId
  BY UpdatesAre
<1> DEFINE P == {n \in 0..N : n = 0 \/ f[n] \in Above[id] \cup {NoParent}}
<1>6. 0 \in P
  BY <1>1
<1>7. ASSUME NEW n \in 1..N, n - 1 \in P PROVE n \in P
  <2>1. f[n] = IF f[n - 1] \in DOMAIN parents THEN parents[f[n - 1]] ELSE NoParent
    BY <1>4
  <2>2. CASE f[n - 1] \notin DOMAIN parents
    BY <2>1, <2>2
  <2>3. CASE f[n - 1] \in DOMAIN parents
    <3> DEFINE w == f[n - 1]
    <3>1. w = id \/ w \in Above[id] \cup {NoParent}
      BY <1>4, <1>7
    <3>2. w \in OpId /\ parents[w] \in Above[w] \cup {NoParent}
      BY <2>3, ParentsAreAbove
    <3>3. w # NoParent
      BY <3>2, AboveAssumption
    <3>4. Above[w] \subseteq Above[id]
      BY <1>5, <3>1, <3>3, AboveAssumption
    <3> QED
      BY <2>1, <2>3, <3>2, <3>4
  <2> QED
    BY <2>2, <2>3
<1> HIDE DEF P
<1>8. 0..N \subseteq P
  BY <1>1, <1>6, <1>7, InductionTo
<1>9. PICK n \in 1..N : f[n] = a
  BY <1>2
<1>10. n \in P /\ n # 0
  BY <1>8, <1>9
<1>11. a # NoParent
  BY AboveAssumption
<1> QED
  BY <1>9, <1>10, <1>11 DEF P

\* What the sort puts behind a START lies in what is started.
LEMMA BelowIsInside ==
  ASSUME NEW b \in Seq(Request), NEW r \in Request, NEW s \in Request,
         StartedBelow(b, r, s)
  PROVE  Update[s].id \in Above[Update[r].id] /\ IsStart(s)
<1>1. Update[s].id \in OpId /\ Update[r].parent \in Above[Update[r].id] \cup {NoParent}
  BY UpdatesAre
<1>2. /\ IsStart(s) /\ Update[r].parent # NoParent
      /\ \/ Update[r].parent = Update[s].id
         \/ IsAncestor(ParentMap(b), Update[r].id, Update[s].id)
  BY DEF StartedBelow
<1> QED
  BY <1>1, <1>2, AncestorsAreAbove

LEMMA ProgramOrderKept ==
  ASSUME NEW n \in Nat, batch \in Seq(Request), Len(batch) = n, InProgramOrder
  PROVE  LET order  == SortedOrder(batch)
             sorted == SortCheckpointBatch(batch)
         IN  \A k, m \in DOMAIN batch :
               k < m /\ IsExecutionCompletion(sorted[k]) = IsExecutionCompletion(sorted[m]) =>
                 order[k] < order[m]
<1> DEFINE order  == SortedOrder(batch)
           sorted == SortCheckpointBatch(batch)
<1>1. SortedTo(batch, order, n)
  BY OrderSorts
<1>2. sorted = [k \in 1..n |-> batch[order[k]]]
  BY DEF SortCheckpointBatch
<1>3. DOMAIN batch = 1..n /\ \A i \in 1..n : batch[i] \in Request
  OBVIOUS
<1>4. ASSUME NEW i \in 1..n, NEW j \in 1..n, i < j,
             IsExecutionCompletion(batch[i]) = IsExecutionCompletion(batch[j])
      PROVE  ~ComparesLess(batch, j, i)
  <2>1. batch[i] \in Request /\ batch[j] \in Request
    BY <1>3
  <2>2. IsStart(batch[j]) => /\ Update[batch[i]].id # Update[batch[j]].id
                             /\ Update[batch[j]].id \notin Above[Update[batch[i]].id]
    BY <1>3, <1>4 DEF InProgramOrder
  <2>3. ~StartedBelow(batch, batch[i], batch[j])
    BY <2>1, <2>2, BelowIsInside
  <2>4. IsExecutionCompletion(batch[i]) \in BOOLEAN /\ ~(j < i)
    BY <1>4 DEF IsExecutionCompletion
  <2> QED
    BY <1>4, <2>2, <2>3, <2>4 DEF ComparesLess
<1> HIDE DEF order, sorted
<1>5. ASSUME NEW k \in 1..n, NEW m \in 1..n, k < m,
             IsExecutionCompletion(sorted[k]) = IsExecutionCompletion(sorted[m])
      PROVE  order[k] < order[m]
  <2>1. /\ order[k] \in 1..n /\ order[m] \in 1..n /\ order[k] # order[m]
        /\ order[m] < order[k] /\ ~ComparesLess(batch, order[k], order[m]) => m < k
    BY <1>1, <1>5 DEF SortedTo
  <2>2. sorted[k] = batch[order[k]] /\ sorted[m] = batch[order[m]]
    BY <1>2
  <2>3. CASE order[m] < order[k]
    <3>1. ~ComparesLess(batch, order[k], order[m])
      BY <1>4, <1>5, <2>1, <2>2, <2>3
    <3> QED
      BY <1>5, <2>1, <2>3, <3>1
  <2> QED
    BY <2>1, <2>3
<1> QED
  BY <1>3, <1>5 DEF order, sorted

\* Two updates alone: the START of a context goes before what is in it, and that of an
\* operation before its completion.
LEMMA PairIsSorted ==
  ASSUME batch \in Seq(Request), Len(batch) = 2
  PROVE  LET sorted == SortCheckpointBatch(batch)
         IN  ParentStartFirst(sorted) /\ StartBeforeCompletion(sorted)
<1> DEFINE order  == SortedOrder(batch)
           sorted == SortCheckpointBatch(batch)
<1>1. \/ order[1] = 1 /\ order[2] = 2 /\ ~ComparesLess(batch, 2, 1)
      \/ order[1] = 2 /\ order[2] = 1 /\ ComparesLess(batch, 2, 1)
  BY TwoUpdates
<1>2. sorted = [k \in 1..2 |-> batch[order[k]]]
  BY DEF SortCheckpointBatch
<1>3. batch[1] \in Request /\ batch[2] \in Request
  OBVIOUS
<1>4. batch \in [1..2 -> Request]
  OBVIOUS
<1>5. ExecutionCompletionLast(sorted)
  <2>1. 2 \in Nat
    OBVIOUS
  <2> QED
    BY <1>4, <2>1, CompletionIsLast
<1> HIDE DEF order, sorted
<1> DEFINE a == sorted[1]
           s == sorted[2]
<1>6. /\ DOMAIN sorted = 1..2 /\ a \in Request /\ s \in Request
      /\ \/ a = batch[1] /\ s = batch[2] /\ ~ComparesLess(batch, 2, 1)
         \/ a = batch[2] /\ s = batch[1] /\ ComparesLess(batch, 2, 1)
  BY <1>1, <1>2, <1>3
<1>7. IsStart(s) => ~IsExecutionCompletion(a) /\ ~IsExecutionCompletion(s)
  <2>1. IsStart(s) => ~IsExecutionCompletion(s)
    BY DEF IsStart, IsExecutionCompletion
  <2>2. IsExecutionCompletion(a) => IsExecutionCompletion(s)
    BY <1>5, <1>6 DEF ExecutionCompletionLast
  <2> QED
    BY <2>1, <2>2
<1> HIDE DEF a, s
\* s stands behind a although it is to be sent first.
<1>8. ASSUME IsStart(s), ~StartedBelow(batch, s, a),
             \/ StartedBelow(batch, a, s)
             \/ Update[a].id = Update[s].id /\ ~IsStart(a)
      PROVE  FALSE
  <2>1. ~IsExecutionCompletion(a) /\ ~IsExecutionCompletion(s)
    BY <1>7, <1>8
  <2>2. CASE a = batch[1] /\ s = batch[2]
    <3>1. ~ComparesLess(batch, 2, 1)
      BY <1>6, <1>8, <2>2
    <3>2. IsExecutionCompletion(s) = IsExecutionCompletion(a)
      BY <2>1 DEF IsExecutionCompletion
    <3>3. Update[a].id = Update[s].id /\ ~IsStart(a) =>
            Update[batch[2]].id = Update[batch[1]].id /\ ~IsStart(batch[1])
      BY <2>2
    <3>4. \/ StartedBelow(batch, batch[1], batch[2])
          \/ Update[batch[2]].id = Update[batch[1]].id /\ ~IsStart(batch[1])
      BY <1>8, <2>2, <3>3
    <3>5. /\ IsStart(batch[2]) /\ ~StartedBelow(batch, batch[2], batch[1])
          /\ IsExecutionCompletion(batch[2]) = IsExecutionCompletion(batch[1])
      BY <1>8, <2>2, <3>2
    <3>6. ComparesLess(batch, 2, 1)
      BY <3>4, <3>5 DEF ComparesLess
    <3> QED
      BY <3>1, <3>6
  <2>3. CASE a = batch[2] /\ s = batch[1]
    <3>1. ComparesLess(batch, 2, 1)
      BY <1>6, <1>8, <2>3
    <3>2. IsStart(s) # IsStart(a) \/ StartedBelow(batch, a, s)
      BY <1>8 DEF IsStart
    <3> QED
      BY <1>8, <2>1, <2>3, <3>1, <3>2 DEF ComparesLess
  <2> QED
    BY <1>6, <2>2, <2>3
<1>9. a \in ToSet(batch) /\ s \in ToSet(batch)
  BY <1>4, <1>6 DEF ToSet
<1>10. ASSUME Update[s].type = "CONTEXT", IsStart(s), Update[a].parent = Update[s].id
       PROVE  FALSE
  <2>1. Update[s].id \in OpId /\ Update[s].id \in Above[Update[a].id]
    <3>1. Update[s].id \in OpId /\ Update[a].parent \in Above[Update[a].id] \cup {NoParent}
      BY <1>6, UpdatesAre
    <3> QED
      BY <1>10, <3>1, AboveAssumption
  <2>2. StartedBelow(batch, a, s)
    <3>1. Update[s].id \in ContextStarts(batch)
      BY <1>9, <1>10 DEF ContextStarts
    <3>2. Update[a].parent # NoParent
      BY <1>10, <2>1, AboveAssumption
    <3> QED
      BY <1>10, <3>1, <3>2 DEF StartedBelow
  <2>3. ~StartedBelow(batch, s, a)
    <3>1. SUFFICES ASSUME StartedBelow(batch, s, a) PROVE FALSE
      OBVIOUS
    <3>2. Update[a].id \in Above[Update[s].id] /\ Update[a].id \in OpId
      BY <1>6, <3>1, BelowIsInside, UpdatesAre
    <3> QED
      BY <2>1, <3>2, AboveAssumption
  <2> QED
    BY <1>8, <1>10, <2>2, <2>3
<1>11. ASSUME Update[a].id = Update[s].id, IsStart(s), ~IsStart(a)
       PROVE  FALSE
  <2>1. ~StartedBelow(batch, s, a)
    BY <1>11 DEF StartedBelow
  <2> QED
    BY <1>8, <1>11, <2>1
<1>12. ASSUME NEW r \in Request PROVE Update[r].parent # Update[r].id
  BY UpdatesAre, AboveAssumption
<1>13. ParentStartFirst(sorted)
  <2>1. SUFFICES ASSUME NEW i \in 1..2, NEW j \in 1..2,
                        Update[sorted[i]].type = "CONTEXT", IsStart(sorted[i]),
                        Update[sorted[j]].parent = Update[sorted[i]].id
                 PROVE  i < j
    BY <1>6 DEF ParentStartFirst
  <2>2. sorted[i] \in Request /\ (i = 1 \/ i = 2) /\ (j = 1 \/ j = 2)
    BY <1>6 DEF a, s
  <2>3. i # j
    BY <1>12, <2>1, <2>2
  <2>4. ~(i = 2 /\ j = 1)
    BY <1>10, <2>1 DEF a, s
  <2> QED
    BY <2>2, <2>3, <2>4
<1>14. StartBeforeCompletion(sorted)
  <2>1. SUFFICES ASSUME NEW i \in 1..2, NEW j \in 1..2,
                        Update[sorted[i]].id = Update[sorted[j]].id, IsStart(sorted[i]),
                        ~IsStart(sorted[j])
                 PROVE  i < j
    BY <1>6 DEF StartBeforeCompletion
  <2>2. (i = 1 \/ i = 2) /\ (j = 1 \/ j = 2) /\ i # j
    BY <2>1
  <2>3. ~(i = 2 /\ j = 1)
    BY <1>11, <2>1 DEF a, s
  <2> QED
    BY <2>2, <2>3
<1> QED
  BY <1>13, <1>14 DEF sorted

\* The updates that have been collected.
BatchInv == batch \in Seq(Request)

LEMMA BatchIsSorted == BatchInv => SortIsSafe
<1> SUFFICES ASSUME BatchInv PROVE SortIsSafe
  OBVIOUS
<1> DEFINE n == Len(batch)
           order  == SortedOrder(batch)
           sorted == SortCheckpointBatch(batch)
<1>1. batch \in Seq(Request) /\ n \in Nat /\ batch \in [1..n -> Request]
  BY DEF BatchInv
<1>2. IsSorting(batch, order)
  BY <1>1, BatchesAreSorted
<1>3. InProgramOrder =>
        \A k, m \in DOMAIN batch :
          k < m /\ IsExecutionCompletion(sorted[k]) = IsExecutionCompletion(sorted[m]) =>
            order[k] < order[m]
  BY <1>1, ProgramOrderKept
<1>4. ExecutionCompletionLast(sorted)
  BY <1>1, CompletionIsLast
<1>5. n = 2 => ParentStartFirst(sorted) /\ StartBeforeCompletion(sorted)
  BY <1>1, PairIsSorted
<1> QED
  BY <1>2, <1>3, <1>4, <1>5 DEF SortIsSafe

-----------------------------------------------------------------------------
(* Records.                                                                *)

Status == {"NONE", "STARTED", "PENDING", "READY", "SUCCEEDED", "FAILED", "CANCELLED"}

Details == [result : Result \cup Nat \cup {NoValue}, payload : Nat \cup {NoValue}, attempt : Nat]

Record == [type : {"NONE", "STEP", "WAIT", "CALLBACK", "INVOKE", "CONTEXT"}, status : Status,
           result : Result \cup Nat \cup {NoValue}, error : Failure \cup {NoValue},
           details : Details]

\* What a kind of operation keeps in its record, whoever keeps it.
WellFormed(kind, op) ==
  /\ op \in Record
  /\ IF Exists(op) THEN op.type = Checks!Type(kind) ELSE op = Missing
  /\ kind # "callback" => op.details.result = NoValue
  /\ kind # "condition" => op.details.payload = NoValue /\ op.details.attempt = 0
  /\ kind = "wait" => op.result = NoValue
  /\ kind = "invoke" => op.status \in {"NONE", "STARTED"}

\* How far the cache can be behind the service.
Behind(kind, ours, theirs) ==
  \/ ours.status = theirs.status
  \/ ours.status = "PENDING" /\ theirs.status = "READY"
  \/ kind = "wait" /\ ours.status = "STARTED" /\ theirs.status = "SUCCEEDED"
  \/ kind = "callback" /\ ours.status = "STARTED" /\ theirs.status \in {"SUCCEEDED", "FAILED"}

RecordsInv ==
  /\ opKind \in OpKind
  /\ WellFormed(opKind, cached) /\ WellFormed(opKind, recorded)
  /\ Behind(opKind, cached, recorded)
  /\ RecordsReadTheSame

-----------------------------------------------------------------------------

UpdateOf(type) ==
  [action : {"START", "SUCCEED", "FAIL", "CANCEL", "RETRY"}, type : {type},
   result : Result \cup Nat \cup {NoValue}, error : Failure \cup {NoValue}, options : BOOLEAN]

\* What the proofs know of an update and of the operation it is sent for.
UpdateFits(kind, op, u) ==
  /\ u \in UpdateOf(Checks!Type(kind))
  /\ u.action = "START" => /\ u.error = NoValue /\ u.result \in Result \cup {NoValue}
                           /\ kind # "invoke" => u.result = NoValue
                           /\ kind \in {"condition", "callback"} => ~Exists(op)
  /\ u.action = "SUCCEED" => /\ kind \in {"atMostOnce", "atLeastOnce", "condition", "child"}
                             /\ u.result \in Result /\ u.error = NoValue
  /\ u.action = "FAIL" => /\ kind \in {"atMostOnce", "atLeastOnce", "condition", "child"}
                          /\ u.error \in Failure /\ u.result = NoValue
                          /\ op.status # "SUCCEEDED"
  /\ u.action = "CANCEL" => /\ kind = "wait" /\ Exists(op)
                            /\ u.result = NoValue /\ u.error = NoValue
  /\ u.action = "RETRY" => /\ kind = "condition" /\ Exists(op) /\ op.status # "SUCCEEDED"
                           /\ u.result \in Nat /\ u.error = NoValue /\ u.options

\* The type of the operation that a kind of call makes.
LEMMA TypeOfKind ==
  /\ \A kind \in {"atMostOnce", "atLeastOnce", "condition"} : Checks!Type(kind) = "STEP"
  /\ Checks!Type("wait") = "WAIT" /\ Checks!Type("callback") = "CALLBACK"
  /\ Checks!Type("invoke") = "INVOKE" /\ Checks!Type("child") = "CONTEXT"
BY SMT DEF Checks!Type

\* The constructors, written out.
LEMMA Constructors ==
  ASSUME NEW type, NEW x
  PROVE  /\ Start(type) = [action |-> "START", type |-> type, result |-> NoValue,
                           error |-> NoValue, options |-> FALSE]
         /\ Succeed(type, x) = [action |-> "SUCCEED", type |-> type, result |-> x,
                                error |-> NoValue, options |-> FALSE]
         /\ Fail(type, x) = [action |-> "FAIL", type |-> type, result |-> NoValue,
                             error |-> x, options |-> FALSE]
         /\ Cancel(type) = [action |-> "CANCEL", type |-> type, result |-> NoValue,
                            error |-> NoValue, options |-> FALSE]
         /\ Retry(type, x) = [action |-> "RETRY", type |-> type, result |-> x,
                              error |-> NoValue, options |-> TRUE]
<1>. DEFINE sent(action) == [action |-> action, type |-> type, result |-> NoValue,
                             error |-> NoValue, options |-> FALSE]
<1>1. Start(type) = sent("START")
  BY DEF Start, Sent
<1>2. Succeed(type, x) = [sent("SUCCEED") EXCEPT !.result = x]
  BY DEF Succeed, Sent
<1>3. Fail(type, x) = [sent("FAIL") EXCEPT !.error = x]
  BY DEF Fail, Sent
<1>4. Cancel(type) = sent("CANCEL")
  BY DEF Cancel, Sent
<1>5. Retry(type, x) = [sent("RETRY") EXCEPT !.result = x, !.options = TRUE]
  BY DEF Retry, Sent
<1>. QED BY <1>1, <1>2, <1>3, <1>4, <1>5

\* A START fits a call of its type.
LEMMA StartFits ==
  ASSUME NEW kind \in OpKind, NEW op, NEW type, type = Checks!Type(kind),
         kind \in {"condition", "callback"} => ~Exists(op)
  PROVE  UpdateFits(kind, op, Start(type))
<1>. DEFINE u == Start(type)
<1>1. u = [action |-> "START", type |-> type, result |-> NoValue, error |-> NoValue,
           options |-> FALSE]
  BY Constructors
<1>. HIDE DEF u
<1>. QED BY <1>1 DEF UpdateFits, UpdateOf, u

\* So do the ends of the kinds whose code ends.
LEMMA EndsFit ==
  ASSUME NEW kind \in {"atMostOnce", "atLeastOnce", "condition", "child"}, NEW op,
         op.status # "SUCCEEDED", NEW type, type = Checks!Type(kind), NEW u \in Endings(type)
  PROVE  UpdateFits(kind, op, u)
<1>1. CASE \E v \in Result : u = Succeed(type, v)
  <2>1. PICK v \in Result : u = Succeed(type, v)
    BY <1>1
  <2>2. u = [action |-> "SUCCEED", type |-> type, result |-> v, error |-> NoValue,
             options |-> FALSE]
    BY <2>1, Constructors
  <2>. QED BY <2>2 DEF UpdateFits, UpdateOf
<1>2. CASE \E e \in Failure : u = Fail(type, e)
  <2>1. PICK e \in Failure : u = Fail(type, e)
    BY <1>2
  <2>2. u = [action |-> "FAIL", type |-> type, result |-> NoValue, error |-> e,
             options |-> FALSE]
    BY <2>1, Constructors
  <2>. QED BY <2>2 DEF UpdateFits, UpdateOf
<1>. QED BY <1>1, <1>2 DEF Endings

\* A handler sends nothing but updates of its kind, whatever it reads.
LEMMA UpdatesFit ==
  ASSUME NEW kind \in OpKind, NEW op, WellFormed(kind, op),
         NEW u \in HandlerUpdates(kind, Read(op))
  PROVE  UpdateFits(kind, op, u)
<1>0. Read(op).status = op.status /\ Read(op).attempt = Attempt(op)
  BY DEF Read
<1>1. CASE kind \in {"atMostOnce", "atLeastOnce"}
  <2>1. u \in StepUpdates(kind, Read(op))
    BY <1>1 DEF HandlerUpdates
  <2>2. \/ u = Start("STEP")
        \/ u \in Endings("STEP") /\ op.status \in {"STARTED", "READY"} \cup {"NONE"}
    BY <2>1, <1>0, Zenon DEF StepUpdates, Running
  <2>. QED BY <1>1, <2>2, TypeOfKind, StartFits, EndsFit
<1>2. CASE kind = "condition"
  <2>1. u \in ConditionUpdates(Read(op))
    BY <1>2 DEF HandlerUpdates
  <2>2. Checks!CurrentAttempt(Read(op)) \in Nat
    BY <1>0 DEF Checks!CurrentAttempt, Attempt, WellFormed, Record, Details
  <2>. DEFINE attempt == Checks!CurrentAttempt(Read(op))
  <2>3. attempt + 1 \in Nat
    BY <2>2
  <2>. HIDE DEF attempt
  <2>4. \/ u = Start("STEP") /\ op.status = "NONE"
        \/ /\ op.status \in {"STARTED", "READY"} \cup {"PENDING"}
           /\ u \in Endings("STEP") \/ u = Retry("STEP", attempt + 1)
    BY <2>1, <1>0, Zenon DEF ConditionUpdates, Running, attempt, Endings
  <2>5. CASE u = Retry("STEP", attempt + 1) /\ Exists(op) /\ op.status # "SUCCEEDED"
    <3>. DEFINE next == attempt + 1
    <3>1. next \in Nat
      BY <2>3
    <3>. HIDE DEF next
    <3>2. u = [action |-> "RETRY", type |-> "STEP", result |-> next, error |-> NoValue,
               options |-> TRUE]
      BY <2>5, Constructors DEF next
    <3>3. /\ u.action = "RETRY" /\ u.type = "STEP" /\ u.result = next
          /\ u.error = NoValue /\ u.options
      BY <3>2
    <3>4. u \in UpdateOf(Checks!Type(kind))
      BY <1>2, <3>1, <3>2, TypeOfKind DEF UpdateOf
    <3>. QED BY <1>2, <2>5, <3>1, <3>3, <3>4 DEF UpdateFits
  <2>. QED BY <1>2, <2>4, <2>5, TypeOfKind, StartFits, EndsFit DEF Exists
<1>3. CASE kind = "wait"
  <2>1. u \in WaitUpdates(Read(op))
    BY <1>3 DEF HandlerUpdates
  <2>2. \/ u = Start("WAIT")
        \/ u = Cancel("WAIT") /\ op.status # "NONE"
    <3>1. \/ u \in {w \in {Start("WAIT")} : Checks!WaitDecision(Read(op)) = "start"}
          \/ u \in {w \in {Cancel("WAIT")} : op.status \notin Checks!Terminal \cup {"NONE"}}
      BY <2>1, <1>0, Zenon DEF WaitUpdates
    <3>. QED BY <3>1
  <2>3. CASE u = Cancel("WAIT") /\ op.status # "NONE"
    <3>1. u = [action |-> "CANCEL", type |-> "WAIT", result |-> NoValue, error |-> NoValue,
               options |-> FALSE]
      BY <2>3, Constructors
    <3>2. u.action = "CANCEL" /\ u.result = NoValue /\ u.error = NoValue
      BY <3>1
    <3>3. u \in UpdateOf(Checks!Type(kind))
      BY <1>3, <3>1, TypeOfKind DEF UpdateOf
    <3>. QED BY <1>3, <2>3, <3>2, <3>3 DEF UpdateFits, Exists
  <2>. QED BY <1>3, <2>2, <2>3, TypeOfKind, StartFits
<1>4. CASE kind = "callback"
  <2>1. u \in CallbackUpdates(Read(op))
    BY <1>4 DEF HandlerUpdates
  <2>2. u = Start("CALLBACK") /\ op.status = "NONE"
    BY <2>1, <1>0, Zenon DEF CallbackUpdates
  <2>. QED BY <1>4, <2>2, TypeOfKind, StartFits DEF Exists
<1>5. CASE kind = "invoke"
  <2>1. u \in InvokeUpdates(Read(op))
    BY <1>5 DEF HandlerUpdates
  <2>2. PICK v \in Result : u = [Start("INVOKE") EXCEPT !.result = v]
    BY <2>1, Zenon DEF InvokeUpdates
  <2>3. u = [action |-> "START", type |-> "INVOKE", result |-> v, error |-> NoValue,
             options |-> FALSE]
    <3>1. Start("INVOKE") = [action |-> "START", type |-> "INVOKE", result |-> NoValue,
                             error |-> NoValue, options |-> FALSE]
      BY Constructors
    <3>2. u = [[action |-> "START", type |-> "INVOKE", result |-> NoValue, error |-> NoValue,
                options |-> FALSE] EXCEPT !.result = v]
      BY <2>2, <3>1, Zenon
    <3>. QED BY <3>2
  <2>4. u.action = "START" /\ u.result = v /\ u.error = NoValue
    BY <2>3
  <2>5. u \in UpdateOf(Checks!Type(kind))
    BY <1>5, <2>3, TypeOfKind DEF UpdateOf
  <2>. QED BY <1>5, <2>4, <2>5 DEF UpdateFits
<1>6. CASE kind = "child"
  <2>1. u \in ChildUpdates(Read(op))
    BY <1>6 DEF HandlerUpdates
  <2>2. \/ u = Start("CONTEXT")
        \/ u \in Endings("CONTEXT") /\ op.status = "STARTED"
    BY <2>1, <1>0, Zenon DEF ChildUpdates
  <2>. QED BY <1>6, <2>2, TypeOfKind, StartFits, EndsFit
<1>. QED BY <1>1, <1>2, <1>3, <1>4, <1>5, <1>6 DEF OpKind

\* What fits the cache fits the service.
LEMMA FitsBoth ==
  ASSUME NEW kind \in OpKind, NEW ours, NEW theirs, NEW u,
         UpdateFits(kind, ours, u), Behind(kind, ours, theirs)
  PROVE  UpdateFits(kind, theirs, u)
BY DEF UpdateFits, Behind, Exists

\* An operation that has these fields after an update reads as Apply says.
LEMMA ReadsAsApplied ==
  ASSUME NEW kind \in OpKind, NEW op, NEW u, WellFormed(kind, op), UpdateFits(kind, op, u),
         NEW after, after.type = u.type, after.status = StatusAfter[u.action],
         u.action = "SUCCEED" => after.result = u.result /\ after.details.result = NoValue,
         Attempt(after) = CASE u.action = "START" -> 0
                            [] u.action = "RETRY" -> u.result
                            [] u.action \in {"SUCCEED", "FAIL", "CANCEL"} -> Attempt(op)
  PROVE  Read(after) = Checks!Apply(Read(op), Told(u))
<1>. DEFINE told == Told(u)
<1>1. u.action \in {"START", "SUCCEED", "FAIL", "CANCEL", "RETRY"}
  BY DEF UpdateFits, UpdateOf
<1>2. told = [type |-> u.type, action |-> u.action,
              value |-> IF u.action = "SUCCEED" THEN u.result ELSE NoValue,
              attempt |-> IF u.action = "RETRY" THEN u.result ELSE 0]
  BY DEF Told
<1>3. Read(op) = [type |-> op.type, status |-> op.status, value |-> Read(op).value,
                  attempt |-> Read(op).attempt]
  BY DEF Read
<1>4. /\ Read(after) = [type |-> u.type, status |-> after.status, value |-> Read(after).value,
                        attempt |-> Attempt(after)]
      /\ Read(op).attempt = Attempt(op)
      /\ after.status # "SUCCEEDED" => Read(after).value = NoValue
      /\ op.status # "SUCCEEDED" => Read(op).value = NoValue
  BY DEF Read
<1>. HIDE DEF told
<1>5. CASE u.action = "START"
  <2>1. Checks!Apply(Read(op), told) = [Checks!Absent EXCEPT !.type = u.type, !.status = "STARTED"]
    BY <1>2, <1>5 DEF Checks!Apply
  <2>2. Read(after) = [type |-> u.type, status |-> "STARTED", value |-> NoValue, attempt |-> 0]
    BY <1>4, <1>5 DEF StatusAfter
  <2>. QED BY <2>1, <2>2 DEF Checks!Absent, told
<1>6. CASE u.action = "SUCCEED"
  <2>1. Checks!Apply(Read(op), told) = [Read(op) EXCEPT !.type = u.type, !.status = "SUCCEEDED",
                                                       !.value = u.result]
    BY <1>2, <1>6 DEF Checks!Apply
  <2>2. after.status = "SUCCEEDED" /\ Read(after).value = u.result
    BY <1>6 DEF Read, GetResult, StatusAfter
  <2>3. Read(after) = [type |-> u.type, status |-> "SUCCEEDED", value |-> u.result,
                       attempt |-> Read(op).attempt]
    BY <1>4, <1>6, <2>2
  <2>. QED BY <1>3, <2>1, <2>3 DEF told
<1>7. CASE u.action = "FAIL"
  <2>1. Checks!Apply(Read(op), told) = [Read(op) EXCEPT !.type = u.type, !.status = "FAILED"]
    BY <1>2, <1>7 DEF Checks!Apply
  <2>2. Read(op).value = NoValue
    BY <1>4, <1>7 DEF UpdateFits
  <2>3. Read(after) = [type |-> u.type, status |-> "FAILED", value |-> NoValue,
                       attempt |-> Read(op).attempt]
    BY <1>4, <1>7 DEF StatusAfter
  <2>. QED BY <1>3, <2>1, <2>2, <2>3 DEF told
<1>8. CASE u.action = "CANCEL"
  <2>1. Checks!Apply(Read(op), told) = [Read(op) EXCEPT !.type = u.type, !.status = "CANCELLED"]
    BY <1>2, <1>8 DEF Checks!Apply
  <2>2. Read(op).value = NoValue
    <3>1. op.result = NoValue /\ op.details.result = NoValue
      BY <1>8 DEF UpdateFits, WellFormed
    <3>. QED BY <3>1 DEF Read, GetResult
  <2>3. Read(after) = [type |-> u.type, status |-> "CANCELLED", value |-> NoValue,
                       attempt |-> Read(op).attempt]
    BY <1>4, <1>8 DEF StatusAfter
  <2>. QED BY <1>3, <2>1, <2>2, <2>3 DEF told
<1>9. CASE u.action = "RETRY"
  <2>1. Checks!Apply(Read(op), told) = [Read(op) EXCEPT !.type = u.type, !.status = "PENDING",
                                                       !.attempt = u.result]
    BY <1>2, <1>9 DEF Checks!Apply
  <2>2. Read(op).value = NoValue
    BY <1>4, <1>9 DEF UpdateFits
  <2>3. Read(after) = [type |-> u.type, status |-> "PENDING", value |-> NoValue,
                       attempt |-> u.result]
    BY <1>4, <1>9 DEF StatusAfter
  <2>. QED BY <1>3, <2>1, <2>2, <2>3 DEF told
<1>. QED BY <1>1, <1>5, <1>6, <1>7, <1>8, <1>9

\* What an update begins with, an operation that there is or a new one.
LEMMA BeforeUpdate ==
  ASSUME NEW kind \in OpKind, NEW op, NEW u, WellFormed(kind, op), UpdateFits(kind, op, u),
         NEW before, (before = op /\ Exists(op)) \/ before = New(u.type)
  PROVE  /\ before \in Record /\ before.type = u.type /\ u.type = Checks!Type(kind)
         /\ kind # "callback" => before.details.result = NoValue
         /\ kind # "condition" => before.details.payload = NoValue /\ before.details.attempt = 0
         /\ kind = "wait" => before.result = NoValue
         /\ before = New(u.type) => Attempt(before) = 0
         /\ ~Exists(op) => Attempt(op) = 0
<1>1. /\ u.type = Checks!Type(kind)
      /\ u.type \in {"STEP", "WAIT", "CALLBACK", "INVOKE", "CONTEXT"}
  BY TypeOfKind DEF UpdateFits, UpdateOf, OpKind
<1>2. New(u.type) \in Record /\ New(u.type).type = u.type
  BY <1>1 DEF New, NoDetails, Record, Details, Status
<1>3. /\ New(u.type).details = NoDetails /\ New(u.type).result = NoValue
      /\ Attempt(New(u.type)) = 0 /\ Attempt(Missing) = 0
  BY DEF New, NoDetails, Missing, Attempt
<1>4. CASE before = op /\ Exists(op)
  BY <1>1, <1>3, <1>4 DEF WellFormed
<1>5. CASE before = New(u.type)
  BY <1>1, <1>2, <1>3, <1>5 DEF WellFormed, NoDetails
<1>. QED BY <1>4, <1>5

\* The cache makes of an update what Apply does.
LEMMA CachedReads ==
  ASSUME NEW kind \in OpKind, NEW op, NEW u, WellFormed(kind, op), UpdateFits(kind, op, u)
  PROVE  /\ WellFormed(kind, Cached(op, u))
         /\ Read(Cached(op, u)) = Checks!Apply(Read(op), Told(u))
         /\ Cached(op, u).status = StatusAfter[u.action]
         /\ u.action = "FAIL" => Cached(op, u).error = u.error
<1>. DEFINE before == IF Exists(op) /\ u.action # "START" THEN op ELSE New(u.type)
            next == [before EXCEPT !.status = StatusAfter[u.action]]
            after == Cached(op, u)
<1>1. /\ before \in Record /\ before.type = u.type /\ u.type = Checks!Type(kind)
      /\ kind # "callback" => before.details.result = NoValue
      /\ kind # "condition" => before.details.payload = NoValue /\ before.details.attempt = 0
      /\ kind = "wait" => before.result = NoValue
      /\ Attempt(before) = IF u.action = "START" THEN 0 ELSE Attempt(op)
  BY BeforeUpdate
<1>2. u.action \in {"START", "SUCCEED", "FAIL", "CANCEL", "RETRY"}
  BY DEF UpdateFits, UpdateOf
<1>. HIDE DEF before
<1>3. /\ next \in Record /\ next.status = StatusAfter[u.action] /\ next.type = before.type
      /\ next.result = before.result /\ next.error = before.error
      /\ next.details = before.details /\ StatusAfter[u.action] # "NONE"
  BY <1>1, <1>2 DEF Record, Status, StatusAfter
<1>4. after = CASE u.action = "SUCCEED" -> [next EXCEPT !.result = u.result]
                [] u.action = "FAIL"    -> [next EXCEPT !.error = u.error]
                [] u.action = "RETRY"   ->
                     IF u.result # NoValue \/ u.options
                     THEN [next EXCEPT
                             !.details.payload = IF u.result # NoValue THEN u.result ELSE @,
                             !.details.attempt = @ + 1,
                             !.error = IF u.error # NoValue THEN u.error ELSE @]
                     ELSE [next EXCEPT !.error = IF u.error # NoValue THEN u.error ELSE @]
                [] u.action \in {"START", "CANCEL"} -> next
  BY DEF Cached, before
<1>. HIDE DEF after, next
<1>5. CASE u.action \in {"START", "CANCEL"}
  <2>1. after = next
    BY <1>4, <1>5
  <2>2. kind = "invoke" => after.status = "STARTED"
    BY <1>3, <1>5, <2>1 DEF UpdateFits, StatusAfter
  <2>3. Attempt(after) = Attempt(before)
    BY <1>3, <2>1 DEF Attempt
  <2>4. Read(after) = Checks!Apply(Read(op), Told(u))
    BY <1>1, <1>3, <1>5, <2>1, <2>3, ReadsAsApplied
  <2>5. WellFormed(kind, after)
    BY <1>1, <1>3, <2>1, <2>2 DEF WellFormed, Exists
  <2>. QED BY <1>3, <1>5, <2>1, <2>4, <2>5 DEF after
<1>6. CASE u.action = "SUCCEED"
  <2>1. after = [next EXCEPT !.result = u.result]
    BY <1>4, <1>6
  <2>2. kind \in {"atMostOnce", "atLeastOnce", "condition", "child"} /\ u.result \in Result
    BY <1>6 DEF UpdateFits
  <2>3. /\ after \in Record /\ after.status = next.status /\ after.type = next.type
        /\ after.result = u.result /\ after.details = before.details
    BY <1>3, <2>1, <2>2 DEF Record
  <2>4. Attempt(after) = Attempt(op)
    BY <1>1, <1>6, <2>3 DEF Attempt
  <2>5. Read(after) = Checks!Apply(Read(op), Told(u))
    BY <1>1, <1>3, <1>6, <2>2, <2>3, <2>4, ReadsAsApplied
  <2>6. WellFormed(kind, after)
    BY <1>1, <1>3, <2>2, <2>3 DEF WellFormed, Exists
  <2>. QED BY <1>3, <1>6, <2>3, <2>5, <2>6 DEF after
<1>7. CASE u.action = "FAIL"
  <2>1. after = [next EXCEPT !.error = u.error]
    BY <1>4, <1>7
  <2>2. kind \in {"atMostOnce", "atLeastOnce", "condition", "child"} /\ u.error \in Failure
    BY <1>7 DEF UpdateFits
  <2>3. /\ after \in Record /\ after.status = next.status /\ after.type = next.type
        /\ after.error = u.error /\ after.details = before.details
    BY <1>3, <2>1, <2>2 DEF Record
  <2>4. Attempt(after) = Attempt(op)
    BY <1>1, <1>7, <2>3 DEF Attempt
  <2>5. Read(after) = Checks!Apply(Read(op), Told(u))
    BY <1>1, <1>3, <1>7, <2>3, <2>4, ReadsAsApplied
  <2>6. WellFormed(kind, after)
    BY <1>1, <1>3, <2>2, <2>3 DEF WellFormed, Exists
  <2>. QED BY <1>3, <1>7, <2>3, <2>5, <2>6 DEF after
<1>8. CASE u.action = "RETRY"
  <2>1. /\ kind = "condition" /\ u.result \in Nat /\ u.result # NoValue
        /\ u.error = NoValue /\ u.options
    BY <1>8, OptionAssumption DEF UpdateFits
  <2>2. after = [next EXCEPT !.details.payload = u.result, !.details.attempt = @ + 1]
    <3>1. after = [next EXCEPT !.details.payload = IF u.result # NoValue THEN u.result ELSE @,
                               !.details.attempt = @ + 1,
                               !.error = IF u.error # NoValue THEN u.error ELSE @]
      BY <1>4, <1>8, <2>1
    <3>. QED BY <1>3, <2>1, <3>1 DEF Record
  <2>3. after = [next EXCEPT !.details = [result |-> next.details.result, payload |-> u.result,
                                          attempt |-> next.details.attempt + 1]]
    <3>. DEFINE mid == [next EXCEPT !.details.payload = u.result]
    <3>1. after = [mid EXCEPT !.details.attempt = @ + 1]
      BY <2>2, Zenon
    <3>2. mid = [next EXCEPT !.details = [next.details EXCEPT !.payload = u.result]]
      OBVIOUS
    <3>3. [next.details EXCEPT !.payload = u.result]
            = [result |-> next.details.result, payload |-> u.result,
               attempt |-> next.details.attempt]
      BY <1>3 DEF Record, Details
    <3>. HIDE DEF mid
    <3>4. after = [mid EXCEPT !.details = [mid.details EXCEPT !.attempt = @ + 1]]
      BY <3>1
    <3>5. mid.details = [result |-> next.details.result, payload |-> u.result,
                         attempt |-> next.details.attempt]
      BY <1>3, <3>2, <3>3 DEF Record
    <3>6. [mid.details EXCEPT !.attempt = @ + 1]
            = [result |-> next.details.result, payload |-> u.result,
               attempt |-> next.details.attempt + 1]
      BY <3>5
    <3>. QED BY <1>3, <3>2, <3>4, <3>6 DEF Record
  <2>4. next.details.attempt + 1 \in Nat
    BY <1>3 DEF Record, Details
  <2>5. /\ after.status = next.status /\ after.type = next.type
        /\ after.details.result = before.details.result /\ after.details.payload = u.result
    BY <1>3, <2>3 DEF Record
  <2>6. after \in Record
    BY <1>3, <2>1, <2>3, <2>4 DEF Record, Details
  <2>7. Attempt(after) = u.result
    BY <2>1, <2>5 DEF Attempt
  <2>8. Read(after) = Checks!Apply(Read(op), Told(u))
    BY <1>1, <1>3, <1>8, <2>5, <2>7, ReadsAsApplied
  <2>9. WellFormed(kind, after)
    BY <1>1, <1>3, <2>1, <2>5, <2>6 DEF WellFormed, Exists
  <2>. QED BY <1>3, <1>8, <2>5, <2>8, <2>9 DEF after
<1>. QED BY <1>2, <1>5, <1>6, <1>7, <1>8

\* So does the service.
LEMMA RecordedReads ==
  ASSUME NEW kind \in OpKind, NEW op, NEW u, WellFormed(kind, op), UpdateFits(kind, op, u)
  PROVE  /\ WellFormed(kind, Recorded(op, u))
         /\ Read(Recorded(op, u)) = Checks!Apply(Read(op), Told(u))
         /\ Recorded(op, u).status = StatusAfter[u.action]
         /\ u.action = "FAIL" => Recorded(op, u).error = u.error
<1>. DEFINE before == IF Exists(op) THEN op ELSE New(u.type)
            merged == [before EXCEPT
                         !.status = StatusAfter[u.action],
                         !.result = IF u.result # NoValue THEN u.result ELSE @,
                         !.error = IF u.error # NoValue THEN u.error ELSE @]
            after == Recorded(op, u)
<1>1. /\ before \in Record /\ before.type = u.type /\ u.type = Checks!Type(kind)
      /\ kind # "callback" => before.details.result = NoValue
      /\ kind # "condition" => before.details.payload = NoValue /\ before.details.attempt = 0
      /\ kind = "wait" => before.result = NoValue
      /\ Attempt(before) = Attempt(op)
  BY BeforeUpdate
<1>2. /\ u.action \in {"START", "SUCCEED", "FAIL", "CANCEL", "RETRY"}
      /\ u.result \in Result \cup Nat \cup {NoValue} /\ u.error \in Failure \cup {NoValue}
      /\ kind = "wait" => u.result = NoValue
  BY DEF UpdateFits, UpdateOf
<1>3. u.action = "START" => Attempt(op) = 0
  <2>1. CASE Exists(op) /\ u.action = "START"
    BY <2>1 DEF UpdateFits, WellFormed, Attempt
  <2>2. CASE ~Exists(op)
    BY <2>2, BeforeUpdate
  <2>. QED BY <2>1, <2>2
<1>. HIDE DEF before
<1>4. /\ merged \in Record /\ merged.status = StatusAfter[u.action]
      /\ merged.type = before.type /\ merged.details = before.details
      /\ merged.result = (IF u.result # NoValue THEN u.result ELSE before.result)
      /\ merged.error = (IF u.error # NoValue THEN u.error ELSE before.error)
      /\ StatusAfter[u.action] # "NONE"
  <2>. DEFINE status == StatusAfter[u.action]
              result == IF u.result # NoValue THEN u.result ELSE before.result
              error == IF u.error # NoValue THEN u.error ELSE before.error
  <2>1. status \in Status \ {"NONE"}
    BY <1>2 DEF Status, StatusAfter
  <2>2. result \in Result \cup Nat \cup {NoValue} /\ error \in Failure \cup {NoValue}
    BY <1>1, <1>2 DEF Record
  <2>3. merged = [before EXCEPT !.status = status, !.result = result, !.error = error]
    BY <1>1 DEF Record
  <2>. HIDE DEF merged, status, result, error
  <2>4. /\ merged \in Record /\ merged.status = status /\ merged.type = before.type
        /\ merged.details = before.details /\ merged.result = result /\ merged.error = error
    BY <1>1, <2>1, <2>2, <2>3 DEF Record
  <2>. QED BY <2>1, <2>4 DEF status, result, error
<1>5. after = IF u.action = "RETRY"
              THEN [merged EXCEPT !.details = [result |-> NoValue, payload |-> u.result,
                                               attempt |-> before.details.attempt + 1]]
              ELSE merged
  BY DEF Recorded, before
<1>. HIDE DEF after, merged
<1>6. u.action = "FAIL" => u.error # NoValue
  BY OptionAssumption DEF UpdateFits
<1>7. CASE u.action # "RETRY"
  <2>1. after = merged
    BY <1>5, <1>7
  <2>2. u.action = "SUCCEED" => after.result = u.result /\ after.details.result = NoValue
    <3>. SUFFICES ASSUME u.action = "SUCCEED"
                  PROVE  after.result = u.result /\ after.details.result = NoValue
      OBVIOUS
    <3>1. /\ kind \in {"atMostOnce", "atLeastOnce", "condition", "child"}
          /\ u.result \in Result /\ u.result # NoValue
      BY OptionAssumption DEF UpdateFits
    <3>. QED BY <1>1, <1>4, <2>1, <3>1
  <2>3. Attempt(after) = Attempt(op)
    BY <1>1, <1>4, <2>1 DEF Attempt
  <2>4. Read(after) = Checks!Apply(Read(op), Told(u))
    BY <1>1, <1>2, <1>3, <1>4, <1>7, <2>1, <2>2, <2>3, ReadsAsApplied
  <2>5. kind = "invoke" => after.status = "STARTED"
    BY <1>2, <1>4, <1>7, <2>1 DEF UpdateFits, StatusAfter
  <2>6. WellFormed(kind, after)
    BY <1>1, <1>2, <1>4, <2>1, <2>5 DEF WellFormed, Exists
  <2>. QED BY <1>4, <1>6, <2>1, <2>4, <2>6 DEF after
<1>8. CASE u.action = "RETRY"
  <2>1. kind = "condition" /\ u.result \in Nat /\ u.result # NoValue
    BY <1>8, OptionAssumption DEF UpdateFits
  <2>2. before.details.attempt + 1 \in Nat
    BY <1>1 DEF Record, Details
  <2>. DEFINE attempt == before.details.attempt + 1
  <2>. HIDE DEF attempt
  <2>3. after = [merged EXCEPT !.details = [result |-> NoValue, payload |-> u.result,
                                            attempt |-> attempt]]
    BY <1>5, <1>8 DEF attempt
  <2>4. /\ after.status = merged.status /\ after.type = merged.type
        /\ after.details.result = NoValue /\ after.details.payload = u.result
    BY <1>4, <2>3 DEF Record
  <2>5. after \in Record
    BY <1>4, <2>1, <2>2, <2>3 DEF Record, Details, attempt
  <2>6. Attempt(after) = u.result
    BY <2>1, <2>4 DEF Attempt
  <2>7. Read(after) = Checks!Apply(Read(op), Told(u))
    BY <1>1, <1>4, <1>8, <2>4, <2>6, ReadsAsApplied
  <2>8. WellFormed(kind, after)
    BY <1>1, <1>4, <2>1, <2>4, <2>5 DEF WellFormed, Exists
  <2>. QED BY <1>4, <1>8, <2>4, <2>7, <2>8 DEF after
<1>. QED BY <1>7, <1>8

-----------------------------------------------------------------------------

LEMMA RecordsInitInv == RecordsInit => RecordsInv
<1>. SUFFICES ASSUME RecordsInit
              PROVE  RecordsInv
  OBVIOUS
<1>1. /\ Missing.type = "NONE" /\ Missing.status = "NONE" /\ Missing.details = NoDetails
      /\ Missing.result = NoValue /\ Missing \in Record
  BY DEF Missing, New, NoDetails, Record, Status, Details
<1>2. WellFormed(opKind, Missing)
  BY <1>1 DEF WellFormed, Exists, NoDetails
<1>3. Read(Missing) = Checks!Absent
  BY <1>1 DEF Read, Attempt, NoDetails, Checks!Absent
<1>. QED BY <1>1, <1>2, <1>3 DEF RecordsInit, RecordsInv, Behind, RecordsReadTheSame

\* What one update does to both records.
LEMMA UpdateBoth ==
  ASSUME RecordsInv, NEW u \in HandlerUpdates(opKind, Read(cached))
  PROVE  /\ WellFormed(opKind, Cached(cached, u)) /\ WellFormed(opKind, Recorded(recorded, u))
         /\ Read(Cached(cached, u)) = Checks!Apply(known, Told(u))
         /\ Read(Recorded(recorded, u)) = Checks!Apply(truth, Told(u))
         /\ Cached(cached, u).status = Recorded(recorded, u).status
         /\ Cached(cached, u).status = "FAILED" =>
              Cached(cached, u).error = Recorded(recorded, u).error
<1>1. UpdateFits(opKind, cached, u) /\ UpdateFits(opKind, recorded, u)
  BY UpdatesFit, FitsBoth DEF RecordsInv
<1>2. /\ WellFormed(opKind, Cached(cached, u))
      /\ Read(Cached(cached, u)) = Checks!Apply(Read(cached), Told(u))
      /\ Cached(cached, u).status = StatusAfter[u.action]
      /\ u.action = "FAIL" => Cached(cached, u).error = u.error
  BY <1>1, CachedReads DEF RecordsInv
<1>3. /\ WellFormed(opKind, Recorded(recorded, u))
      /\ Read(Recorded(recorded, u)) = Checks!Apply(Read(recorded), Told(u))
      /\ Recorded(recorded, u).status = StatusAfter[u.action]
      /\ u.action = "FAIL" => Recorded(recorded, u).error = u.error
  BY <1>1, RecordedReads DEF RecordsInv
<1>4. StatusAfter[u.action] = "FAILED" => u.action = "FAIL"
  BY <1>1 DEF UpdateFits, UpdateOf, StatusAfter
<1>. QED BY <1>2, <1>3, <1>4 DEF RecordsInv, RecordsReadTheSame

LEMMA CheckpointInv == RecordsInv /\ Checkpoint => RecordsInv'
<1>. SUFFICES ASSUME RecordsInv, Checkpoint
              PROVE  RecordsInv'
  OBVIOUS
<1>1. PICK u \in HandlerUpdates(opKind, Read(cached)), answered \in BOOLEAN :
        /\ recorded' = Recorded(recorded, u)
        /\ truth' = Checks!Apply(truth, Told(u))
        /\ cached' = IF answered THEN recorded' ELSE Cached(cached, u)
        /\ known' = IF answered THEN truth' ELSE Checks!Apply(known, Told(u))
        /\ opKind' = opKind
  BY DEF Checkpoint
<1>2. /\ WellFormed(opKind, Cached(cached, u)) /\ WellFormed(opKind, Recorded(recorded, u))
      /\ Read(Cached(cached, u)) = Checks!Apply(known, Told(u))
      /\ Read(Recorded(recorded, u)) = Checks!Apply(truth, Told(u))
      /\ Cached(cached, u).status = Recorded(recorded, u).status
      /\ Cached(cached, u).status = "FAILED" =>
           Cached(cached, u).error = Recorded(recorded, u).error
  BY UpdateBoth
<1>3. WellFormed(opKind, recorded') /\ WellFormed(opKind, cached')
  BY <1>1, <1>2
<1>4. Read(recorded') = truth' /\ Read(cached') = known'
  BY <1>1, <1>2
<1>5. /\ cached'.status = recorded'.status
      /\ cached'.status = "FAILED" => cached'.error = recorded'.error
  BY <1>1, <1>2
<1>. QED BY <1>1, <1>3, <1>4, <1>5 DEF RecordsInv, RecordsReadTheSame, Behind

LEMMA NewInvocationInv == RecordsInv /\ NewInvocation => RecordsInv'
<1>. SUFFICES ASSUME RecordsInv, NewInvocation
              PROVE  RecordsInv'
  OBVIOUS
<1>1. cached' = recorded' /\ known' = truth' /\ opKind' = opKind
  BY DEF NewInvocation
<1>2. WellFormed(opKind, recorded') /\ Read(recorded') = truth'
  <2>1. CASE UNCHANGED <<recorded, truth>>
    BY <2>1 DEF RecordsInv, RecordsReadTheSame
  <2>2. CASE \E u \in HandlerUpdates(opKind, Read(cached)) :
               /\ recorded' = Recorded(recorded, u)
               /\ truth' = Checks!Apply(truth, Told(u))
    BY <2>2, UpdateBoth
  <2>. QED BY <2>1, <2>2 DEF NewInvocation
<1>. QED BY <1>1, <1>2 DEF RecordsInv, RecordsReadTheSame, Behind

\* What of an operation is at the service says what kind of call has made it.
LEMMA KindOfType ==
  ASSUME RecordsInv, Exists(recorded)
  PROVE  /\ recorded.type = "STEP" => opKind \in {"atMostOnce", "atLeastOnce", "condition"}
         /\ recorded.type = "WAIT" => opKind = "wait"
         /\ recorded.type = "CALLBACK" => opKind = "callback"
BY TypeOfKind DEF RecordsInv, WellFormed, OpKind

LEMMA ResolveInv == RecordsInv /\ Resolve => RecordsInv'
<1>. SUFFICES ASSUME RecordsInv, Resolve
              PROVE  RecordsInv'
  OBVIOUS
<1>. DEFINE status == IF recorded.type = "STEP" THEN "READY" ELSE "SUCCEEDED"
<1>1. /\ recorded' = [recorded EXCEPT !.status = status]
      /\ truth' = [truth EXCEPT !.status = status]
      /\ opKind' = opKind /\ cached' = cached /\ known' = known
  BY DEF Resolve
<1>2. \/ /\ recorded.type = "STEP" /\ recorded.status = "PENDING" /\ status = "READY"
         /\ opKind \in {"atMostOnce", "atLeastOnce", "condition"}
      \/ /\ recorded.type = "WAIT" /\ recorded.status = "STARTED" /\ status = "SUCCEEDED"
         /\ opKind = "wait"
  BY KindOfType DEF Resolve, Exists
<1>. HIDE DEF status
<1>3. /\ recorded \in Record /\ Exists(recorded)
      /\ recorded.type = Checks!Type(opKind)
      /\ recorded.details.result = NoValue
      /\ opKind = "wait" => recorded.result = NoValue
  BY <1>2 DEF RecordsInv, WellFormed, Exists
<1>4. /\ recorded' \in Record /\ recorded'.status = status /\ recorded'.type = recorded.type
      /\ recorded'.result = recorded.result /\ recorded'.error = recorded.error
      /\ recorded'.details = recorded.details
  BY <1>1, <1>2, <1>3 DEF Record, Status
<1>5. WellFormed(opKind, recorded')
  BY <1>2, <1>3, <1>4 DEF RecordsInv, WellFormed, Exists
<1>6. Read(recorded') = truth'
  <2>1. truth = [type |-> recorded.type, status |-> recorded.status, value |-> NoValue,
                 attempt |-> Attempt(recorded)]
    BY <1>2 DEF RecordsInv, RecordsReadTheSame, Read
  <2>2. truth' = [type |-> recorded.type, status |-> status, value |-> NoValue,
                  attempt |-> Attempt(recorded)]
    BY <1>1, <2>1
  <2>3. status = "SUCCEEDED" => GetResult(recorded') = NoValue
    BY <1>2, <1>3, <1>4 DEF GetResult
  <2>4. Attempt(recorded') = Attempt(recorded)
    BY <1>4 DEF Attempt
  <2>. QED BY <1>4, <2>2, <2>3, <2>4 DEF Read
<1>7. Behind(opKind, cached, recorded')
  BY <1>2, <1>4 DEF RecordsInv, Behind
<1>8. recorded'.status # "FAILED"
  BY <1>2, <1>4
<1>. QED BY <1>1, <1>5, <1>6, <1>7, <1>8 DEF RecordsInv, RecordsReadTheSame

LEMMA AnswerInv == RecordsInv /\ Answer => RecordsInv'
<1>. SUFFICES ASSUME RecordsInv, Answer
              PROVE  RecordsInv'
  OBVIOUS
<1>1. recorded.type = "CALLBACK" /\ recorded.status = "STARTED" /\ opKind = "callback"
  BY KindOfType DEF Answer, Exists
<1>2. opKind' = opKind /\ cached' = cached /\ known' = known
  BY DEF Answer
<1>3. recorded \in Record /\ recorded.details.payload = NoValue /\ recorded.details.attempt = 0
      /\ recorded.type = Checks!Type(opKind)
  BY <1>1 DEF RecordsInv, WellFormed, Exists
<1>4. truth = [type |-> "CALLBACK", status |-> "STARTED", value |-> NoValue, attempt |-> 0]
  BY <1>1, <1>3 DEF RecordsInv, RecordsReadTheSame, Read, Attempt
<1>5. cached.status = "STARTED"
  BY <1>1 DEF RecordsInv, Behind
<1>6. WellFormed(opKind, recorded') /\ Read(recorded') = truth'
        /\ recorded'.status \in {"SUCCEEDED", "FAILED"}
  <2>1. CASE \E v \in Result \cup {NoValue} :
               /\ recorded' = [recorded EXCEPT !.status = "SUCCEEDED", !.result = v,
                                               !.details.result = v]
               /\ truth' = [truth EXCEPT !.status = "SUCCEEDED", !.value = v]
    <3>1. PICK v \in Result \cup {NoValue} :
                /\ recorded' = [recorded EXCEPT !.status = "SUCCEEDED", !.result = v,
                                                !.details.result = v]
                /\ truth' = [truth EXCEPT !.status = "SUCCEEDED", !.value = v]
      BY <2>1
    <3>2. /\ recorded' \in Record /\ recorded'.status = "SUCCEEDED"
          /\ recorded'.type = "CALLBACK" /\ recorded'.result = v
          /\ recorded'.details = [result |-> v, payload |-> NoValue, attempt |-> 0]
      BY <1>1, <1>3, <3>1 DEF Record, Details, Status
    <3>3. WellFormed(opKind, recorded')
      BY <1>1, <1>3, <3>2 DEF WellFormed, Exists
    <3>4. GetResult(recorded') = v /\ Attempt(recorded') = 0
      BY <3>2 DEF GetResult, Attempt
    <3>5. Read(recorded') = truth'
      BY <1>4, <3>1, <3>2, <3>4 DEF Read
    <3>. QED BY <3>2, <3>3, <3>5
  <2>2. CASE \E e \in Failure :
               /\ recorded' = [recorded EXCEPT !.status = "FAILED", !.error = e,
                                               !.details.result = recorded.result]
               /\ truth' = [truth EXCEPT !.status = "FAILED"]
    <3>1. PICK e \in Failure :
                /\ recorded' = [recorded EXCEPT !.status = "FAILED", !.error = e,
                                                !.details.result = recorded.result]
                /\ truth' = [truth EXCEPT !.status = "FAILED"]
      BY <2>2
    <3>2. /\ recorded' \in Record /\ recorded'.status = "FAILED"
          /\ recorded'.type = "CALLBACK"
          /\ recorded'.details = [result |-> recorded.result, payload |-> NoValue, attempt |-> 0]
      BY <1>1, <1>3, <3>1 DEF Record, Details, Status
    <3>3. WellFormed(opKind, recorded')
      BY <1>1, <1>3, <3>2 DEF WellFormed, Exists
    <3>4. Attempt(recorded') = 0
      BY <3>2 DEF Attempt
    <3>5. Read(recorded') = truth'
      BY <1>4, <3>1, <3>2, <3>4 DEF Read
    <3>. QED BY <3>2, <3>3, <3>5
  <2>. QED BY <2>1, <2>2 DEF Answer
<1>7. Behind(opKind, cached, recorded')
  BY <1>1, <1>5, <1>6 DEF Behind
<1>. QED BY <1>2, <1>5, <1>6, <1>7 DEF RecordsInv, RecordsReadTheSame

\* Handlers read the same in the cache, which update_local_cache_from_update keeps, as in
\* the service's record of the same operation (RecordsReadTheSame): an invocation that
\* goes on from its own cache decides as the one that begins from what is recorded.
THEOREM RecordsAgree == RecordsSpec => []RecordsReadTheSame
<1>1. RecordsInv /\ [RecordsNext]_records => RecordsInv'
  <2>. SUFFICES ASSUME RecordsInv, [RecordsNext]_records
                PROVE  RecordsInv'
    OBVIOUS
  <2>1. CASE Checkpoint
    BY <2>1, CheckpointInv
  <2>2. CASE NewInvocation
    BY <2>2, NewInvocationInv
  <2>3. CASE Resolve
    BY <2>3, ResolveInv
  <2>4. CASE Answer
    BY <2>4, AnswerInv
  <2>5. CASE UNCHANGED records
    BY <2>5 DEF records, RecordsInv, RecordsReadTheSame
  <2>. QED BY <2>1, <2>2, <2>3, <2>4, <2>5 DEF RecordsNext
<1>2. RecordsInv => RecordsReadTheSame
  BY DEF RecordsInv
<1>. QED BY RecordsInitInv, <1>1, <1>2, PTL DEF RecordsSpec

-----------------------------------------------------------------------------
(* The theorems.  One induction for all of the inputs.                     *)

InputsInv == BatchInv /\ RetryInv /\ ItemsInv /\ NestInv

LEMMA InputsStart == Init => InputsInv
<1> SUFFICES ASSUME Init PROVE InputsInv
  OBVIOUS
<1>1. BatchInv
  BY DEF Init, BatchInv
<1>2. RetryInv
  <2>1. SUFFICES ASSUME about = "retry"
                 PROVE  retry \in [strategy : RetryStrategies, wait : {"no"}, attempt : Nat] \cup
                                  [strategy : WaitStrategies, wait : {"backoff"},
                                   attempt : Nat \ {0}] \cup
                                  [strategy : Intervals, wait : {"interval"},
                                   attempt : Nat \ {0}]
    BY DEF RetryInv
  <2>2. retry \in [strategy : RetryStrategies, wait : {"no"}, attempt : {0}] \cup
                  [strategy : WaitStrategies, wait : {"backoff"}, attempt : {1}] \cup
                  [strategy : Intervals, wait : {"interval"}, attempt : {1}]
    BY <2>1 DEF Init
  <2> QED
    BY <2>2
<1>3. ItemsInv
  <2>1. SUFFICES ASSUME about = "items" PROVE items \in [batcher : Batchers, sizes : Seq(Nat)]
    BY DEF ItemsInv
  <2>2. items \in [batcher : Batchers, sizes : {<<>>}] /\ <<>> \in Seq(Nat)
    BY <2>1 DEF Init
  <2> QED
    BY <2>2
<1>4. NestInv
  BY NestStarts
<1> QED
  BY <1>1, <1>2, <1>3, <1>4 DEF InputsInv

LEMMA InputsStep == InputsInv /\ [Next]_vars => InputsInv'
<1> SUFFICES ASSUME InputsInv, [Next]_vars PROVE InputsInv'
  OBVIOUS
<1> USE DEF InputsInv
<1>1. ASSUME NEW r \in Request, Collect(r) PROVE InputsInv'
  <2>1. /\ about = "order" /\ batch' = Append(batch, r)
        /\ UNCHANGED <<about, retry, items, nest>>
    BY <1>1 DEF Collect
  <2>2. BatchInv'
    BY <2>1 DEF BatchInv
  <2> QED
    BY <2>1, <2>2 DEF RetryInv, ItemsInv, NestInv
<1>2. CASE TryAgain
  <2>1. /\ about = "retry" /\ retry' = [retry EXCEPT !.attempt = @ + 1]
        /\ UNCHANGED <<about, batch, items, nest>>
    BY <1>2 DEF TryAgain
  <2>2. RetryInv'
    <3>1. retry \in [strategy : RetryStrategies, wait : {"no"}, attempt : Nat] \cup
                    [strategy : WaitStrategies, wait : {"backoff"}, attempt : Nat \ {0}] \cup
                    [strategy : Intervals, wait : {"interval"}, attempt : Nat \ {0}]
      BY <2>1 DEF RetryInv
    <3>2. retry.attempt \in Nat
      BY <3>1
    <3>3. retry.attempt + 1 \in Nat \ {0}
      BY <3>2
    <3> QED
      BY <2>1, <3>1, <3>3 DEF RetryInv
  <2> QED
    BY <2>1, <2>2 DEF BatchInv, ItemsInv, NestInv
<1>3. ASSUME NEW size \in Sizes, NextItem(size) PROVE InputsInv'
  <2>1. /\ about = "items" /\ items' = [items EXCEPT !.sizes = Append(@, size)]
        /\ UNCHANGED <<about, batch, retry, nest>>
    BY <1>3 DEF NextItem
  <2>2. ItemsInv'
    <3>1. items \in [batcher : Batchers, sizes : Seq(Nat)]
      BY <2>1 DEF ItemsInv
    <3>2. Append(items.sizes, size) \in Seq(Nat)
      <4>1. size \in Nat /\ items.sizes \in Seq(Nat)
        BY <3>1, BatcherAssumption
      <4> QED
        BY <4>1
    <3> QED
      BY <2>1, <3>1, <3>2 DEF ItemsInv
  <2> QED
    BY <2>1, <2>2 DEF BatchInv, RetryInv, NestInv
<1>4. ASSUME NEW kind \in Kinds, Nest(kind) PROVE InputsInv'
  <2>1. about = "errors" /\ UNCHANGED <<about, batch, retry, items>>
    BY <1>4 DEF Nest
  <2>2. NestInv'
    BY <1>4, NestGrows
  <2> QED
    BY <2>1, <2>2 DEF BatchInv, RetryInv, ItemsInv
<1>5. CASE RecordsStep \/ UNCHANGED vars
  <2>1. UNCHANGED <<about, batch, retry, items, nest>>
    BY <1>5 DEF RecordsStep, vars
  <2>2. BatchInv' /\ RetryInv' /\ ItemsInv'
    BY <2>1 DEF BatchInv, RetryInv, ItemsInv
  <2>3. NestInv'
    <3>1. KindsOf(nest)' = KindsOf(nest)
      BY <2>1 DEF KindsOf
    <3>2. Objects(nest.stored, nest.errors)' = Objects(nest.stored, nest.errors)
      BY <2>1 DEF Objects
    <3> QED
      BY <2>1, <3>1, <3>2 DEF NestInv
  <2> QED
    BY <2>2, <2>3
<1> QED
  BY <1>1, <1>2, <1>3, <1>4, <1>5 DEF Next

LEMMA InputsAlways == Spec => []InputsInv
BY InputsStart, InputsStep, PTL DEF Spec

\* Whatever batch is collected, sort_checkpoint_batch rearranges it, keeps what arrives in
\* program order as it is, and puts the completion of the execution last (SortIsSafe).
THEOREM SortingIsSafe == Spec => []SortIsSafe
<1>1. InputsInv => SortIsSafe
  BY BatchIsSorted DEF InputsInv
<1> QED
  BY <1>1, InputsAlways, PTL

\* The retry and wait strategies give delays that a wait accepts, within their limits, as
\* often as they have attempts (DelaysAreBounded).
THEOREM DelaysStayBounded == Spec => []DelaysAreBounded
<1>1. InputsInv => DelaysAreBounded
  BY RetryBounds DEF InputsInv
<1> QED
  BY <1>1, InputsAlways, PTL

\* The batches of an ItemBatcher are the items, each once and in their order
\* (BatchesPartitionItems).
THEOREM ItemsArePartitioned == Spec => []BatchesPartitionItems
<1>1. InputsInv => BatchesPartitionItems
  BY ItemsPartitioned DEF InputsInv
<1> QED
  BY <1>1, InputsAlways, PTL

\* What contexts and races record of an error does not depend on which of them are
\* replayed, however deep they lie in each other (StoredErrorIsStable).
THEOREM ErrorsAreStable == Spec => []StoredErrorIsStable
<1>1. InputsInv => StoredErrorIsStable
  BY NestIsStable DEF InputsInv
<1> QED
  BY <1>1, InputsAlways, PTL

=============================================================================
