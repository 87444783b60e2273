----------------------------- MODULE Strategies -----------------------------
(***************************************************************************)
(* The delays of the retry strategies and of the wait strategy, and the    *)
(* batches of an ItemBatcher.                                              *)
(*                                                                         *)
(* A delay is a number of seconds, computed in fractions: <<n, d>> is n/d. *)
(* A multiplier is given in halves, and the factor of the jitter, which    *)
(* hangs on the attempt alone, in quarters: 4 stands for all of the delay, *)
(* which a factor close to 1 is rounded to.  An Option is a set of one     *)
(* value or none.                                                          *)
(***************************************************************************)
EXTENDS SequencesExt, Integers

Full == "full"
Half == "half"
NoJitter == "none"

\* JitterStrategy::apply
Jittered(jitter, delay, quarters) ==
  CASE jitter = NoJitter -> delay
    [] jitter = Full     -> <<delay[1] * quarters, delay[2] * 4>>
    [] jitter = Half     -> <<delay[1] * (4 + quarters), delay[2] * 8>>

\* Conversions of a delay of at least one second.
AtLeastOne(delay) == IF delay[1] < delay[2] THEN <<1, 1>> ELSE delay

Truncated(delay) == delay[1] \div delay[2]

Rounded(delay) == (2 * delay[1] + delay[2]) \div (2 * delay[2])

\* f64::powi, of a fraction's terms.
Power(n, exponent) ==
  LET P[k \in 0..exponent] == IF k = 0 THEN 1 ELSE n * P[k - 1]
  IN  P[exponent]

\* initial * multiplier ^ exponent, but no more than most.
Grown(initial, halves, exponent, most) ==
  LET n == initial * Power(halves, exponent)
      d == Power(2, exponent)
  IN  IF n > most * d THEN <<most, 1>> ELSE <<n, d>>

\* Mutant: the limit is set before the delay has grown.
ExponentialCappedFirst(s, attempt) ==
  <<(IF s.base > s.most THEN s.most ELSE s.base) * Power(s.halves, attempt), Power(2, attempt)>>

ExponentialBackoff(s, attempt) == Grown(s.base, s.halves, attempt, s.most)

FixedDelay(s, attempt) == <<s.base, 1>>

LinearBackoff(s, attempt) ==
  LET grown == s.base * (attempt + 1)
  IN  <<IF grown > s.most THEN s.most ELSE grown, 1>>

\* RetryStrategy::next_delay of the strategies that have attempts.
NextDelay(s, attempt, quarters) ==
  LET delay == CASE s.kind = "exponential" -> ExponentialBackoff(s, attempt)
                 [] s.kind = "fixed"       -> FixedDelay(s, attempt)
                 [] s.kind = "linear"      -> LinearBackoff(s, attempt)
  IN  IF attempt >= s.attempts THEN {}
      ELSE {Truncated(AtLeastOne(Jittered(s.jitter, delay, quarters)))}

Strategy(kind, attempts, base, most, halves, jitter) ==
  [kind |-> kind, attempts |-> attempts, base |-> base, most |-> most,
   halves |-> halves, jitter |-> jitter]

\* Duration::from_hours(1)
Hour == 3600

\* Duration::validate_for_wait: what a wait can be told to last.
ValidForWait(seconds) == seconds >= 1

NewExponentialBackoff(attempts, base) ==
  Strategy("exponential", attempts, base, Hour, 4, NoJitter)

NewFixedDelay(attempts, delay) == Strategy("fixed", attempts, delay, delay, 2, NoJitter)

NewLinearBackoff(attempts, base) == Strategy("linear", attempts, base, Hour, 2, NoJitter)

WithJitter(s, jitter) == [s EXCEPT !.jitter = jitter]

WithMaxDelay(s, most) == [s EXCEPT !.most = most]

DefaultBuilder == Strategy("exponential", 3, 1, Hour, 4, NoJitter)

\* NoRetry gives no delay, whatever the attempt.
NoRetry == NewFixedDelay(0, 1)

DefaultRetry ==
  [DefaultBuilder EXCEPT !.attempts = 6, !.base = 5, !.most = 60, !.halves = 4,
                         !.jitter = Full]

-----------------------------------------------------------------------------

\* create_wait_strategy: the delay before the next check, or none when polling is over.
WaitDecision(s, continues, attempts, quarters) ==
  LET most     == IF s.maxAttempts = {} THEN 60 ELSE CHOOSE k \in s.maxAttempts : TRUE
      exponent == IF attempts > 0 THEN attempts - 1 ELSE 0
      delay    == Grown(s.base, s.halves, exponent, s.most)
  IN  IF ~continues \/ attempts >= most THEN {}
      ELSE {Rounded(AtLeastOne(Jittered(s.jitter, delay, quarters)))}

\* WaitForConditionConfig::from_interval: a fixed delay, of whatever length.
IntervalDecision(interval, maxAttempts, attempts) ==
  IF \E k \in maxAttempts : attempts >= k THEN {} ELSE {interval}

-----------------------------------------------------------------------------
(* ItemBatcher.  An item is the size of its serialised form.               *)

NoBatches == [closed |-> <<>>, start |-> 1, current |-> <<>>, bytes |-> 0]

Exceeds(batcher, made, item) ==
  \/ Len(made.current) >= batcher.items
  \/ made.bytes + item > batcher.bytes /\ made.current # <<>>

Close(made) == Append(made.closed, [start |-> made.start, items |-> made.current])

\* Mutant: the size of a batch counts for the next one.
AddItemKeepingBytes(batcher, made, item, index) ==
  IF Exceeds(batcher, made, item)
  THEN [closed |-> Close(made), start |-> index, current |-> <<item>>,
        bytes |-> made.bytes + item]
  ELSE [made EXCEPT !.current = Append(@, item), !.bytes = @ + item]

AddItem(batcher, made, item, index) ==
  IF Exceeds(batcher, made, item)
  THEN [closed |-> Close(made), start |-> index, current |-> <<item>>, bytes |-> item]
  ELSE [made EXCEPT !.current = Append(@, item), !.bytes = @ + item]

\* ItemBatcher::batch: the batches, each with the index of its first item.
Batches(batcher, items) ==
  LET Made[i \in 0..Len(items)] ==
        IF i = 0 THEN NoBatches ELSE AddItem(batcher, Made[i - 1], items[i], i)
      made == Made[Len(items)]
  IN  IF made.current = <<>> THEN made.closed ELSE Close(made)

=============================================================================
