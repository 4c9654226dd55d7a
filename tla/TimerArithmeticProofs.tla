----------------------- MODULE TimerArithmeticProofs -----------------------
(***************************************************************************)
(* The arithmetic of timerWaitUs_irq and of the counter, for every period  *)
(* and every width that holds two of them.                                 *)
(***************************************************************************)
EXTENDS TimerArithmetic, TLAPS

\* A remainder is the number itself within the width, and one width more
\* below it.
LEMMA Wraps ==
    ASSUME NEW m \in Nat \ {0}, NEW x \in Int, -m <= x, x < m
    PROVE  x % m = IF x < 0 THEN x + m ELSE x
OBVIOUS

\* Wherever in the period a wait starts, the compare value is one that the
\* counter passes, exactly ticks later (timerWaitUs_irq, both of its cases).
THEOREM TargetTicksAway ==
    ASSUME NEW n \in 0..PERIOD_VALUE, NEW t \in 1..PERIOD_VALUE
    PROVE  /\ Target(n, t) \in 0..PERIOD_VALUE
           /\ TicksUntil(n, Target(n, t)) = t
<1> DEFINE required == (n - t) % CountModulus
<1>0. /\ PERIOD_VALUE \in Nat \ {0} /\ CountModulus \in Nat
      /\ CountModulus > 2 * PERIOD_VALUE + 1
  BY PeriodAssumption, CountAssumption
<1>1. required = IF n < t THEN n - t + CountModulus ELSE n - t
  <2>1. /\ CountModulus \in Nat \ {0} /\ n - t \in Int
        /\ -CountModulus <= n - t /\ n - t < CountModulus /\ (n - t < 0 <=> n < t)
    BY <1>0
  <2> HIDE DEF required
  <2>2. (n - t) % CountModulus = IF n - t < 0 THEN n - t + CountModulus ELSE n - t
    BY <2>1, Wraps
  <2> QED
    BY <2>1, <2>2 DEF required
<1>2. PERIOD_VALUE + 1 \in Nat \ {0}
  BY <1>0
<1>3. CASE n >= t
  <2>1. Target(n, t) = n - t
    BY <1>0, <1>1, <1>3 DEF Target
  <2>2. n - Target(n, t) = t /\ t \in Int /\ -(PERIOD_VALUE + 1) <= t /\ t < PERIOD_VALUE + 1
        /\ ~(t < 0)
    BY <1>0, <2>1
  <2>3. t % (PERIOD_VALUE + 1) = t
    BY <1>2, <2>2, Wraps
  <2>4. n - t \in 0..PERIOD_VALUE
    BY <1>0, <1>3
  <2> QED
    BY <2>1, <2>2, <2>3, <2>4 DEF TicksUntil
<1>4. CASE n < t
  <2> DEFINE target == n - t + PERIOD_VALUE + 1
  <2>1. ~(required < PERIOD_VALUE)
    BY <1>0, <1>1, <1>4
  <2>2. PERIOD_VALUE - (CountModulus - 1 - required) = target
    BY <1>0, <1>1, <1>4
  <2>3. Target(n, t) = target % CountModulus
    BY <2>1, <2>2 DEF Target
  <2>4. /\ target \in 0..PERIOD_VALUE
        /\ CountModulus \in Nat \ {0} /\ target \in Int
        /\ -CountModulus <= target /\ target < CountModulus /\ ~(target < 0)
    BY <1>0, <1>4
  <2>5. /\ n - target = t - (PERIOD_VALUE + 1) /\ n - target \in Int
        /\ -(PERIOD_VALUE + 1) <= n - target /\ n - target < 0
        /\ n - target < PERIOD_VALUE + 1
        /\ n - target + (PERIOD_VALUE + 1) = t
    BY <1>0, <1>4
  <2> HIDE DEF target
  <2>6. Target(n, t) = target
    BY <2>3, <2>4, Wraps
  <2>7. (n - target) % (PERIOD_VALUE + 1) = t
    BY <1>2, <2>5, Wraps
  <2> QED
    BY <2>4, <2>6, <2>7 DEF TicksUntil
<1> QED
  BY <1>0, <1>3, <1>4

\* The ticks until a value is shown, without the remainder.
LEMMA TicksUntilValue ==
    ASSUME NEW n \in 0..PERIOD_VALUE, NEW c \in 0..PERIOD_VALUE
    PROVE  TicksUntil(n, c) = IF n < c THEN n - c + PERIOD_VALUE + 1 ELSE n - c
<1>1. /\ PERIOD_VALUE + 1 \in Nat \ {0} /\ n - c \in Int
      /\ -(PERIOD_VALUE + 1) <= n - c /\ n - c < PERIOD_VALUE + 1
      /\ (n - c < 0 <=> n < c)
  BY PeriodAssumption
<1>2. (n - c) % (PERIOD_VALUE + 1) = IF n - c < 0 THEN n - c + (PERIOD_VALUE + 1)
                                                  ELSE n - c
  BY <1>1, Wraps
<1> QED
  BY <1>1, <1>2, PeriodAssumption DEF TicksUntil

\* The value timerWaitUs_polled compares the counter with is one that the counter
\* shows, the ticks of the wait away and, unlike timerWaitUs_irq's, one more across
\* the reload (both cases).  Ticks, not the time asked for; and not that the loop
\* sees it: it compares for equality, and what runs between two of its reads is not
\* modelled.
THEOREM PolledTargetReached ==
    ASSUME NEW n \in 0..PERIOD_VALUE, NEW t \in 1..PERIOD_VALUE - 1
    PROVE  /\ PolledTarget(n, t) \in 0..PERIOD_VALUE
           /\ TicksUntil(n, PolledTarget(n, t)) = t + (IF n < t THEN 1 ELSE 0)
<1>0. /\ PERIOD_VALUE \in Nat \ {0} /\ CountModulus \in Nat
      /\ CountModulus > 2 * PERIOD_VALUE + 1
  BY PeriodAssumption, CountAssumption
<1>1. CASE n >= t
  <2>1. /\ CountModulus \in Nat \ {0} /\ n - t \in Int
        /\ -CountModulus <= n - t /\ n - t < CountModulus /\ ~(n - t < 0)
    BY <1>0, <1>1
  <2>2. (n - t) % CountModulus = n - t
    BY <2>1, Wraps
  <2>3. PolledTarget(n, t) = n - t
    BY <1>1, <2>2 DEF PolledTarget
  <2>4. n - t \in 0..PERIOD_VALUE /\ ~(n < n - t) /\ n - (n - t) = t /\ ~(n < t)
    BY <1>0, <1>1
  <2> QED
    BY <2>3, <2>4, TicksUntilValue
<1>2. CASE n < t
  <2> DEFINE target == PERIOD_VALUE - (t - n)
  <2>1. PolledTarget(n, t) = target
    BY <1>2 DEF PolledTarget
  <2>2. /\ target \in 0..PERIOD_VALUE /\ n < target
        /\ n - target + PERIOD_VALUE + 1 = t + 1
    BY <1>0, <1>2
  <2> HIDE DEF target
  <2>3. TicksUntil(n, target) = n - target + PERIOD_VALUE + 1
    BY <2>2, TicksUntilValue
  <2> QED
    BY <1>2, <2>1, <2>2, <2>3
<1> QED
  BY <1>1, <1>2

\* The counter after a tick.
Down(n) == IF n = 0 THEN PERIOD_VALUE ELSE n - 1

\* A tick brings the value a tick closer, until it is shown.
LEMMA TickCloser ==
    ASSUME NEW n \in 0..PERIOD_VALUE, NEW c \in 0..PERIOD_VALUE
    PROVE  /\ Down(n) \in 0..PERIOD_VALUE
           /\ TicksUntil(n, c) \in Nat
           /\ TicksUntil(n, c) # 0 => TicksUntil(Down(n), c) = TicksUntil(n, c) - 1
           /\ Down(n) = c => TicksUntil(n, c) \in {0, 1}
<1>1. Down(n) \in 0..PERIOD_VALUE
  BY PeriodAssumption DEF Down
<1>2. /\ TicksUntil(n, c) = IF n < c THEN n - c + PERIOD_VALUE + 1 ELSE n - c
      /\ TicksUntil(Down(n), c) = IF Down(n) < c THEN Down(n) - c + PERIOD_VALUE + 1
                                                 ELSE Down(n) - c
  BY <1>1, TicksUntilValue
<1> QED
  BY <1>1, <1>2, PeriodAssumption DEF Down
=============================================================================
