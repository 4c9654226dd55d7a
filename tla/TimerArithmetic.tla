-------------------------- MODULE TimerArithmetic --------------------------
(***************************************************************************)
(* How timerWaitUs_irq and timerWaitUs_polled (timers.c) turn a wait into  *)
(* a value of LETIMER0's compare register or counter, and how irq.c turns  *)
(* the counter into milliseconds.  LETIMER0 counts down from PERIOD_VALUE  *)
(* to 0 and is reloaded on the next tick: a period has PERIOD_VALUE + 1    *)
(* ticks.                                                                  *)
(***************************************************************************)
EXTENDS Integers

CONSTANTS
    PERIOD_VALUE,
    PeriodMs,        \* the 3000 of letimerMilliseconds
    CountModulus,    \* 2^16: current_count and required_count are uint16_t
    TickNum, TickDen, WordModulus
        \* a microsecond is freq / 1000000 = TickNum / TickDen ticks; the product
        \* is a uint32_t.  With the factor 64 that freq = 8192 and 1000000 share
        \* cancelled these are 128, 15625 and 2^32 / 64.

ASSUME PeriodAssumption == PERIOD_VALUE \in Nat \ {0}
ASSUME CountAssumption == CountModulus \in Nat /\ CountModulus > 2 * PERIOD_VALUE + 1
ASSUME RateAssumption == /\ TickNum \in Nat \ {0}
                         /\ TickDen \in Nat \ {0}
                         /\ WordModulus \in Nat \ {0}
                         /\ PeriodMs \in Nat

Min_wait == 1000
Max_wait == 3000000

Clamp(us) == CASE us < Min_wait -> Min_wait
               [] us > Max_wait -> Max_wait
               [] OTHER -> us

\* Ticks to wait: the product wraps at the word's width.
Ticks(us) == (((Clamp(us) * TickNum) % WordModulus) \div TickDen) % CountModulus

\* Mutant: the period taken to have PERIOD_VALUE ticks.
TargetShortPeriod(count, ticks) ==
    LET required == (count - ticks) % CountModulus
    IN  IF required < PERIOD_VALUE
        THEN required
        ELSE (PERIOD_VALUE - (CountModulus - required)) % CountModulus

\* Mutant: the case of the subtraction that wraps is missing.
TargetNeverWraps(count, ticks) == (count - ticks) % CountModulus

\* The compare value for a wait that starts when the counter shows count.
Target(count, ticks) ==
    LET required == (count - ticks) % CountModulus
    IN  IF required < PERIOD_VALUE
        THEN required
        ELSE (PERIOD_VALUE - (CountModulus - 1 - required)) % CountModulus

\* timerWaitUs_polled waits for the counter to show this value; its ticks are the
\* milliseconds it was asked for.
PolledTarget(count, ticks) ==
    IF count >= ticks THEN (count - ticks) % CountModulus
                      ELSE PERIOD_VALUE - (ticks - count)

\* Reference: the ticks until a counter that shows count shows target.
TicksUntil(count, target) == (count - target) % (PERIOD_VALUE + 1)

letimerMilliseconds(rollovers, count) ==
    rollovers * PeriodMs + (PERIOD_VALUE - count)

\* Reference: the milliseconds since the timer was started.
Elapsed(rollovers, count) ==
    ((rollovers * (PERIOD_VALUE + 1) + PERIOD_VALUE - count) * TickDen)
        \div (TickNum * 1000)
=============================================================================
