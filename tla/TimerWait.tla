----------------------------- MODULE TimerWait -----------------------------
(***************************************************************************)
(* timerWaitUs_irq (timers.c), called at any count with any of the         *)
(* requested times: what it writes to the compare register against what it *)
(* was asked for.                                                          *)
(***************************************************************************)
EXTENDS TimerArithmeticProofs

CONSTANTS Waits   \* microseconds callers ask for

\* The waits of the firmware take a tick at least and end within a period.
ASSUME WaitsAssumption ==
    \A us \in Waits : us \in Nat /\ Ticks(us) \in 1..PERIOD_VALUE

VARIABLES
    us_wait, current_count,
    ticks, comp1              \* once the function was called

vars == <<us_wait, current_count, ticks, comp1>>

Init == /\ us_wait \in Waits
        /\ current_count \in 0..PERIOD_VALUE
        /\ ticks = 0
        /\ comp1 = 0

timerWaitUs_irq ==
    /\ ticks = 0
    /\ ticks' = Ticks(us_wait)
    /\ comp1' = Target(current_count, ticks')
    /\ UNCHANGED <<us_wait, current_count>>

Next == timerWaitUs_irq

Spec == Init /\ [][Next]_vars

\* Wherever in the period the wait starts, the compare value is one the counter
\* passes, exactly the computed number of ticks later: also when the count is
\* too small for the wait and the subtraction wraps.
TargetIsTicksAway ==
    ticks # 0 => /\ comp1 \in 0..PERIOD_VALUE
                 /\ TicksUntil(current_count, comp1) = ticks

\* timers.c, on timerWaitUs_irq: it creates a "delay based on the input value
\* given in microseconds".  Reference: the ticks of the request, not wrapped.
WaitIsAsRequested ==
    ticks # 0 => ticks = (Clamp(us_wait) * TickNum) \div TickDen

-----------------------------------------------------------------------------
\* Every wait that fits in a period gets its compare value right at every count
\* (timerWaitUs_irq).
THEOREM WaitsTargeted == Spec => []TargetIsTicksAway
<1> DEFINE Inv == /\ us_wait \in Waits /\ current_count \in 0..PERIOD_VALUE
                  /\ TargetIsTicksAway
<1>1. Init => Inv
  BY DEF Init, TargetIsTicksAway
<1>2. Inv /\ [Next]_vars => Inv'
  <2>1. ASSUME Inv, timerWaitUs_irq
        PROVE  Inv'
    <3>1. ticks' \in 1..PERIOD_VALUE
      BY <2>1, WaitsAssumption DEF timerWaitUs_irq
    <3>2. /\ comp1' \in 0..PERIOD_VALUE
          /\ TicksUntil(current_count, comp1') = ticks'
      BY <2>1, <3>1, TargetTicksAway DEF timerWaitUs_irq
    <3> QED
      BY <2>1, <3>2 DEF timerWaitUs_irq, TargetIsTicksAway
  <2>2. ASSUME Inv, UNCHANGED vars
        PROVE  Inv'
    BY <2>2 DEF vars, TargetIsTicksAway
  <2> QED
    BY <2>1, <2>2 DEF Next
<1>3. Inv => TargetIsTicksAway
  OBVIOUS
<1> QED
  BY <1>1, <1>2, <1>3, PTL DEF Spec
=============================================================================
