--------------------------- MODULE LetimerProofs ---------------------------
(***************************************************************************)
(* Letimer keeps its types, no wait ends early, and a call is signalled    *)
(* once at most: for every period, width, wait and number of calls.        *)
(***************************************************************************)
EXTENDS Letimer, TimerArithmeticProofs

-----------------------------------------------------------------------------
(* Types                                                                   *)

\* The wait of the call under way is one of the firmware's.
TicksFit == pc # "idle" => ticks \in 1..PERIOD_VALUE

\* rollover_count stays within its width.
LEMMA RolloversInRange ==
    ASSUME NEW n \in Int
    PROVE  n % RolloverModulus \in 0..RolloverModulus - 1
BY BoundsAssumption

\* Every step keeps the types and every pending wait within a period.
LEMMA TypeStep ==
    ASSUME TypeOK, TicksFit, [Next]_vars
    PROVE  TypeOK' /\ TicksFit'
<1> USE PeriodAssumption, BoundsAssumption DEF TypeOK, TicksFit, registers, call, Step
<1>1. ASSUME NEW us \in Waits, Call(us)
      PROVE  TypeOK' /\ TicksFit'
  BY <1>1, WaitsAssumption DEF Call
<1>2. ASSUME NEW us \in Waits, AdcIrq(us)
      PROVE  TypeOK' /\ TicksFit'
  <2>1. Ticks(us) \in 1..PERIOD_VALUE
    BY WaitsAssumption
  <2>2. comp1' \in 0..PERIOD_VALUE /\ left' \in Nat
    BY <1>2, <2>1, TargetTicksAway DEF AdcIrq
  <2>3. calls' \in 0..MaxCalls
    BY <1>2 DEF AdcIrq
  <2>4. /\ ifCOMP1' = FALSE /\ ienCOMP1' = TRUE
        /\ UNCHANGED <<cnt, ifUF, rollover_count, pc, ticks, count, signals,
                       raised, leftCall>>
    BY <1>2 DEF AdcIrq
  <2> QED
    BY <2>2, <2>3, <2>4
<1>3. CASE ReadCount
  BY <1>3 DEF ReadCount
<1>4. CASE SetCompare
  <2>1. comp1' \in 0..PERIOD_VALUE
    BY <1>4, TargetTicksAway DEF SetCompare
  <2> QED
    BY <1>4, <2>1 DEF SetCompare
<1>5. CASE ClearFlag
  BY <1>5 DEF ClearFlag
<1>6. CASE EnableIrq
  BY <1>6 DEF EnableIrq
<1>7. CASE LetimerIrq
  <2>1. rollover_count' \in 0..RolloverModulus - 1
    BY <1>7, RolloversInRange DEF LetimerIrq
  <2>2. signals' \subseteq {"UF", "COMP1"} /\ raised' \in Nat
    BY <1>7 DEF LetimerIrq
  <2>3. /\ ifUF' \in BOOLEAN /\ ifCOMP1' \in BOOLEAN /\ ienCOMP1' \in BOOLEAN
        /\ UNCHANGED <<cnt, comp1, pc, ticks, count, calls, left, leftCall>>
    BY <1>7 DEF LetimerIrq
  <2> QED
    BY <2>1, <2>2, <2>3
<1>8. CASE SignalsTaken
  BY <1>8 DEF SignalsTaken
<1>9. CASE Tick
  BY <1>9 DEF Tick, Decrement
<1>10. CASE UNCHANGED vars
  BY <1>10 DEF vars
<1> QED
  BY <1>1, <1>2, <1>3, <1>4, <1>5, <1>6, <1>7, <1>8, <1>9, <1>10 DEF Next

\* The timer starts with registers and locals in range.
LEMMA TypeInit == Init => TypeOK /\ TicksFit
<1> SUFFICES ASSUME Init PROVE TypeOK /\ TicksFit
  OBVIOUS
<1>1. /\ cnt = PERIOD_VALUE /\ comp1 = 0 /\ count = 0
      /\ rollover_count = 0 /\ calls = 0
      /\ ticks = 0 /\ raised = 0 /\ left = 0 /\ leftCall = 0
  BY DEF Init
<1>2. /\ ifUF = FALSE /\ ifCOMP1 = FALSE /\ ienCOMP1 = FALSE
      /\ pc = "idle" /\ signals = {}
  BY DEF Init
<1>3. /\ PERIOD_VALUE \in 0..PERIOD_VALUE /\ 0 \in 0..PERIOD_VALUE
      /\ 0 \in 0..RolloverModulus - 1 /\ 0 \in 0..MaxCalls
  BY PeriodAssumption, BoundsAssumption
<1>4. /\ cnt \in 0..PERIOD_VALUE /\ comp1 \in 0..PERIOD_VALUE
      /\ count \in 0..PERIOD_VALUE
      /\ rollover_count \in 0..RolloverModulus - 1 /\ calls \in 0..MaxCalls
      /\ ticks \in Nat /\ raised \in Nat /\ left \in Nat /\ leftCall \in Nat
  BY <1>1, <1>3
<1> QED
  BY <1>2, <1>4 DEF TypeOK, TicksFit

\* The variables keep their types; in particular every value that is written to
\* COMP1 is one that the counter shows.
THEOREM TypeCorrect == Spec => []TypeOK
<1>1. Init => TypeOK /\ TicksFit
  BY TypeInit
<1>2. TypeOK /\ TicksFit /\ [Next]_vars => TypeOK' /\ TicksFit'
  BY TypeStep
<1> QED
  BY <1>1, <1>2, PTL DEF Spec

-----------------------------------------------------------------------------
(* The wait in the register                                                *)

\* What is left of a wait is the way of the counter to its compare value, or
\* nothing when the caller was preempted until the counter had passed it.
LeftExact == left = 0 \/ left = TicksUntil(cnt, comp1)

\* The same for the wait whose compare value is still to be written.
LeftCallExact ==
    pc = "compare" => leftCall = 0 \/ leftCall = TicksUntil(cnt, Target(count, ticks))

\* A flag that is, or is about to be, let through is not a stale one.
FlagFresh == ifCOMP1 /\ (ienCOMP1 \/ pc = "enable") => left = 0

WaitInv == LeftExact /\ LeftCallExact /\ FlagFresh

\* What is left of a wait after a tick.
LEMMA TickCounts ==
    ASSUME NEW n \in 0..PERIOD_VALUE, NEW c \in 0..PERIOD_VALUE, NEW l \in Nat,
           l = 0 \/ l = TicksUntil(n, c)
    PROVE  /\ Decrement(l) = 0 \/ Decrement(l) = TicksUntil(Down(n), c)
           /\ Down(n) = c \/ l = 0 => Decrement(l) = 0
BY TickCloser DEF Decrement

\* Every step keeps what COMP1 is set to equal to what is left of the wait.
LEMMA WaitStep ==
    ASSUME TypeOK, TypeOK', TicksFit, WaitInv, [Next]_vars
    PROVE  WaitInv'
<1> USE DEF WaitInv, LeftExact, LeftCallExact, FlagFresh, Step
<1>1. ASSUME NEW us \in Waits, Call(us)
      PROVE  WaitInv'
  BY <1>1 DEF Call, registers
<1>2. ASSUME NEW us \in Waits, AdcIrq(us)
      PROVE  WaitInv'
  <2>1. TicksUntil(cnt, comp1') = left'
    BY <1>2, WaitsAssumption, TargetTicksAway DEF AdcIrq, TypeOK
  <2> QED
    BY <1>2, <2>1 DEF AdcIrq, call
<1>3. CASE ReadCount
  <2>1. TicksUntil(cnt, Target(count', ticks)) = leftCall'
    BY <1>3, TargetTicksAway DEF ReadCount, TypeOK, TicksFit
  <2> QED
    BY <1>3, <2>1 DEF ReadCount, registers
<1>4. CASE SetCompare
  BY <1>4 DEF SetCompare, IrqPending
<1>5. CASE ClearFlag
  BY <1>5 DEF ClearFlag
<1>6. CASE EnableIrq
  BY <1>6 DEF EnableIrq
<1>7. CASE LetimerIrq
  BY <1>7 DEF LetimerIrq, call, TypeOK
<1>8. CASE SignalsTaken
  BY <1>8 DEF SignalsTaken, registers, call
<1>9. CASE Tick
  <2>1. /\ cnt' = Down(cnt)
        /\ ifCOMP1' = (ifCOMP1 \/ cnt' = comp1)
        /\ left' = Decrement(left) /\ leftCall' = Decrement(leftCall)
        /\ UNCHANGED <<comp1, ienCOMP1, pc, ticks, count>>
    BY <1>9 DEF Tick, call, Down
  <2>2. LeftExact' /\ (cnt' = comp1 \/ left = 0 => left' = 0)
    BY <2>1, TickCounts DEF TypeOK
  <2>3. FlagFresh'
    BY <2>1, <2>2
  <2>4. LeftCallExact'
    <3>1. CASE pc = "compare"
      <4>1. Target(count, ticks) \in 0..PERIOD_VALUE
        BY <3>1, TargetTicksAway DEF TypeOK, TicksFit
      <4> QED
        BY <2>1, <3>1, <4>1, TickCounts DEF TypeOK
    <3>2. CASE pc # "compare"
      BY <2>1, <3>2
    <3> QED
      BY <3>1, <3>2
  <2> QED
    BY <2>2, <2>3, <2>4
<1>10. CASE UNCHANGED vars
  BY <1>10 DEF vars, registers, call
<1> QED
  BY <1>1, <1>2, <1>3, <1>4, <1>5, <1>6, <1>7, <1>8, <1>9, <1>10 DEF Next

\* COMP1 is never signalled before the wait in the register is over: neither a
\* flag of an earlier match nor the other caller of timerWaitUs_irq, anywhere in
\* its four register accesses, can cut a wait short.
THEOREM WaitsNeverEarly == Spec => []NeverEarly
<1>1. Init => TypeOK /\ TicksFit /\ WaitInv
  <2>1. Init => WaitInv
    BY DEF Init, WaitInv, LeftExact, LeftCallExact, FlagFresh
  <2>2. Init => TicksFit
    BY DEF Init, TicksFit
  <2> QED
    BY <2>1, <2>2, TypeInit
<1>2. TypeOK /\ TicksFit /\ [Next]_vars => TypeOK' /\ TicksFit'
  BY TypeStep
<1>3. TypeOK /\ TypeOK' /\ TicksFit /\ WaitInv /\ [Next]_vars => WaitInv'
  BY WaitStep
<1>4. WaitInv => NeverEarly
  BY DEF WaitInv, FlagFresh, NeverEarly
<1> QED
  BY <1>1, <1>2, <1>3, <1>4, PTL DEF Spec

-----------------------------------------------------------------------------
\* Calls under way and enabled interrupts still to be signalled are backed by a
\* call of their own.
CallsBacked ==
    raised + (IF ienCOMP1 THEN 1 ELSE 0) + (IF pc = "idle" THEN 0 ELSE 1) <= calls

\* COMP1 is signalled once per call at most, although the compare value matches
\* in every period: LETIMER0_IRQHandler turns the interrupt off.
THEOREM OnceSignalled == Spec => []OneSignalPerCall
<1>1. Init => CallsBacked
  BY DEF Init, CallsBacked
<1>2. TypeOK /\ CallsBacked /\ [Next]_vars => CallsBacked'
  <2> SUFFICES ASSUME TypeOK, CallsBacked, [Next]_vars PROVE CallsBacked'
    OBVIOUS
  <2>0. raised \in Nat /\ calls \in Nat
    BY DEF TypeOK
  <2> USE <2>0 DEF CallsBacked, Step
  <2>1. ASSUME NEW us \in Waits, Call(us)
        PROVE  CallsBacked'
    BY <2>1 DEF Call, registers
  <2>2. ASSUME NEW us \in Waits, AdcIrq(us)
        PROVE  CallsBacked'
    BY <2>2 DEF AdcIrq, call
  <2>3. CASE ReadCount \/ SetCompare \/ ClearFlag
    BY <2>3 DEF ReadCount, SetCompare, ClearFlag, registers
  <2>4. CASE EnableIrq
    BY <2>4 DEF EnableIrq
  <2>5. CASE LetimerIrq
    <3>1. UNCHANGED <<pc, calls>>
      BY <2>5 DEF LetimerIrq, call
    <3>2. CASE ifCOMP1 /\ ienCOMP1
      <4>1. raised' = raised + 1
        BY <2>5, <3>2 DEF LetimerIrq
      <4>2. ienCOMP1' = FALSE
        BY <2>5, <3>2, Zenon DEF LetimerIrq
      <4> QED
        BY <3>1, <3>2, <4>1, <4>2
    <3>3. CASE ~(ifCOMP1 /\ ienCOMP1)
      <4>1. raised' = raised
        BY <2>5, <3>3 DEF LetimerIrq
      <4>2. ienCOMP1' => ienCOMP1
        BY <2>5, Zenon DEF LetimerIrq
      <4> QED
        BY <3>1, <4>1, <4>2
    <3> QED
      BY <3>2, <3>3
  <2>6. CASE SignalsTaken \/ Tick
    <3>1. UNCHANGED <<raised, ienCOMP1, pc, calls>>
      BY <2>6 DEF SignalsTaken, Tick, registers, call
    <3> QED
      BY <3>1
  <2>7. CASE UNCHANGED vars
    BY <2>7 DEF vars, registers, call
  <2> QED
    BY <2>1, <2>2, <2>3, <2>4, <2>5, <2>6, <2>7 DEF Next
<1>3. TypeOK /\ CallsBacked => OneSignalPerCall
  BY DEF TypeOK, CallsBacked, OneSignalPerCall
<1> QED
  BY <1>1, <1>2, <1>3, TypeCorrect, PTL DEF Spec
=============================================================================
