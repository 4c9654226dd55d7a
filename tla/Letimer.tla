------------------------------ MODULE Letimer ------------------------------
(***************************************************************************)
(* LETIMER0, its interrupt handler (irq.c) and the two callers of          *)
(* timerWaitUs_irq (timers.c) that share its only compare channel: the     *)
(* event handlers, here register access by register access, and            *)
(* ADC0_IRQHandler, which preempts them anywhere.  LETIMER0's interrupt is *)
(* taken before the event handlers run on, but ticks may pass before it    *)
(* is: the handlers log, and the two interrupts have the same priority.    *)
(***************************************************************************)
EXTENDS TimerArithmetic

CONSTANTS
    Waits,         \* microseconds the callers ask for
    MaxCalls,      \* bound: calls of timerWaitUs_irq
    RolloverModulus  \* rollover_count is an int: 2^32 in the code

ASSUME BoundsAssumption == /\ MaxCalls \in Nat
                           /\ RolloverModulus \in Nat \ {0}

\* The waits of the firmware take a tick at least and end within a period.
ASSUME WaitsAssumption == \A us \in Waits : us \in Nat /\ Ticks(us) \in 1..PERIOD_VALUE

VARIABLES
    cnt, comp1,            \* registers CNT and COMP1
    ifUF, ifCOMP1,         \* flags in IF
    ienCOMP1,              \* COMP1's bit in IEN (UF's is always set)
    rollover_count,
    pc, ticks, count,      \* the event handler's call: next access, locals
    signals,               \* external signals raised for the application
    calls,                 \* calls made so far
    raised,                \* times COMP1 was signalled
    left, leftCall         \* ticks left of the wait in COMP1, of the call's wait

registers == <<cnt, comp1, ifUF, ifCOMP1, ienCOMP1>>
call      == <<pc, ticks, count>>
vars      == <<registers, rollover_count, call, signals, calls, raised, left, leftCall>>

Init ==
    /\ cnt = PERIOD_VALUE
    /\ comp1 = 0
    /\ ifUF = FALSE
    /\ ifCOMP1 = FALSE
    /\ ienCOMP1 = FALSE
    /\ rollover_count = 0
    /\ pc = "idle"
    /\ ticks = 0
    /\ count = 0
    /\ signals = {}
    /\ calls = 0
    /\ raised = 0
    /\ left = 0
    /\ leftCall = 0

IrqPending == ifUF \/ (ifCOMP1 /\ ienCOMP1)

Step(from, to) == pc = from /\ pc' = to /\ ~IrqPending

-----------------------------------------------------------------------------
(* timerWaitUs_irq called from an event handler                            *)

Call(us) ==
    /\ Step("idle", "count")
    /\ calls < MaxCalls
    /\ calls' = calls + 1
    /\ ticks' = Ticks(us)
    /\ UNCHANGED <<registers, rollover_count, count, signals, raised, left, leftCall>>

ReadCount ==
    /\ Step("count", "compare")
    /\ count' = cnt
    /\ leftCall' = ticks
    /\ UNCHANGED <<registers, rollover_count, ticks, signals, calls, raised, left>>

SetCompare ==
    /\ Step("compare", "clear")
    /\ comp1' = Target(count, ticks)
    /\ left' = leftCall
    /\ UNCHANGED <<cnt, ifUF, ifCOMP1, ienCOMP1, rollover_count, ticks, count,
                   signals, calls, raised, leftCall>>

\* Mutant: the flag of an earlier match is left standing.
ClearNothing ==
    /\ Step("clear", "enable")
    /\ UNCHANGED <<registers, rollover_count, ticks, count, signals, calls, raised,
                   left, leftCall>>

ClearFlag ==
    /\ Step("clear", "enable")
    /\ ifCOMP1' = FALSE
    /\ UNCHANGED <<cnt, comp1, ifUF, ienCOMP1, rollover_count, ticks, count,
                   signals, calls, raised, left, leftCall>>

EnableIrq ==
    /\ Step("enable", "idle")
    /\ ienCOMP1' = TRUE
    /\ UNCHANGED <<cnt, comp1, ifUF, ifCOMP1, rollover_count, ticks, count,
                   signals, calls, raised, left, leftCall>>

-----------------------------------------------------------------------------
(* Interrupts and the counter                                              *)

\* timerWaitUs_irq called from ADC0_IRQHandler
AdcIrq(us) ==
    /\ calls < MaxCalls
    /\ calls' = calls + 1
    /\ comp1' = Target(cnt, Ticks(us))
    /\ left' = Ticks(us)
    /\ ifCOMP1' = FALSE
    /\ ienCOMP1' = TRUE
    /\ UNCHANGED <<cnt, ifUF, rollover_count, call, signals, raised, leftCall>>

\* Mutant: the interrupt stays enabled.
LetimerIrqStaysEnabled ==
    /\ IrqPending
    /\ ifUF' = FALSE
    /\ ifCOMP1' = (ifCOMP1 /\ ~ienCOMP1)
    /\ rollover_count' =
           (rollover_count + (IF ifUF THEN 1 ELSE 0)) % RolloverModulus
    /\ signals' = signals \cup (IF ifUF THEN {"UF"} ELSE {})
                          \cup (IF ifCOMP1 /\ ienCOMP1 THEN {"COMP1"} ELSE {})
    /\ raised' = raised + (IF ifCOMP1 /\ ienCOMP1 THEN 1 ELSE 0)
    /\ UNCHANGED <<cnt, comp1, ienCOMP1, call, calls, left, leftCall>>

\* LETIMER0_IRQHandler: LETIMER_IntGetEnabled gives the enabled flags only.
LetimerIrq ==
    /\ IrqPending
    /\ ifUF' = FALSE
    /\ ifCOMP1' = (ifCOMP1 /\ ~ienCOMP1)
    /\ ienCOMP1' = (ienCOMP1 /\ ~ifCOMP1)
    /\ rollover_count' =
           (rollover_count + (IF ifUF THEN 1 ELSE 0)) % RolloverModulus
    /\ signals' = signals \cup (IF ifUF THEN {"UF"} ELSE {})
                          \cup (IF ifCOMP1 /\ ienCOMP1 THEN {"COMP1"} ELSE {})
    /\ raised' = raised + (IF ifCOMP1 /\ ienCOMP1 THEN 1 ELSE 0)
    /\ UNCHANGED <<cnt, comp1, call, calls, left, leftCall>>

\* The application has handled the signals.
SignalsTaken ==
    /\ signals # {}
    /\ signals' = {}
    /\ UNCHANGED <<registers, rollover_count, call, calls, raised, left, leftCall>>

Decrement(n) == IF n = 0 THEN 0 ELSE n - 1

Tick ==
    /\ ~(cnt = 0 /\ ifUF)   \* an underflow is served within a period
    /\ cnt' = IF cnt = 0 THEN PERIOD_VALUE ELSE cnt - 1
    /\ ifUF' = (ifUF \/ cnt = 0)
    /\ ifCOMP1' = (ifCOMP1 \/ cnt' = comp1)
    /\ left' = Decrement(left)
    /\ leftCall' = Decrement(leftCall)
    /\ UNCHANGED <<comp1, ienCOMP1, rollover_count, call, signals, calls, raised>>

Next ==
    \/ \E us \in Waits : Call(us) \/ AdcIrq(us)
    \/ ReadCount \/ SetCompare \/ ClearFlag \/ EnableIrq
    \/ LetimerIrq
    \/ SignalsTaken
    \/ Tick

Spec == Init /\ [][Next]_vars

\* The timer runs, interrupts are served, and a handler that was called goes on
\* between interrupts: serving one takes far less than the time to the next.
FairSpec ==
    /\ Spec
    /\ WF_vars(Tick)
    /\ WF_vars(LetimerIrq)
    /\ SF_vars(ReadCount \/ SetCompare \/ ClearFlag \/ EnableIrq)

-----------------------------------------------------------------------------
TypeOK ==
    /\ cnt \in 0..PERIOD_VALUE
    /\ comp1 \in 0..PERIOD_VALUE
    /\ ifUF \in BOOLEAN
    /\ ifCOMP1 \in BOOLEAN
    /\ ienCOMP1 \in BOOLEAN
    /\ rollover_count \in 0..RolloverModulus - 1
    /\ pc \in {"idle", "count", "compare", "clear", "enable"}
    /\ ticks \in Nat
    /\ count \in 0..PERIOD_VALUE
    /\ signals \subseteq {"UF", "COMP1"}
    /\ calls \in 0..MaxCalls
    /\ raised \in Nat
    /\ left \in Nat
    /\ leftCall \in Nat

\* COMP1 is never signalled before the wait whose compare value is in the
\* register is over, wherever the other caller or a stale flag intervenes.
NeverEarly == (ifCOMP1 /\ ienCOMP1) => left = 0

\* COMP1 is signalled at most once per call, although the compare value matches
\* in every period that follows.
OneSignalPerCall == raised <= calls

\* A wait that was started ends, also one whose compare value the counter has
\* passed while the caller was preempted.
EveryWaitEnds == (pc = "enable" \/ ienCOMP1) ~> (pc = "idle" /\ ~ienCOMP1)

\* irq.c, on letimerMilliseconds: the function returns "the current millisec
\* elapsed in the program since start" (checked when no underflow is pending,
\* and with a millisecond to spare).
MillisecondsElapsed ==
    ~ifUF => letimerMilliseconds(rollover_count, cnt)
                 \in 0..Elapsed(rollover_count, cnt) + 1
=============================================================================
