----------------------- MODULE IndicationQueueProofs -----------------------
(***************************************************************************)
(* IndicationQueue keeps its types and implements BoundedFifo, for every   *)
(* QUEUE_DEPTH, every kind of entry and every width of the counter.        *)
(***************************************************************************)
EXTENDS IndicationQueue, SequenceTheorems, TLAPS

\* nextPtr stays inside the array.
LEMMA NextPtrInSlots ==
    ASSUME NEW p \in Slots
    PROVE  nextPtr(p) \in Slots
BY DepthAssumption DEF Slots, nextPtr

\* Arithmetic modulo the width of the counter stays within the width.
LEMMA CounterInRange ==
    ASSUME NEW n \in Int
    PROVE  n % CounterModulus \in 0..CounterModulus - 1
BY ModulusAssumption

\* The variables keep their types: the pointers stay inside my_queue wherever
\* they wrap, and the counter that is only decremented within its width.
THEOREM TypeCorrect == Spec => []TypeOK
<1>1. Init => TypeOK
  <2>1. ZeroEntry \in Entries
    BY ContentsAssumption, LengthsAssumption DEF ZeroEntry, Entries
  <2>2. 0 \in Slots /\ 0 \in 0..CounterModulus - 1
    BY DepthAssumption, ModulusAssumption DEF Slots
  <2> QED
    BY <2>1, <2>2 DEF Init, TypeOK
<1>2. TypeOK /\ [Next]_vars => TypeOK'
  <2> SUFFICES ASSUME TypeOK, [Next]_vars PROVE TypeOK'
    OBVIOUS
  <2> USE DEF TypeOK
  <2>1. ASSUME NEW c \in Contents, NEW n \in Lengths, write_queue(c, n)
        PROVE  TypeOK'
    BY <2>1, NextPtrInSlots DEF write_queue, Entries
  <2>2. CASE SoftTimer1
    <3>1. entry' \in Entries /\ rptr' \in Slots
      BY <2>2, NextPtrInSlots DEF SoftTimer1, read_queue
    <3>2. queue_entries' \in 0..CounterModulus - 1
      BY <2>2, CounterInRange, ModulusAssumption DEF SoftTimer1
    <3> QED
      BY <2>2, <3>1, <3>2 DEF SoftTimer1, read_queue
  <2>3. CASE InFlightCleared
    BY <2>3 DEF InFlightCleared
  <2>4. CASE UNCHANGED vars
    BY <2>4 DEF vars
  <2> QED
    BY <2>1, <2>2, <2>3, <2>4 DEF Next
<1> QED
  BY <1>1, <1>2, PTL DEF Spec

-----------------------------------------------------------------------------
\* get_queue_depth counts the entries between the pointers: none when they
\* meet, and never a whole array of them.
LEMMA DepthRange ==
    ASSUME TypeOK
    PROVE  /\ get_queue_depth \in 0..QUEUE_DEPTH - 1
           /\ get_queue_depth = 0 <=> rptr = wptr
BY DepthAssumption DEF TypeOK, Slots, get_queue_depth, DepthBetween

\* write_queue finds room exactly when the buffer is not full.
LEMMA RoomIffNotFull ==
    ASSUME TypeOK
    PROVE  nextPtr(wptr) # rptr <=> get_queue_depth < QUEUE_DEPTH - 1
BY DepthAssumption DEF TypeOK, Slots, get_queue_depth, DepthBetween, nextPtr

\* The pending entries lie in slots of the array, the oldest at rptr and the
\* next one to be written behind the youngest.
LEMMA PendingSlots ==
    ASSUME TypeOK
    PROVE  /\ \A i \in 1..get_queue_depth : SlotOf(i) \in Slots /\ SlotOf(i) # wptr
           /\ get_queue_depth # 0 => SlotOf(1) = rptr
           /\ SlotOf(get_queue_depth + 1) = wptr
BY DepthAssumption DEF TypeOK, Slots, get_queue_depth, DepthBetween, SlotOf

\* What is waiting is a sequence of entries, as long as get_queue_depth says.
LEMMA PendingIsSequence ==
    ASSUME TypeOK
    PROVE  /\ Pending \in Seq(Entries)
           /\ Len(Pending) = get_queue_depth
<1>1. get_queue_depth \in Nat
  BY DepthRange, DepthAssumption
<1>2. Pending \in [1..get_queue_depth -> Entries]
  BY PendingSlots DEF Pending, TypeOK
<1> QED
  BY <1>1, <1>2 DEF Pending

\* write_queue puts its entry behind the youngest and moves no other.
LEMMA WriteIsPut ==
    ASSUME TypeOK, TypeOK', NEW c \in Contents, NEW n \in Lengths, write_queue(c, n)
    PROVE  Fifo!Put([content |-> c, bufLength |-> n])
<1> DEFINE new == [content |-> c, bufLength |-> n]
<1> DEFINE d == get_queue_depth
<1>1. /\ wptr' = nextPtr(wptr)
      /\ rptr' = rptr
      /\ entry' = entry
      /\ my_queue' = [my_queue EXCEPT ![wptr] = new]
      /\ nextPtr(wptr) # rptr
  BY DEF write_queue, Accepts
<1>2. d < QUEUE_DEPTH - 1 /\ d \in Nat
  BY <1>1, RoomIffNotFull, DepthRange, DepthAssumption
<1>3. get_queue_depth' = d + 1
  <2>1. /\ wptr \in 0..QUEUE_DEPTH - 1 /\ rptr \in 0..QUEUE_DEPTH - 1
        /\ QUEUE_DEPTH \in Nat
    BY DepthAssumption DEF TypeOK, Slots
  <2>2. CASE wptr + 1 = QUEUE_DEPTH
    BY <1>1, <2>1, <2>2 DEF get_queue_depth, DepthBetween, nextPtr
  <2>3. CASE wptr + 1 # QUEUE_DEPTH
    BY <1>1, <2>1, <2>3 DEF get_queue_depth, DepthBetween, nextPtr
  <2> QED
    BY <2>2, <2>3
<1>4. \A i : SlotOf(i)' = SlotOf(i)
  BY <1>1 DEF SlotOf
<1>5. \A i \in 1..d : my_queue'[SlotOf(i)] = my_queue[SlotOf(i)]
  BY <1>1, PendingSlots DEF TypeOK
<1>6. my_queue'[SlotOf(d + 1)] = new
  BY <1>1, PendingSlots DEF TypeOK
<1>7. Pending' = [i \in 1..d + 1 |-> my_queue'[SlotOf(i)]]
  BY <1>3, <1>4 DEF Pending
<1>8. Pending \in Seq(Entries) /\ Len(Pending) = d
  BY PendingIsSequence
<1>9. Append(Pending, new) = [i \in 1..d + 1 |-> IF i = d + 1 THEN new ELSE Pending[i]]
  BY <1>8
<1>10. \A i \in 1..d + 1 :
          my_queue'[SlotOf(i)] = IF i = d + 1 THEN new ELSE Pending[i]
  BY <1>2, <1>5, <1>6 DEF Pending
<1>11. Pending' = Append(Pending, new)
  BY <1>7, <1>9, <1>10
<1> QED
  BY <1>1, <1>2, <1>8, <1>11 DEF Fifo!Put

\* read_queue takes the oldest entry and hands it over.
LEMMA ReadIsGet ==
    ASSUME TypeOK, TypeOK', read_queue
    PROVE  Fifo!Get
<1> DEFINE d == get_queue_depth
<1>1. /\ rptr' = nextPtr(rptr)
      /\ wptr' = wptr
      /\ my_queue' = my_queue
      /\ entry' = my_queue[rptr]
      /\ rptr # wptr
  BY DEF read_queue
<1>2. d \in Nat /\ d # 0
  BY <1>1, DepthRange, DepthAssumption
<1>3. get_queue_depth' = d - 1
  BY <1>1, DepthAssumption
  DEF get_queue_depth, DepthBetween, nextPtr, TypeOK, Slots
<1>4. \A i \in 1..d - 1 : SlotOf(i)' = SlotOf(i + 1)
  BY <1>1, <1>2, DepthRange, DepthAssumption DEF SlotOf, nextPtr, TypeOK, Slots
<1>5. Pending \in Seq(Entries) /\ Len(Pending) = d
  BY PendingIsSequence
<1>6. Pending' = [i \in 1..d - 1 |-> my_queue[SlotOf(i + 1)]]
  BY <1>1, <1>3, <1>4 DEF Pending
<1>7. /\ Tail(Pending) \in Seq(Entries)
      /\ Len(Tail(Pending)) = d - 1
      /\ \A i \in 1..d - 1 : Tail(Pending)[i] = Pending[i + 1]
  BY <1>2, <1>5, HeadTailProperties
<1>8. \A i \in 1..d - 1 : Pending[i + 1] = my_queue[SlotOf(i + 1)]
  BY <1>2 DEF Pending
<1>9. Pending' = Tail(Pending)
  <2>1. Pending' \in Seq(Entries) /\ Len(Pending') = d - 1
    <3>1. \A i \in 1..d - 1 : my_queue[SlotOf(i + 1)] \in Entries
      BY <1>2, PendingSlots DEF TypeOK
    <3>2. d - 1 \in Nat
      BY <1>2
    <3> QED
      BY <1>6, <3>1, <3>2
  <2>2. \A i \in 1..d - 1 : Pending'[i] = Tail(Pending)[i]
    BY <1>6, <1>7, <1>8
  <2> QED
    BY <1>7, <2>1, <2>2, SeqEqual
<1>10. Head(Pending) = my_queue[rptr] /\ Pending # <<>>
  BY <1>2, <1>5, PendingSlots DEF Pending
<1> QED
  BY <1>1, <1>9, <1>10 DEF Fifo!Get

\* The two pointers and the array are a first-in first-out buffer of
\* QUEUE_DEPTH - 1 entries (write_queue, read_queue, get_queue_depth), and the
\* soft-timer handler and the events that clear indication_in_flight leave it one.
THEOREM QueueImplementsFifo == Spec => ImplementsFifo
<1>1. Init => Fifo!FifoInit
  <2> SUFFICES ASSUME Init PROVE Fifo!FifoInit
    OBVIOUS
  <2>1. ZeroEntry \in Entries
    BY ContentsAssumption, LengthsAssumption DEF ZeroEntry, Entries
  <2>2. Pending = <<>>
    BY DEF Init, Pending, get_queue_depth, DepthBetween
  <2> QED
    BY <2>1, <2>2 DEF Init, Fifo!FifoInit
<1>2. TypeOK /\ TypeOK' /\ [Next]_vars => [Fifo!FifoNext]_Fifo!fifoVars
  <2> SUFFICES ASSUME TypeOK, TypeOK', [Next]_vars
               PROVE  [Fifo!FifoNext]_Fifo!fifoVars
    OBVIOUS
  <2>1. ASSUME NEW c \in Contents, NEW n \in Lengths, write_queue(c, n)
        PROVE  Fifo!FifoNext
    BY <2>1, WriteIsPut DEF Fifo!FifoNext, Entries
  <2>2. CASE SoftTimer1
    BY <2>2, ReadIsGet DEF SoftTimer1, Fifo!FifoNext
  <2>3. ASSUME UNCHANGED <<my_queue, wptr, rptr, entry>>
        PROVE  UNCHANGED Fifo!fifoVars
    BY <2>3 DEF Fifo!fifoVars, Pending, SlotOf, get_queue_depth
  <2> QED
    BY <2>1, <2>2, <2>3 DEF Next, InFlightCleared, vars
<1> QED
  BY <1>1, <1>2, TypeCorrect, PTL DEF Spec, ImplementsFifo, Fifo!FifoSpec
=============================================================================
