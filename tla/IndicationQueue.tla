-------------------------- MODULE IndicationQueue --------------------------
(***************************************************************************)
(* The circular buffer of pending indications (ble.c, server build) and    *)
(* the soft-timer handler that drains it, one indication at a time.        *)
(*                                                                         *)
(* write_queue is a public operation without a caller in the repository    *)
(* and soft timer 1 is never started: the module is the contract the two   *)
(* pointers keep for whoever uses them.  Nothing is said of when a queue   *)
(* drains, which no running timer and no cleared flag guarantees.          *)
(***************************************************************************)
EXTENDS Integers, Sequences

CONSTANTS
    QUEUE_DEPTH,     \* slots of my_queue
    Contents,        \* what an entry carries: handle and bytes, opaque here
    ZeroContent,     \* the content of zeroed memory
    Lengths,         \* buffer lengths callers pass
    CounterModulus   \* 2^32 in the code: queue_entries is a uint32_t

ASSUME DepthAssumption == QUEUE_DEPTH \in Nat \ {0}
ASSUME ContentsAssumption == ZeroContent \in Contents
ASSUME LengthsAssumption == Lengths \subseteq Nat /\ 0 \in Lengths
ASSUME ModulusAssumption == CounterModulus \in Nat \ {0}

MIN_BUFFER_LENGTH == 1
MAX_BUFFER_LENGTH == 5

VARIABLES
    my_queue, wptr, rptr,
    entry,                 \* the locals read_queue fills: the entry read last
    indication_in_flight,
    queue_entries

vars == <<my_queue, wptr, rptr, entry, indication_in_flight, queue_entries>>

Slots   == 0..QUEUE_DEPTH - 1
Entries == [content : Contents, bufLength : Lengths]

ZeroEntry == [content |-> ZeroContent, bufLength |-> 0]

Init ==
    /\ my_queue = [s \in Slots |-> ZeroEntry]
    /\ entry = ZeroEntry
    /\ wptr = 0
    /\ rptr = 0
    /\ indication_in_flight = FALSE
    /\ queue_entries = 0

\* Mutant: the pointer wraps one slot late.
NextPtrWrapsLate(ptr) == IF ptr = QUEUE_DEPTH THEN 0 ELSE ptr + 1

nextPtr(ptr) == IF ptr + 1 = QUEUE_DEPTH THEN 0 ELSE ptr + 1

\* Mutant: the slots behind the wrap are counted once too few.
DepthOffByOne(r, w) == CASE r < w -> w - r
                         [] r = w -> 0
                         [] r > w -> QUEUE_DEPTH - r + w - 1

DepthBetween(r, w) == CASE r < w -> w - r
                        [] r = w -> 0
                        [] r > w -> QUEUE_DEPTH - r + w

get_queue_depth == DepthBetween(rptr, wptr)

\* write_queue: FALSE, no error, when the length is acceptable and a slot is free
Accepts(bufLength) ==
    /\ MIN_BUFFER_LENGTH < bufLength
    /\ bufLength < MAX_BUFFER_LENGTH
    /\ nextPtr(wptr) # rptr

write_queue(c, n) ==
    /\ Accepts(n)
    /\ my_queue' = [my_queue EXCEPT ![wptr] = [content |-> c, bufLength |-> n]]
    /\ wptr' = nextPtr(wptr)
    /\ UNCHANGED <<rptr, entry, indication_in_flight, queue_entries>>

read_queue ==
    /\ rptr # wptr
    /\ entry' = my_queue[rptr]
    /\ rptr' = nextPtr(rptr)
    /\ UNCHANGED <<my_queue, wptr>>

\* handle_ble_event, soft timer 1.  The entry is gone whether or not the stack
\* takes the indication; queue_entries is only ever decremented.
SoftTimer1 ==
    /\ ~indication_in_flight
    /\ get_queue_depth > 0
    /\ read_queue
    /\ \/ /\ indication_in_flight' = TRUE
          /\ queue_entries' = (queue_entries - 1) % CounterModulus
       \/ UNCHANGED <<indication_in_flight, queue_entries>>

\* handle_ble_event: a confirmation of the light value, or the connection closed
InFlightCleared ==
    /\ indication_in_flight
    /\ indication_in_flight' = FALSE
    /\ UNCHANGED <<my_queue, wptr, rptr, entry, queue_entries>>

Next ==
    \/ \E c \in Contents, n \in Lengths : write_queue(c, n)
    \/ SoftTimer1
    \/ InFlightCleared

Spec == Init /\ [][Next]_vars

-----------------------------------------------------------------------------
TypeOK ==
    /\ my_queue \in [Slots -> Entries]
    /\ entry \in Entries
    /\ wptr \in Slots
    /\ rptr \in Slots
    /\ indication_in_flight \in BOOLEAN
    /\ queue_entries \in 0..CounterModulus - 1

\* The i-th oldest entry is in this slot.
SlotOf(i) == IF rptr + i - 1 < QUEUE_DEPTH THEN rptr + i - 1
                                           ELSE rptr + i - 1 - QUEUE_DEPTH

Pending == [i \in 1..get_queue_depth |-> my_queue[SlotOf(i)]]

\* The two pointers and the array behave as a first-in first-out buffer of
\* QUEUE_DEPTH - 1 entries wherever the pointers are, and get_queue_depth is the
\* number of entries in it: nothing is overwritten, skipped or read twice.
Fifo == INSTANCE BoundedFifo WITH
    Items <- Entries, Capacity <- QUEUE_DEPTH - 1, fifo <- Pending, item <- entry

ImplementsFifo == Fifo!FifoSpec

\* ble.h, on queue_struct_t: lengths 1 through 5 are to work, 0 and more than 5
\* are errors.
ValidLengthsAccepted ==
    \A n \in Lengths : get_queue_depth < QUEUE_DEPTH - 1
        => (Accepts(n) <=> n \in 1..MAX_BUFFER_LENGTH)
=============================================================================
