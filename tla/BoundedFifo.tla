---------------------------- MODULE BoundedFifo ----------------------------
(***************************************************************************)
(* A first-in first-out buffer of at most Capacity items: what the queue   *)
(* of pending indications promises to the code that fills and drains it.   *)
(* An item that is taken out is handed over in item.                       *)
(***************************************************************************)
EXTENDS Integers, Sequences

CONSTANTS Items, Capacity

VARIABLES fifo, item

fifoVars == <<fifo, item>>

FifoInit == fifo = <<>> /\ item \in Items

Put(x) == /\ Len(fifo) < Capacity
          /\ fifo' = Append(fifo, x)
          /\ UNCHANGED item

Get == /\ fifo # <<>>
       /\ item' = Head(fifo)
       /\ fifo' = Tail(fifo)

FifoNext == (\E x \in Items : Put(x)) \/ Get

FifoSpec == FifoInit /\ [][FifoNext]_fifoVars
=============================================================================
