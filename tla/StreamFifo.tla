----------------------------- MODULE StreamFifo -----------------------------
(***************************************************************************)
(* What the receive ring of a streaming engine promises while its device   *)
(* file is open: a bounded FIFO of the blocks that arrive from the card.   *)
(* A block is named by its place in the stream.  A reader takes the oldest *)
(* block; a full FIFO accepts nothing; only closing the file empties it.   *)
(***************************************************************************)
EXTENDS Integers, Sequences

CONSTANT Capacity
VARIABLES open, fifo, next, last

vars == <<open, fifo, next, last>>

Init == open = FALSE /\ fifo = <<>> /\ next = 1 /\ last = 0

Open ==
  /\ ~open /\ open' = TRUE
  /\ UNCHANGED <<fifo, next, last>>

Put ==
  /\ open /\ Len(fifo) < Capacity
  /\ fifo' = Append(fifo, next)
  /\ next' = next + 1
  /\ UNCHANGED <<open, last>>

Take ==
  /\ open /\ fifo # <<>>
  /\ last' = Head(fifo)
  /\ fifo' = Tail(fifo)
  /\ UNCHANGED <<open, next>>

Close ==
  /\ open /\ open' = FALSE
  /\ fifo' = <<>>
  /\ UNCHANGED <<next, last>>

Next == Open \/ Put \/ Take \/ Close

Spec == Init /\ [][Next]_vars
=============================================================================
