--------------------------------- MODULE Fifo ---------------------------------
(***************************************************************************)
(* What a queue of work promises to the searches in src/pp_2: elements come *)
(* out in the order in which they went in, each of them once.               *)
(***************************************************************************)
EXTENDS Sequences

CONSTANT Elements

VARIABLE items      \* the elements in the queue, the oldest first

FifoInit == items = <<>>

Put == \E e \in Elements :
  /\ \A k \in DOMAIN items : items[k] # e
  /\ items' = Append(items, e)

Get == items # <<>> /\ items' = Tail(items)

FifoNext == Put \/ Get

FifoSpec == FifoInit /\ [][FifoNext]_items
===============================================================================
