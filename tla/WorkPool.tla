------------------------------- MODULE WorkPool -------------------------------
(***************************************************************************)
(* What the producer/consumer pair in src/pe_3 promises to a reader of its  *)
(* output: work items are produced one after the other, each produced item  *)
(* is consumed by at most one consumer, and the pool is declared finished   *)
(* only after every item that was asked for has been consumed.              *)
(* Nothing here mentions the buffer, the semaphores or the processes.       *)
(***************************************************************************)
EXTENDS Integers

CONSTANT NUM_ITEMS      \* the producer's command line argument num-items

VARIABLES
  produced,   \* how many items have been put in the pool: items 1..produced
  taken,      \* the items some consumer has consumed
  closed      \* the finished flag the consumers look at

poolVars == <<produced, taken, closed>>

PoolInit ==
  /\ produced = 0
  /\ taken = {}
  /\ closed = FALSE

Produce ==
  /\ produced < NUM_ITEMS
  /\ produced' = produced + 1
  /\ UNCHANGED <<taken, closed>>

Consume ==
  \E x \in (1..produced) \ taken :
    /\ taken' = taken \cup {x}
    /\ UNCHANGED <<produced, closed>>

Close ==
  /\ ~closed
  /\ taken = 1..NUM_ITEMS
  /\ closed' = TRUE
  /\ UNCHANGED <<produced, taken>>

PoolNext == Produce \/ Consume \/ Close

PoolSpec == PoolInit /\ [][PoolNext]_poolVars
===============================================================================
