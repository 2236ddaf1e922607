--------------------------- MODULE ProducerConsumer ---------------------------
(***************************************************************************)
(* The producer (src/pe_3/producer.c), any number of consumers              *)
(* (src/pe_3/consumer.c) and the buffer in POSIX shared memory between them *)
(* (src/pe_3/buffer.h).                                                     *)
(*                                                                          *)
(* One action is one step between two points at which another process can   *)
(* observe or disturb shared state: a sem_wait, a sem_post, or a group of   *)
(* accesses to the shared buffer.  The accesses of one critical section are *)
(* split over several actions, so that mutual exclusion has something to    *)
(* protect.                                                                 *)
(*                                                                          *)
(* A work item is the number of seconds the consumer sleeps; here it is its *)
(* own identity, the position 1..NUM_ITEMS at which it was produced.        *)
(***************************************************************************)
EXTENDS Integers, FiniteSets

CONSTANTS
  Consumers,          \* the consumer processes a user may start
  NUM_ITEMS,          \* num-items, the producer's argument
  BUF_SIZE,           \* slots of work[] (25 in buffer.h)
  MAX_NUM_CONSUMERS,  \* posts of the final broadcast (100 in buffer.h)
  Mortal,             \* the consumers that may be killed
  StackGarbage,       \* what an uninitialized local bool may hold
  OutOfRangeRead      \* what a read of work[] outside its bounds may do

ASSUME ConsumersAssumption == IsFiniteSet(Consumers)
ASSUME MortalAssumption == Mortal \subseteq Consumers
ASSUME SizesAssumption ==
  /\ NUM_ITEMS \in Nat
  /\ BUF_SIZE \in Nat \ {0}
  /\ MAX_NUM_CONSUMERS \in Nat
ASSUME GarbageAssumption ==
  /\ StackGarbage \subseteq BOOLEAN
  /\ OutOfRangeRead \subseteq {"value", "fault"}

VARIABLES
  shm, sems,                      \* do the names of the objects exist?
  sem_1, sem_2, sem_3,            \* the three named semaphores
  work, in, out,                  \* the shared buffer: slots and indices,
  is_full, is_finished,           \*   and its two flags
  ppc, i, finished,               \* the producer and its locals
  cpc, cfinished,                 \* the consumers and their locals
  consumed_value, num_items_consumed,
  taken                           \* history: the items that were consumed

semVars  == <<sem_1, sem_2, sem_3>>
bufVars  == <<work, in, out, is_full, is_finished>>
prodVars == <<ppc, i, finished>>
consVars == <<cpc, cfinished, consumed_value, num_items_consumed, taken>>
vars     == <<shm, sems, semVars, bufVars, prodVars, consVars>>

Items     == 1..NUM_ITEMS
NotAnItem == 0              \* a zeroed slot, or whatever lies outside work[]
Slots     == 0..(BUF_SIZE - 1)

(* Control points at which a process holds sem_3, the shared-memory lock.   *)
ProducerHolds == {"init", "check", "put", "advance", "signal", "unlock",
                  "poll", "broadcast"}
ConsumerHolds == {"peek", "take", "dec", "release", "fault"}

(* remove() has deleted what an earlier run left behind; ftruncate() of a    *)
(* new object yields zeroes; both locals named finished are uninitialized.   *)
Init ==
  /\ shm = FALSE /\ sems = FALSE
  /\ sem_1 = 0 /\ sem_2 = 0 /\ sem_3 = 1
  /\ work = [s \in Slots |-> NotAnItem]
  /\ in = 0 /\ out = 0
  /\ is_full = FALSE /\ is_finished = FALSE
  /\ ppc = "shm" /\ i = 0 /\ finished \in StackGarbage
  /\ cpc = [c \in Consumers |-> "start"]
  /\ cfinished \in [Consumers -> StackGarbage]
  /\ consumed_value = [c \in Consumers |-> NotAnItem]
  /\ num_items_consumed = [c \in Consumers |-> 0]
  /\ taken = {}

-------------------------------------------------------------------------------
(* Calls that both programs, or several steps of one, share.  A definition   *)
(* whose name ends in a capitalized word after an underscore is a faulty     *)
(* variant of the one that follows it: the project replaces one by the other *)
(* to see that a property notices.                                           *)

lock_shared_mem_Absent == UNCHANGED sem_3

lock_shared_mem == sem_3 > 0 /\ sem_3' = sem_3 - 1

unlock_shared_mem_Twice == sem_3' = sem_3 + 2

unlock_shared_mem == sem_3' = sem_3 + 1

signal_consumer_Lost == UNCHANGED sem_2

signal_consumer == sem_2' = sem_2 + 1

signal_producer_Lost == UNCHANGED sem_1

signal_producer == sem_1' = sem_1 + 1

report_room_FlagKept ==
  /\ UNCHANGED is_full
  /\ IF is_full THEN signal_producer ELSE UNCHANGED sem_1

(* if (is_full) { is_full = false; signal_producer(); }                      *)
report_room ==
  /\ is_full' = FALSE
  /\ IF is_full THEN signal_producer ELSE UNCHANGED sem_1

BufferFull_Late == in > BUF_SIZE

BufferFull == in = BUF_SIZE

Drained_Early == in <= 1

Drained == in = 0

BroadcastOver_OneShort == i >= MAX_NUM_CONSUMERS - 1

BroadcastOver == i >= MAX_NUM_CONSUMERS

pop_OutKept == out' = out /\ in' = in - 1

pop == out' = out - 1 /\ in' = in - 1

SeesFinished_Never == FALSE

SeesFinished == is_finished

-------------------------------------------------------------------------------
(* The producer.                                                             *)

initialize_shared_mem ==
  /\ ppc = "shm" /\ ppc' = "sems"
  /\ shm' = TRUE
  /\ UNCHANGED <<sems, semVars, bufVars, i, finished, consVars>>

(* sem_open with O_CREAT and the initial values 0, 0 and 1.                  *)
initialize_sems ==
  /\ ppc = "sems" /\ ppc' = "start"
  /\ sems' = TRUE
  /\ UNCHANGED <<shm, semVars, bufVars, i, finished, consVars>>

(* lock_shared_mem: from a control point outside to one inside the section.  *)
P_lock(from, to) ==
  /\ ppc = from /\ ppc' = to
  /\ lock_shared_mem
  /\ UNCHANGED <<shm, sems, sem_1, sem_2, bufVars, i, finished, consVars>>

(* The section that sets up the buffer, and its unlock_shared_mem.           *)
initialize_buffer ==
  /\ ppc = "init" /\ ppc' = "loop"
  /\ in' = 0 /\ out' = 0 /\ is_finished' = FALSE /\ is_full' = FALSE
  /\ unlock_shared_mem
  /\ UNCHANGED <<shm, sems, sem_1, sem_2, work, i, finished, consVars>>

(* for (i = 0; i < num_items; i++): produce an item and lock, or go on.      *)
P_loop == i < NUM_ITEMS /\ P_lock("loop", "check")

P_loop_end ==
  /\ ppc = "loop" /\ i >= NUM_ITEMS /\ ppc' = "drain"
  /\ UNCHANGED <<shm, sems, semVars, bufVars, i, finished, consVars>>

P_room ==
  /\ ppc = "check" /\ ~BufferFull /\ ppc' = "put"
  /\ UNCHANGED <<shm, sems, semVars, bufVars, i, finished, consVars>>

(* The buffer is full: raise the flag and release the lock, then wait.       *)
P_full ==
  /\ ppc = "check" /\ BufferFull /\ ppc' = "full_wait"
  /\ is_full' = TRUE
  /\ unlock_shared_mem
  /\ UNCHANGED <<shm, sems, sem_1, sem_2, work, in, out, is_finished,
                 i, finished, consVars>>

wait_for_consumer ==
  /\ ppc = "full_wait" /\ ppc' = "relock"
  /\ sem_1 > 0 /\ sem_1' = sem_1 - 1
  /\ UNCHANGED <<shm, sems, sem_2, sem_3, bufVars, i, finished, consVars>>

P_put ==
  /\ ppc = "put" /\ ppc' = "advance"
  /\ work' = [work EXCEPT ![in] = i + 1]
  /\ UNCHANGED <<shm, sems, semVars, in, out, is_full, is_finished,
                 i, finished, consVars>>

P_advance ==
  /\ ppc = "advance" /\ ppc' = "signal"
  /\ out' = in /\ in' = in + 1
  /\ UNCHANGED <<shm, sems, semVars, work, is_full, is_finished,
                 i, finished, consVars>>

P_signal ==
  /\ ppc = "signal" /\ ppc' = "unlock"
  /\ signal_consumer
  /\ UNCHANGED <<shm, sems, sem_1, sem_3, bufVars, i, finished, consVars>>

(* unlock_shared_mem, the rest time, and i++.                                *)
P_unlock ==
  /\ ppc = "unlock" /\ ppc' = "loop"
  /\ unlock_shared_mem
  /\ i' = i + 1
  /\ UNCHANGED <<shm, sems, sem_1, sem_2, bufVars, finished, consVars>>

(* while (!finished): poll the buffer until it has been drained.             *)
P_drain == ~finished /\ P_lock("drain", "poll")

P_drain_end ==
  /\ ppc = "drain" /\ finished /\ ppc' = "linger"
  /\ UNCHANGED <<shm, sems, semVars, bufVars, i, finished, consVars>>

P_not_drained ==
  /\ ppc = "poll" /\ ~Drained /\ ppc' = "drain"
  /\ unlock_shared_mem
  /\ UNCHANGED <<shm, sems, sem_1, sem_2, bufVars, i, finished, consVars>>

P_drained ==
  /\ ppc = "poll" /\ Drained /\ ppc' = "broadcast"
  /\ is_finished' = TRUE /\ finished' = TRUE
  /\ i' = 0
  /\ UNCHANGED <<shm, sems, semVars, work, in, out, is_full, consVars>>

(* Still inside the section: one post for each possible consumer.            *)
P_broadcast ==
  /\ ppc = "broadcast" /\ ~BroadcastOver
  /\ signal_consumer
  /\ i' = i + 1
  /\ UNCHANGED <<shm, sems, sem_1, sem_3, bufVars, ppc, finished, consVars>>

P_broadcast_end ==
  /\ ppc = "broadcast" /\ BroadcastOver /\ ppc' = "drain"
  /\ unlock_shared_mem
  /\ UNCHANGED <<shm, sems, sem_1, sem_2, bufVars, i, finished, consVars>>

(* The wait for the consumers is over.  Processes that have the objects open *)
(* keep them; only the names disappear.                                      *)
unlink_all ==
  /\ ppc = "linger" /\ ppc' = "exited"
  /\ shm' = FALSE /\ sems' = FALSE
  /\ UNCHANGED <<semVars, bufVars, i, finished, consVars>>

Producer ==
  \/ initialize_shared_mem \/ initialize_sems
  \/ P_lock("start", "init") \/ initialize_buffer
  \/ P_loop \/ P_loop_end
  \/ P_room \/ P_full \/ wait_for_consumer \/ P_lock("relock", "put")
  \/ P_put \/ P_advance \/ P_signal \/ P_unlock
  \/ P_drain \/ P_drain_end \/ P_not_drained
  \/ P_drained \/ P_broadcast \/ P_broadcast_end
  \/ unlink_all
-------------------------------------------------------------------------------
(* A consumer.                                                               *)

Goto(c, from, to) == cpc[c] = from /\ cpc' = [cpc EXCEPT ![c] = to]

(* shm_open and mmap; without the object the program exits.                  *)
C_open_shm(c) ==
  /\ Goto(c, "start", IF shm THEN "attached" ELSE "failed")
  /\ UNCHANGED <<shm, sems, semVars, bufVars, prodVars,
                 cfinished, consumed_value, num_items_consumed, taken>>

C_initialize_sems(c) ==
  /\ Goto(c, "attached", IF sems THEN "loop" ELSE "failed")
  /\ UNCHANGED <<shm, sems, semVars, bufVars, prodVars,
                 cfinished, consumed_value, num_items_consumed, taken>>

C_lock(c, from, to) ==
  /\ Goto(c, from, to)
  /\ lock_shared_mem
  /\ UNCHANGED <<shm, sems, sem_1, sem_2, bufVars, prodVars,
                 cfinished, consumed_value, num_items_consumed, taken>>

(* while (!finished)                                                         *)
C_loop(c) == ~cfinished[c] /\ C_lock(c, "loop", "peek")

C_loop_end(c) ==
  /\ Goto(c, "loop", "done")
  /\ cfinished[c]
  /\ UNCHANGED <<shm, sems, semVars, bufVars, prodVars,
                 cfinished, consumed_value, num_items_consumed, taken>>

(* finished = is_finished; unlock_shared_mem(); if (finished) break.         *)
C_check_finished(c) ==
  /\ Goto(c, "peek", IF SeesFinished THEN "done" ELSE "wait")
  /\ cfinished' = [cfinished EXCEPT ![c] = SeesFinished]
  /\ unlock_shared_mem
  /\ UNCHANGED <<shm, sems, sem_1, sem_2, bufVars, prodVars,
                 consumed_value, num_items_consumed, taken>>

wait_for_producer(c) ==
  /\ Goto(c, "wait", "claimed")
  /\ sem_2 > 0 /\ sem_2' = sem_2 - 1
  /\ UNCHANGED <<shm, sems, sem_1, sem_3, bufVars, prodVars,
                 cfinished, consumed_value, num_items_consumed, taken>>

(* consumed_value = work[out].  A read outside work[] is undefined: it may   *)
(* yield some value that is no work item, or end the process on the spot.    *)
C_take(c) ==
  /\ \/ /\ out \in Slots
        /\ Goto(c, "take", "dec")
        /\ consumed_value' = [consumed_value EXCEPT ![c] = work[out]]
     \/ /\ out \notin Slots /\ "value" \in OutOfRangeRead
        /\ Goto(c, "take", "dec")
        /\ consumed_value' = [consumed_value EXCEPT ![c] = NotAnItem]
     \/ /\ out \notin Slots /\ "fault" \in OutOfRangeRead
        /\ Goto(c, "take", "fault")
        /\ UNCHANGED consumed_value
  /\ UNCHANGED <<shm, sems, semVars, bufVars, prodVars,
                 cfinished, num_items_consumed, taken>>

(* out--, in--, and signal_producer if the producer waits on a full buffer.  *)
C_dec(c) ==
  /\ Goto(c, "dec", "release")
  /\ pop
  /\ num_items_consumed' = [num_items_consumed EXCEPT ![c] = @ + 1]
  /\ taken' = taken \cup ({consumed_value[c]} \ {NotAnItem})
  /\ report_room
  /\ UNCHANGED <<shm, sems, sem_2, sem_3, work, is_finished, prodVars,
                 cfinished, consumed_value>>

C_unlock(c) ==
  /\ Goto(c, "release", "work")
  /\ unlock_shared_mem
  /\ UNCHANGED <<shm, sems, sem_1, sem_2, bufVars, prodVars,
                 cfinished, consumed_value, num_items_consumed, taken>>

(* sleep(consumed_value)                                                     *)
C_work(c) ==
  /\ Goto(c, "work", "loop")
  /\ UNCHANGED <<shm, sems, semVars, bufVars, prodVars,
                 cfinished, consumed_value, num_items_consumed, taken>>

(* Everything a consumer does once its user has started it.                  *)
ConsumerRuns(c) ==
  \/ C_initialize_sems(c)
  \/ C_loop(c) \/ C_loop_end(c) \/ C_check_finished(c)
  \/ wait_for_producer(c) \/ C_lock(c, "claimed", "take")
  \/ C_take(c) \/ C_dec(c) \/ C_unlock(c) \/ C_work(c)

Next == Producer \/ \E c \in Consumers : C_open_shm(c) \/ ConsumerRuns(c)

Spec == Init /\ [][Next]_vars

(* A process that is infinitely often able to get past a semaphore does: the *)
(* processes sleep outside their critical sections, and sem_post wakes a     *)
(* waiter.  No user has to start a consumer.  A killed one takes no further  *)
(* step, and nobody undoes what it did to the semaphores and the buffer.     *)
Fairness ==
  /\ SF_vars(Producer)
  /\ \A c \in Consumers \ Mortal : SF_vars(ConsumerRuns(c))

FairSpec == Spec /\ Fairness

-------------------------------------------------------------------------------
(* Properties.                                                               *)

(* Number of items that have entered the buffer so far.  i is reused as the  *)
(* index of the broadcast once is_finished is set.                           *)
Produced ==
  IF is_finished THEN NUM_ITEMS
  ELSE IF ppc \in {"signal", "unlock"} THEN i + 1 ELSE i

(* Consumers that have a sem_2 token and have not yet paid for it with in--. *)
Claimed == {c \in Consumers : cpc[c] \in {"claimed", "take", "dec", "fault"}}

(* Tokens on sem_2 that stand for no item: minus the item whose signal is    *)
(* still to come, or the posts of the final broadcast.                       *)
TokenSurplus ==
  IF is_finished THEN (IF ppc = "broadcast" THEN i ELSE MAX_NUM_CONSUMERS)
  ELSE (IF ppc = "signal" THEN -1 ELSE 0)

ProducerPoints ==
  ProducerHolds \cup {"shm", "sems", "start", "loop", "full_wait", "relock",
                      "drain", "linger", "exited"}
ConsumerPoints ==
  ConsumerHolds \cup {"start", "attached", "loop", "wait", "claimed", "work",
                      "done", "failed"}

(* Every variable stays in its type; sem_3 is a binary semaphore.            *)
TypeOK ==
  /\ shm \in BOOLEAN /\ sems \in BOOLEAN
  /\ sem_1 \in Nat /\ sem_2 \in Nat /\ sem_3 \in {0, 1}
  /\ work \in [Slots -> 0..NUM_ITEMS]
  /\ in \in Int /\ out \in Int
  /\ is_full \in BOOLEAN /\ is_finished \in BOOLEAN
  /\ ppc \in ProducerPoints /\ i \in Nat /\ finished \in BOOLEAN
  /\ cpc \in [Consumers -> ConsumerPoints]
  /\ cfinished \in [Consumers -> BOOLEAN]
  /\ consumed_value \in [Consumers -> 0..NUM_ITEMS]
  /\ num_items_consumed \in [Consumers -> Nat]
  /\ taken \subseteq Items

(* lock_shared_mem/unlock_shared_mem: never two processes between them, and   *)
(* the lock is taken whenever one is.                                        *)
SharedMemExclusive ==
  /\ ppc \in ProducerHolds =>
       sem_3 = 0 /\ \A c \in Consumers : cpc[c] \notin ConsumerHolds
  /\ \A c \in Consumers : cpc[c] \in ConsumerHolds =>
       sem_3 = 0 /\ \A d \in Consumers \ {c} : cpc[d] \notin ConsumerHolds

(* signal_consumer/wait_for_producer: sem_2 and in are kept by different      *)
(* calls at different times, and still every token is backed by an item of   *)
(* the buffer; after the broadcast exactly MAX_NUM_CONSUMERS tokens are not. *)
TokenAccounting == sem_2 + Cardinality(Claimed) = in + TokenSurplus

(* wait_for_consumer/signal_producer: while the producer waits, exactly one  *)
(* of the is_full flag and a sem_1 token is there; a wakeup is neither lost  *)
(* nor left over for a later wait.                                           *)
FullHandshake ==
  IF ppc = "full_wait"
  THEN IF is_full THEN sem_1 = 0 ELSE sem_1 = 1
  ELSE sem_1 = 0 /\ ~is_full

(* Between the test of in and the write the lock is released and taken       *)
(* again; the slot written to is nevertheless inside work[].                 *)
PutWithinBuffer == ppc = "put" => in \in Slots

(* The value a consumer reports is an item that was produced and that nobody *)
(* consumed before, as long as the producer has not declared the end.        *)
NoDoubleConsumption ==
  \A c \in Consumers : cpc[c] = "dec" /\ ~is_finished =>
    consumed_value[c] \in (1..Produced) \ taken

(* is_finished is set only when every item asked for has been consumed.      *)
AllConsumedAtFinish == is_finished => taken = Items

(* The broadcast makes consumers take items that do not exist, but all of    *)
(* them together no more often than there are consumers: in never falls      *)
(* further below zero, because each looks at is_finished before it waits     *)
(* again.                                                                    *)
PhantomTakesBounded == is_finished => in >= -Cardinality(Consumers)

(* The steps on the buffer implement a pool of work in which every item is   *)
(* consumed at most once and which is closed when all items are.             *)
Pool == INSTANCE WorkPool WITH produced <- Produced, closed <- is_finished
PoolSpec == Pool!PoolSpec

(* No consumer is killed, or faults, while it holds sem_3 or a token that    *)
(* stands for an item.  Death anywhere else must not hold up the others.     *)
Harmful(c) == cpc[c] \in ConsumerHolds \/ (cpc[c] = "claimed" /\ ~is_finished)
NoHarmfulDeath == \A c \in Consumers : []<>~Harmful(c)

(* Running consumers that have not left their loop.                          *)
InLoop == {c \in Consumers \ Mortal : cpc[c] \notin {"start", "failed", "done"}}

(* The final broadcast: all consumers that got hold of the shared objects    *)
(* leave their loops in the end, except as many as there are consumers       *)
(* beyond MAX_NUM_CONSUMERS; these may be left waiting for production.       *)
ConsumersFinish ==
  NoHarmfulDeath =>
    <>[](Cardinality(InLoop) <= IF Cardinality(Consumers) <= MAX_NUM_CONSUMERS
                                THEN 0
                                ELSE Cardinality(Consumers) - MAX_NUM_CONSUMERS)

(* With one consumer at work the producer comes to its end, also if it waits *)
(* on a full buffer and other consumers are killed.                          *)
ProducerExits ==
  NoHarmfulDeath => ((\E c \in InLoop : cpc[c] = "loop") ~> ppc = "exited")

(* out is "the index within the buffer which the consumer uses to consume    *)
(* the work": a consumer about to read work[out] finds it inside the buffer. *)
TakeWithinBuffer == \A c \in Consumers : cpc[c] = "take" => out \in Slots
===============================================================================
