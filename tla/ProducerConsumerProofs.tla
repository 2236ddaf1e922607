------------------------ MODULE ProducerConsumerProofs ------------------------
(***************************************************************************)
(* Proofs that the safety properties of ProducerConsumer hold for any set   *)
(* of consumers, any number of items and any buffer size, and that the      *)
(* specification implements WorkPool.                                       *)
(*                                                                          *)
(* The inductive invariant adds three things to the properties: where each  *)
(* counter stands at each control point (ControlInv), how in and out are    *)
(* related (IndexInv), and that the slots below in hold exactly the items   *)
(* that were produced and not yet consumed (StackInv).                      *)
(***************************************************************************)
EXTENDS ProducerConsumer, FiniteSetTheorems, TLAPS

(* Where the producer's counter and flags stand at each control point.      *)
ControlInv ==
  /\ ppc \in {"shm", "sems", "start", "init"} =>
       i = 0 /\ in = 0 /\ out = 0 /\ ~is_finished /\ taken = {}
  /\ ppc \in {"check", "full_wait", "relock", "put", "advance", "signal",
              "unlock"} => i < NUM_ITEMS
  /\ ~is_finished => i <= NUM_ITEMS
  /\ ~is_finished /\ ppc \in {"drain", "poll"} => i = NUM_ITEMS
  /\ is_finished =>
       finished /\ ppc \in {"broadcast", "drain", "linger", "exited"}
  /\ ppc = "poll" => ~finished
  /\ ppc = "broadcast" => is_finished /\ i <= MAX_NUM_CONSUMERS

(* The two indices, and the room the producer has made sure of.             *)
IndexInv ==
  /\ IF is_finished THEN in <= 0 ELSE in \in 0..BUF_SIZE
  /\ ppc \in {"relock", "put", "advance"} => in < BUF_SIZE
  /\ ppc = "full_wait" /\ ~is_full => in < BUF_SIZE
  /\ out = IF Produced > 0 THEN in - 1 ELSE in

(* work[0..in-1] holds exactly the items in the buffer.                     *)
StackInv ==
  /\ ~is_finished => \A k \in 0..(in - 1) : work[k] \in (1..Produced) \ taken
  /\ ~is_finished => \A k, m \in 0..(in - 1) : work[k] = work[m] => k = m
  /\ \A x \in 1..Produced : x \in taken \/ \E k \in 0..(in - 1) : work[k] = x
  /\ taken \subseteq 1..Produced
  /\ ppc = "advance" => work[in] = i + 1

(* What a consumer holds between its read and its decrements.               *)
ReadInv ==
  \A c \in Consumers : cpc[c] = "dec" =>
    consumed_value[c] = IF is_finished THEN NotAnItem ELSE work[in - 1]

IInv ==
  /\ TypeOK /\ SharedMemExclusive /\ TokenAccounting /\ FullHandshake
  /\ ControlInv /\ IndexInv /\ StackInv /\ ReadInv

(* The flags and the scalar numbers of TypeOK.                              *)
FlagsOK ==
  /\ shm \in BOOLEAN /\ sems \in BOOLEAN
  /\ is_full \in BOOLEAN /\ is_finished \in BOOLEAN /\ finished \in BOOLEAN
  /\ cfinished \in [Consumers -> BOOLEAN]

NumbersOK ==
  /\ sem_1 \in Nat /\ sem_2 \in Nat /\ sem_3 \in {0, 1}
  /\ in \in Int /\ out \in Int /\ i \in Nat

-------------------------------------------------------------------------------
(* The consumers that hold a token: how their number moves.                 *)

(* Claimed is a finite set, so that counting it makes sense.                *)
LEMMA ClaimedFinite == IsFiniteSet(Claimed) /\ Cardinality(Claimed) \in Nat
<1>1. Claimed \subseteq Consumers
  BY DEF Claimed
<1> QED
  BY <1>1, ConsumersAssumption, FS_Subset, FS_CardinalityType

(* wait_for_producer hands one more consumer a token.                       *)
LEMMA ClaimedEnter ==
  ASSUME NEW c \in Consumers, TypeOK, Goto(c, "wait", "claimed")
  PROVE  Cardinality(Claimed') = Cardinality(Claimed) + 1
<1>1. Claimed' = Claimed \cup {c} /\ c \notin Claimed
  BY DEF TypeOK, Goto, Claimed
<1> QED
  BY <1>1, ClaimedFinite, FS_AddElement

(* The decrement of in pays for one token.                                  *)
LEMMA ClaimedLeave ==
  ASSUME NEW c \in Consumers, TypeOK, Goto(c, "dec", "release")
  PROVE  Cardinality(Claimed') = Cardinality(Claimed) - 1
<1>1. Claimed' = Claimed \ {c} /\ c \in Claimed
  BY DEF TypeOK, Goto, Claimed
<1> QED
  BY <1>1, ClaimedFinite, FS_RemoveElement

(* As long as the producer has not declared the end, a consumer that is about *)
(* to read or to decrement finds an item in the buffer.                      *)
LEMMA ClaimBacked ==
  ASSUME TypeOK, TokenAccounting, SharedMemExclusive, ~is_finished,
         NEW c \in Consumers, cpc[c] \in {"take", "dec"}
  PROVE  in >= 1
<1>1. Cardinality(Claimed) >= 1
  <2>1. c \in Claimed
    BY DEF Claimed
  <2>2. Cardinality(Claimed) # 0
    BY <2>1, ClaimedFinite, FS_EmptySet
  <2> QED
    BY <2>2, ClaimedFinite
<1>2. TokenSurplus = 0
  BY DEF TokenSurplus, SharedMemExclusive, ConsumerHolds, ProducerHolds
<1> QED
  BY <1>1, <1>2, ClaimedFinite DEF TokenAccounting, TypeOK

-------------------------------------------------------------------------------
(* Initially the invariant holds: every object is fresh.                    *)
LEMMA InitInv == Init => IInv
<1> SUFFICES ASSUME Init PROVE IInv
  OBVIOUS
<1> USE SizesAssumption, GarbageAssumption DEF Init
<1>1. TypeOK
  <2>1. FlagsOK
    BY DEF FlagsOK
  <2> QED
    BY <2>1
    DEF TypeOK, FlagsOK, ProducerPoints, ConsumerPoints, Slots, NotAnItem
<1>2. SharedMemExclusive /\ FullHandshake
  BY DEF SharedMemExclusive, FullHandshake, ProducerHolds, ConsumerHolds
<1>3. TokenAccounting
  <2>1. Claimed = {}
    BY DEF Claimed
  <2> QED
    BY <2>1, FS_EmptySet DEF TokenAccounting, TokenSurplus
<1>4. ControlInv /\ IndexInv
  BY DEF ControlInv, IndexInv, Produced
<1>5. StackInv /\ ReadInv
  BY DEF StackInv, ReadInv, Produced
<1> QED
  BY <1>1, <1>2, <1>3, <1>4, <1>5 DEF IInv

(* lock_shared_mem and unlock_shared_mem keep the processes apart.          *)
LEMMA ExclusiveStep ==
  ASSUME TypeOK, SharedMemExclusive, Next
  PROVE  SharedMemExclusive'
<1> USE DEF TypeOK, SharedMemExclusive, ProducerHolds, ConsumerHolds,
            lock_shared_mem, unlock_shared_mem
<1>1. CASE Producer
  BY <1>1
  DEF Producer, initialize_shared_mem, initialize_sems, P_lock,
      initialize_buffer, P_loop, P_loop_end, P_room, P_full,
      wait_for_consumer, P_put, P_advance, P_signal, P_unlock, P_drain,
      P_drain_end, P_not_drained, P_drained, P_broadcast, P_broadcast_end,
      unlink_all, consVars, semVars
<1>2. ASSUME NEW c \in Consumers, C_open_shm(c) \/ ConsumerRuns(c)
      PROVE  SharedMemExclusive'
  BY <1>2
  DEF C_open_shm, ConsumerRuns, C_initialize_sems, C_lock, C_loop,
      C_loop_end, C_check_finished, wait_for_producer, C_take, C_dec,
      C_unlock, C_work, Goto, prodVars, semVars
<1> QED
  BY <1>1, <1>2 DEF Next

(* The Boolean flags keep their type.                                       *)
LEMMA FlagsStep ==
  ASSUME TypeOK, Next
  PROVE  FlagsOK'
<1> USE DEF TypeOK, FlagsOK
<1>1. CASE Producer
  BY <1>1
  DEF Producer, initialize_shared_mem, initialize_sems, P_lock,
      initialize_buffer, P_loop, P_loop_end, P_room, P_full,
      wait_for_consumer, P_put, P_advance, P_signal, P_unlock, P_drain,
      P_drain_end, P_not_drained, P_drained, P_broadcast, P_broadcast_end,
      unlink_all, consVars, semVars, bufVars
<1>2. ASSUME NEW c \in Consumers, C_check_finished(c)
      PROVE  FlagsOK'
  BY <1>2, Zenon DEF C_check_finished, SeesFinished, prodVars, bufVars
<1>3. ASSUME NEW c \in Consumers, C_dec(c)
      PROVE  FlagsOK'
  BY <1>3, Zenon DEF C_dec, report_room, signal_producer, prodVars
<1>4. ASSUME NEW c \in Consumers,
             \/ C_open_shm(c) \/ C_initialize_sems(c) \/ C_take(c)
             \/ C_loop(c) \/ C_loop_end(c) \/ wait_for_producer(c)
             \/ C_lock(c, "claimed", "take") \/ C_unlock(c) \/ C_work(c)
      PROVE  FlagsOK'
  BY <1>4, Zenon
  DEF C_open_shm, C_initialize_sems, C_lock, C_loop, C_loop_end, C_take,
      wait_for_producer, C_unlock, C_work, prodVars, bufVars
<1> QED
  BY <1>1, <1>2, <1>3, <1>4 DEF Next, ConsumerRuns

(* The other types; the lock is binary because only its holder releases it. *)
LEMMA TypeStep ==
  ASSUME IInv, Next
  PROVE  TypeOK'
<1> USE SizesAssumption DEF IInv, TypeOK
<1>1. NumbersOK' /\ ppc' \in ProducerPoints
  <2> USE DEF NumbersOK, SharedMemExclusive, ProducerHolds, ConsumerHolds,
              ProducerPoints, lock_shared_mem, unlock_shared_mem
  <2>1. CASE Producer
    BY <2>1
    DEF Producer, initialize_shared_mem, initialize_sems, P_lock,
        initialize_buffer, P_loop, P_loop_end, P_room, P_full,
        wait_for_consumer, P_put, P_advance, P_signal, P_unlock, P_drain,
        P_drain_end, P_not_drained, P_drained, P_broadcast, P_broadcast_end,
        unlink_all, semVars, bufVars, signal_consumer
  <2>2. ASSUME NEW c \in Consumers, C_open_shm(c) \/ ConsumerRuns(c)
        PROVE  NumbersOK' /\ ppc' \in ProducerPoints
    BY <2>2
    DEF C_open_shm, ConsumerRuns, C_initialize_sems, C_lock, C_loop,
        C_loop_end, C_check_finished, wait_for_producer, C_take, C_dec,
        C_unlock, C_work,
        prodVars, semVars, bufVars, Goto, pop, report_room, signal_producer
  <2> QED
    BY <2>1, <2>2 DEF Next
<1>2. work' \in [Slots -> 0..NUM_ITEMS]
  <2>1. CASE Producer
    BY <2>1
    DEF Producer, initialize_shared_mem, initialize_sems, P_lock,
        initialize_buffer, P_loop, P_loop_end, P_room, P_full,
        wait_for_consumer, P_put, P_advance, P_signal, P_unlock, P_drain,
        P_drain_end, P_not_drained, P_drained, P_broadcast, P_broadcast_end,
        unlink_all, bufVars, ControlInv
  <2>2. ASSUME NEW c \in Consumers, C_open_shm(c) \/ ConsumerRuns(c)
        PROVE  UNCHANGED work
    BY <2>2
    DEF C_open_shm, ConsumerRuns, C_initialize_sems, C_lock, C_loop,
        C_loop_end, C_check_finished, wait_for_producer, C_take, C_dec,
        C_unlock, C_work, bufVars
  <2> QED
    BY <2>1, <2>2 DEF Next
<1>3. cpc' \in [Consumers -> ConsumerPoints]
  <2>1. CASE Producer
    BY <2>1
    DEF Producer, initialize_shared_mem, initialize_sems, P_lock,
        initialize_buffer, P_loop, P_loop_end, P_room, P_full,
        wait_for_consumer, P_put, P_advance, P_signal, P_unlock, P_drain,
        P_drain_end, P_not_drained, P_drained, P_broadcast, P_broadcast_end,
        unlink_all, consVars
  <2>2. ASSUME NEW c \in Consumers, C_open_shm(c) \/ ConsumerRuns(c)
        PROVE  cpc' \in [Consumers -> ConsumerPoints]
    BY <2>2
    DEF C_open_shm, ConsumerRuns, C_initialize_sems, C_lock, C_loop,
        C_loop_end, C_check_finished, wait_for_producer, C_take, C_dec,
        C_unlock, C_work, Goto, ConsumerPoints, ConsumerHolds
  <2> QED
    BY <2>1, <2>2 DEF Next
<1>4. consumed_value' \in [Consumers -> 0..NUM_ITEMS]
  <2>1. CASE Producer
    BY <2>1
    DEF Producer, initialize_shared_mem, initialize_sems, P_lock,
        initialize_buffer, P_loop, P_loop_end, P_room, P_full,
        wait_for_consumer, P_put, P_advance, P_signal, P_unlock, P_drain,
        P_drain_end, P_not_drained, P_drained, P_broadcast, P_broadcast_end,
        unlink_all, consVars
  <2>2. ASSUME NEW c \in Consumers, C_open_shm(c) \/ ConsumerRuns(c)
        PROVE  consumed_value' \in [Consumers -> 0..NUM_ITEMS]
    BY <2>2
    DEF C_open_shm, ConsumerRuns, C_initialize_sems, C_lock, C_loop,
        C_loop_end, C_check_finished, wait_for_producer, C_take, C_dec,
        C_unlock, C_work, NotAnItem
  <2> QED
    BY <2>1, <2>2 DEF Next
<1>5. num_items_consumed' \in [Consumers -> Nat] /\ taken' \subseteq Items
  <2>1. CASE Producer
    BY <2>1
    DEF Producer, initialize_shared_mem, initialize_sems, P_lock,
        initialize_buffer, P_loop, P_loop_end, P_room, P_full,
        wait_for_consumer, P_put, P_advance, P_signal, P_unlock, P_drain,
        P_drain_end, P_not_drained, P_drained, P_broadcast, P_broadcast_end,
        unlink_all, consVars
  <2>2. ASSUME NEW c \in Consumers, C_open_shm(c) \/ ConsumerRuns(c)
        PROVE  num_items_consumed' \in [Consumers -> Nat]
    BY <2>2
    DEF C_open_shm, ConsumerRuns, C_initialize_sems, C_lock, C_loop,
        C_loop_end, C_check_finished, wait_for_producer, C_take, C_dec,
        C_unlock, C_work
  <2>3. ASSUME NEW c \in Consumers, C_open_shm(c) \/ ConsumerRuns(c)
        PROVE  taken' \subseteq Items
    <3>1. taken' = taken \/ taken' = taken \cup ({consumed_value[c]} \ {0})
      BY <2>3
      DEF C_open_shm, ConsumerRuns, C_initialize_sems, C_lock, C_loop,
          C_loop_end, C_check_finished, wait_for_producer, C_take, C_dec,
          C_unlock, C_work, NotAnItem
    <3>2. consumed_value[c] \in 0..NUM_ITEMS /\ taken \subseteq Items
      OBVIOUS
    <3>3. 0..NUM_ITEMS \subseteq Items \cup {0}
      BY DEF Items
    <3> QED
      BY <3>1, <3>2, <3>3, Zenon
  <2> QED
    BY <2>1, <2>2, <2>3 DEF Next
<1> QED
  BY <1>1, <1>2, <1>3, <1>4, <1>5, FlagsStep DEF FlagsOK, NumbersOK

(* The is_full flag and sem_1.                                              *)
LEMMA HandshakeStep ==
  ASSUME TypeOK, FullHandshake, ControlInv, Next
  PROVE  FullHandshake'
<1> USE DEF TypeOK, FullHandshake
<1>1. CASE Producer
  BY <1>1
  DEF Producer, initialize_shared_mem, initialize_sems, P_lock,
      initialize_buffer, P_loop, P_loop_end, P_room, P_full,
      wait_for_consumer, P_put, P_advance, P_signal, P_unlock, P_drain,
      P_drain_end, P_not_drained, P_drained, P_broadcast, P_broadcast_end,
      unlink_all, semVars, bufVars
<1>2. ASSUME NEW c \in Consumers, C_open_shm(c) \/ ConsumerRuns(c)
      PROVE  FullHandshake'
  BY <1>2
  DEF C_open_shm, ConsumerRuns, C_initialize_sems, C_lock, C_loop,
      C_loop_end, C_check_finished, wait_for_producer, C_take, C_dec,
      C_unlock, C_work, prodVars, semVars, bufVars, report_room, signal_producer
<1> QED
  BY <1>1, <1>2 DEF Next

(* Control points against counters and flags.                               *)
LEMMA ControlStep ==
  ASSUME IInv, Next
  PROVE  ControlInv'
<1> USE SizesAssumption DEF IInv, TypeOK, ControlInv
<1>1. CASE Producer
  BY <1>1
  DEF Producer, initialize_shared_mem, initialize_sems, P_lock,
      initialize_buffer, P_loop, P_loop_end, P_room, P_full,
      wait_for_consumer, P_put, P_advance, P_signal, P_unlock, P_drain,
      P_drain_end, P_not_drained, P_drained, P_broadcast, P_broadcast_end,
      unlink_all, consVars, bufVars, BroadcastOver
<1>2. ASSUME NEW c \in Consumers, C_dec(c)
      PROVE  ControlInv'
  BY <1>2, ClaimBacked DEF C_dec, Goto, prodVars
<1>3. ASSUME NEW c \in Consumers,
             C_open_shm(c) \/ (ConsumerRuns(c) /\ ~C_dec(c))
      PROVE  ControlInv'
  BY <1>3
  DEF C_open_shm, ConsumerRuns, C_initialize_sems, C_lock, C_loop,
      C_loop_end, C_check_finished, wait_for_producer, C_take,
      C_unlock, C_work, prodVars, bufVars
<1> QED
  BY <1>1, <1>2, <1>3 DEF Next

(* Tokens against items.                                                    *)
LEMMA TokenStep ==
  ASSUME IInv, Next
  PROVE  TokenAccounting'
<1> USE ClaimedFinite, SizesAssumption DEF IInv, TypeOK, TokenAccounting
<1>1. CASE Producer
  <2>1. Claimed' = Claimed
    BY <1>1
    DEF Producer, initialize_shared_mem, initialize_sems, P_lock,
        initialize_buffer, P_loop, P_loop_end, P_room, P_full,
        wait_for_consumer, P_put, P_advance, P_signal, P_unlock, P_drain,
        P_drain_end, P_not_drained, P_drained, P_broadcast, P_broadcast_end,
        unlink_all, consVars, Claimed
  <2>2. sem_2' - sem_2 = (in' + TokenSurplus') - (in + TokenSurplus)
    BY <1>1
    DEF Producer, initialize_shared_mem, initialize_sems, P_lock,
        initialize_buffer, P_loop, P_loop_end, P_room, P_full,
        wait_for_consumer, P_put, P_advance, P_signal, P_unlock, P_drain,
        P_drain_end, P_not_drained, P_drained, P_broadcast, P_broadcast_end,
        unlink_all,
        semVars, bufVars, consVars, TokenSurplus, ControlInv, IndexInv,
        signal_consumer, BroadcastOver, Drained
  <2>3. /\ TokenSurplus \in Int /\ TokenSurplus' \in Int
        /\ sem_2' \in Nat /\ in' \in Int
    BY TypeStep DEF TokenSurplus
  <2> QED
    BY <2>1, <2>2, <2>3
<1>2. ASSUME NEW c \in Consumers, wait_for_producer(c)
      PROVE  TokenAccounting'
  BY <1>2, ClaimedEnter
  DEF wait_for_producer, prodVars, bufVars, TokenSurplus
<1>3. ASSUME NEW c \in Consumers, C_dec(c)
      PROVE  TokenAccounting'
  BY <1>3, ClaimedLeave DEF C_dec, pop, prodVars, TokenSurplus
<1>4. ASSUME NEW c \in Consumers,
             \/ C_open_shm(c) \/ C_initialize_sems(c) \/ C_check_finished(c)
             \/ C_loop(c) \/ C_loop_end(c) \/ C_lock(c, "claimed", "take")
             \/ C_take(c) \/ C_unlock(c) \/ C_work(c)
      PROVE  TokenAccounting'
  <2> USE <1>4
      DEF C_open_shm, C_initialize_sems, C_check_finished, C_lock, C_loop,
          C_loop_end, C_take, C_unlock, C_work
  <2>1. Claimed' = Claimed
    BY DEF Goto, Claimed
  <2>2. sem_2' = sem_2 /\ in' = in /\ TokenSurplus' = TokenSurplus
    BY DEF prodVars, semVars, bufVars, TokenSurplus
  <2> QED
    BY <2>1, <2>2
<1> QED
  BY <1>1, <1>2, <1>3, <1>4 DEF Next, ConsumerRuns

(* in and out.                                                              *)
LEMMA IndexStep ==
  ASSUME IInv, Next
  PROVE  IndexInv'
<1> USE SizesAssumption DEF IInv, TypeOK, IndexInv, Produced
<1>1. CASE Producer
  BY <1>1
  DEF Producer, initialize_shared_mem, initialize_sems, P_lock,
      initialize_buffer, P_loop, P_loop_end, P_room, P_full,
      wait_for_consumer, P_put, P_advance, P_signal, P_unlock, P_drain,
      P_drain_end, P_not_drained, P_drained, P_broadcast, P_broadcast_end,
      unlink_all, bufVars, BufferFull, Drained, FullHandshake, ControlInv
<1>2. ASSUME NEW c \in Consumers, C_dec(c)
      PROVE  IndexInv'
  BY <1>2, ClaimBacked DEF C_dec, Goto, pop, report_room, signal_producer, prodVars
<1>3. ASSUME NEW c \in Consumers,
             \/ C_open_shm(c) \/ C_initialize_sems(c) \/ C_check_finished(c)
             \/ C_loop(c) \/ C_loop_end(c) \/ C_lock(c, "claimed", "take")
             \/ C_take(c) \/ C_unlock(c) \/ C_work(c) \/ wait_for_producer(c)
      PROVE  IndexInv'
  BY <1>3
  DEF C_open_shm, C_initialize_sems, C_check_finished, C_lock, C_loop,
      C_loop_end, C_take, C_unlock, C_work, wait_for_producer,
      prodVars, bufVars
<1> QED
  BY <1>1, <1>2, <1>3 DEF Next, ConsumerRuns

(* The contents of the buffer.                                              *)
LEMMA StackStep ==
  ASSUME IInv, Next
  PROVE  StackInv'
<1> USE SizesAssumption DEF IInv, TypeOK, Slots, Items
<1>1. CASE P_put
  BY <1>1
  DEF P_put, consVars, StackInv, Produced, ControlInv, IndexInv
<1>2. CASE P_advance
  <2>1. /\ Produced = i /\ Produced' = i + 1 /\ i \in Nat
        /\ ~is_finished /\ ~is_finished'
        /\ in \in Nat /\ in' = in + 1 /\ work[in] = i + 1
        /\ UNCHANGED <<work, taken>> /\ ppc' # "advance"
    BY <1>2
    DEF P_advance, consVars, StackInv, Produced, ControlInv, IndexInv
  <2>2. \A k \in 0..in : k = in \/ k \in 0..(in - 1)
    BY <2>1
  <2>3. \A k \in 0..(in' - 1) : work'[k] \in (1..Produced') \ taken'
    BY <2>1, <2>2 DEF StackInv
  <2>4. \A k, m \in 0..(in' - 1) : work'[k] = work'[m] => k = m
    BY SMTT(60), <2>1, <2>2 DEF StackInv
  <2>5. \A x \in 1..Produced' :
          x \in taken' \/ \E k \in 0..(in' - 1) : work'[k] = x
    <3> SUFFICES ASSUME NEW x \in 1..Produced', x \notin taken
                 PROVE  \E k \in 0..in : work[k] = x
      BY <2>1, SMTT(60)
    <3>1. CASE x = i + 1
      BY <2>1, <3>1
    <3>2. CASE x # i + 1
      BY <2>1, <3>2 DEF StackInv
    <3> QED
      BY <3>1, <3>2
  <2> QED
    BY <2>1, <2>3, <2>4, <2>5 DEF StackInv
<1>3. CASE P_drained
  BY <1>3
  DEF P_drained, Drained, consVars, StackInv, Produced, ControlInv
<1>4. CASE initialize_buffer
  BY <1>4
  DEF initialize_buffer, consVars, StackInv, Produced, ControlInv
<1>5. CASE \/ initialize_shared_mem \/ initialize_sems \/ P_loop \/ P_loop_end
           \/ P_lock("start", "init") \/ P_room \/ P_full
           \/ wait_for_consumer \/ P_lock("relock", "put") \/ P_signal
           \/ P_unlock \/ P_drain \/ P_drain_end \/ P_not_drained
           \/ P_broadcast \/ P_broadcast_end \/ unlink_all
  <2>1. /\ UNCHANGED <<work, in, taken, is_finished>>
        /\ Produced' = Produced
        /\ ppc' # "advance"
    BY <1>5
    DEF initialize_shared_mem, initialize_sems, P_loop, P_loop_end, P_lock,
        P_room, P_full, wait_for_consumer, P_signal, P_unlock, P_drain,
        P_drain_end, P_not_drained, P_broadcast, P_broadcast_end, unlink_all,
        bufVars, consVars, Produced, ControlInv
  <2> QED
    BY <2>1 DEF StackInv
<1>6. ASSUME NEW c \in Consumers, C_dec(c)
      PROVE  StackInv'
  <2> USE <1>6 DEF C_dec, Goto, pop, prodVars, Produced
  <2>1. ppc' # "advance" /\ Produced' = Produced
    BY DEF SharedMemExclusive, ProducerHolds, ConsumerHolds
  <2>2. CASE is_finished
    <3>1. taken' = taken /\ is_finished' /\ in \in Int /\ in <= 0 /\ in' = in - 1
      BY <2>2 DEF ReadInv, IndexInv, NotAnItem
    <3>2. 0..(in - 1) = {} /\ 0..(in' - 1) = {}
      BY <3>1
    <3> QED
      BY <2>1, <3>1, <3>2, Zenon DEF StackInv
  <2>3. CASE ~is_finished
    <3>1. in >= 1
      BY <2>3, ClaimBacked
    <3>2. taken' = taken \cup {work[in - 1]}
      BY <2>3, <3>1 DEF ReadInv, StackInv, NotAnItem
    <3>3. /\ in' = in - 1 /\ in \in Nat /\ UNCHANGED <<work, is_finished>>
          /\ in - 1 \in 0..(in - 1)
      BY <2>3, <3>1 DEF IndexInv
    <3>4. \A k \in 0..(in' - 1) : k \in 0..(in - 1) /\ k # in - 1
      BY <3>3
    <3>5. \A k \in 0..(in - 1) : k = in - 1 \/ k \in 0..(in' - 1)
      BY <3>3
    <3> HIDE DEF Produced
    <3>6. \A k \in 0..(in' - 1) : work'[k] \in (1..Produced') \ taken'
      BY <2>1, <2>3, <3>2, <3>3, <3>4 DEF StackInv
    <3>7. \A k, m \in 0..(in' - 1) : work'[k] = work'[m] => k = m
      BY <2>3, <3>3, <3>4 DEF StackInv
    <3>8. \A x \in 1..Produced' :
            x \in taken' \/ \E k \in 0..(in' - 1) : work'[k] = x
      BY <2>1, <3>2, <3>3, <3>5, Zenon DEF StackInv
    <3>9. taken' \subseteq 1..Produced'
      <4>1. work[in - 1] \in 1..Produced /\ taken \subseteq 1..Produced
        BY <2>3, <3>3 DEF StackInv
      <4> QED
        BY <2>1, <3>2, <4>1, Zenon
    <3> QED
      BY <2>1, <3>6, <3>7, <3>8, <3>9 DEF StackInv
  <2> QED
    BY <2>2, <2>3
<1>7. ASSUME NEW c \in Consumers,
             \/ C_open_shm(c) \/ C_initialize_sems(c) \/ C_check_finished(c)
             \/ C_loop(c) \/ C_loop_end(c) \/ C_lock(c, "claimed", "take")
             \/ C_take(c) \/ C_unlock(c) \/ C_work(c) \/ wait_for_producer(c)
      PROVE  StackInv'
  <2>1. UNCHANGED <<work, in, taken, is_finished, ppc, i>>
    BY <1>7
    DEF C_open_shm, C_initialize_sems, C_check_finished, C_lock, C_loop,
        C_loop_end, C_take, C_unlock, C_work, wait_for_producer,
        prodVars, bufVars
  <2> QED
    BY <2>1 DEF StackInv, Produced
<1> QED
  BY <1>1, <1>2, <1>3, <1>4, <1>5, <1>6, <1>7 DEF Next, Producer, ConsumerRuns

(* The value between a consumer's read and its decrements.                  *)
LEMMA ReadStep ==
  ASSUME IInv, Next
  PROVE  ReadInv'
<1> USE DEF IInv, TypeOK, ReadInv, SharedMemExclusive, ProducerHolds,
            ConsumerHolds
<1>1. CASE Producer
  BY <1>1
  DEF Producer, initialize_shared_mem, initialize_sems, P_lock,
      initialize_buffer, P_loop, P_loop_end, P_room, P_full,
      wait_for_consumer, P_put, P_advance, P_signal, P_unlock, P_drain,
      P_drain_end, P_not_drained, P_drained, P_broadcast, P_broadcast_end,
      unlink_all, consVars, bufVars, ControlInv
<1>2. ASSUME NEW c \in Consumers, C_take(c)
      PROVE  ReadInv'
  <2> USE <1>2 DEF C_take, Goto, prodVars, semVars, bufVars
  <2>1. CASE is_finished
    BY <2>1, SizesAssumption
    DEF IndexInv, ControlInv, Produced, Slots, NotAnItem
  <2>2. CASE ~is_finished
    <3>1. out = in - 1 /\ out \in Slots
      BY <2>2, ClaimBacked, SizesAssumption DEF IndexInv, StackInv, Slots, Produced
    <3> QED
      BY <2>2, <3>1
  <2> QED
    BY <2>1, <2>2
<1>3. ASSUME NEW c \in Consumers, C_dec(c)
      PROVE  ReadInv'
  BY <1>3 DEF C_dec, Goto
<1>4. ASSUME NEW c \in Consumers,
             \/ C_open_shm(c) \/ C_initialize_sems(c) \/ C_check_finished(c)
             \/ C_loop(c) \/ C_loop_end(c) \/ C_lock(c, "claimed", "take")
             \/ C_unlock(c) \/ C_work(c) \/ wait_for_producer(c)
      PROVE  ReadInv'
  BY <1>4
  DEF C_open_shm, C_initialize_sems, C_check_finished, C_lock, C_loop,
      C_loop_end, C_unlock, C_work, wait_for_producer, Goto,
      prodVars, bufVars
<1> QED
  BY <1>1, <1>2, <1>3, <1>4 DEF Next, ConsumerRuns

-------------------------------------------------------------------------------
(* Every step of either program preserves the inductive invariant.          *)
LEMMA NextInv == IInv /\ [Next]_vars => IInv'
<1> SUFFICES ASSUME IInv, [Next]_vars PROVE IInv'
  OBVIOUS
<1>1. CASE Next
  <2>1. TypeOK' /\ SharedMemExclusive' /\ FullHandshake' /\ ControlInv'
    BY <1>1, TypeStep, ExclusiveStep, HandshakeStep, ControlStep DEF IInv
  <2>2. TokenAccounting' /\ IndexInv' /\ StackInv' /\ ReadInv'
    BY <1>1, TokenStep, IndexStep, StackStep, ReadStep
  <2> QED
    BY <2>1, <2>2 DEF IInv
<1>2. CASE UNCHANGED vars
  <2> USE <1>2
      DEF vars, semVars, bufVars, prodVars, consVars, IInv
  <2>1. TypeOK' /\ SharedMemExclusive' /\ FullHandshake' /\ ControlInv'
    BY DEF TypeOK, SharedMemExclusive, FullHandshake, ControlInv
  <2>2. TokenAccounting'
    BY DEF TokenAccounting, Claimed, TokenSurplus
  <2>3. IndexInv' /\ StackInv' /\ ReadInv'
    BY DEF IndexInv, StackInv, ReadInv, Produced
  <2> QED
    BY <2>1, <2>2, <2>3
<1> QED
  BY <1>1, <1>2

(* The inductive invariant holds in every state of every behaviour.         *)
THEOREM Invariance == Spec => []IInv
BY InitInv, NextInv, PTL DEF Spec

(* Variables keep their types; in particular sem_3 stays a binary semaphore. *)
THEOREM TypeCorrect == Spec => []TypeOK
<1>1. IInv => TypeOK
  BY DEF IInv
<1> QED
  BY Invariance, <1>1, PTL

(* lock_shared_mem/unlock_shared_mem give mutual exclusion among the          *)
(* producer and any number of consumers.                                     *)
THEOREM MutualExclusion == Spec => []SharedMemExclusive
<1>1. IInv => SharedMemExclusive
  BY DEF IInv
<1> QED
  BY Invariance, <1>1, PTL

(* No token of sem_2 is lost or invented; the surplus after the broadcast is *)
(* exactly MAX_NUM_CONSUMERS.                                                *)
THEOREM TokensMatchItems == Spec => []TokenAccounting
<1>1. IInv => TokenAccounting
  BY DEF IInv
<1> QED
  BY Invariance, <1>1, PTL

(* The is_full/sem_1 handshake neither loses nor keeps a wakeup.             *)
THEOREM NoLostWakeup == Spec => []FullHandshake
<1>1. IInv => FullHandshake
  BY DEF IInv
<1> QED
  BY Invariance, <1>1, PTL

(* The producer never writes outside work[], although it gives up the lock   *)
(* between its test and its write.                                           *)
THEOREM NoOverflow == Spec => []PutWithinBuffer
<1>1. IInv => PutWithinBuffer
  BY SizesAssumption
  DEF IInv, TypeOK, ControlInv, IndexInv, PutWithinBuffer, Slots
<1> QED
  BY Invariance, <1>1, PTL

(* No item is reported by two consumers, or before it was produced.          *)
THEOREM ConsumedOnce == Spec => []NoDoubleConsumption
<1>1. IInv => NoDoubleConsumption
  <2> SUFFICES ASSUME IInv, NEW c \in Consumers, cpc[c] = "dec", ~is_finished
               PROVE  consumed_value[c] \in (1..Produced) \ taken
    BY DEF NoDoubleConsumption
  <2>1. in - 1 \in 0..(in - 1)
    BY ClaimBacked DEF IInv, TypeOK
  <2> QED
    BY <2>1 DEF IInv, StackInv, ReadInv
<1> QED
  BY Invariance, <1>1, PTL

(* The end is declared only when every item asked for has been consumed.     *)
THEOREM FinishedMeansConsumed == Spec => []AllConsumedAtFinish
<1>1. IInv => AllConsumedAtFinish
  <2> SUFFICES ASSUME IInv, is_finished PROVE taken = Items
    BY DEF AllConsumedAtFinish
  <2>1. Produced = NUM_ITEMS /\ 0..(in - 1) = {}
    BY DEF IInv, TypeOK, IndexInv, Produced
  <2> QED
    BY <2>1 DEF IInv, StackInv, Items
<1> QED
  BY Invariance, <1>1, PTL

-------------------------------------------------------------------------------
(* Refinement of WorkPool.                                                   *)

(* A step of the programs is a step of the pool or leaves the pool alone:    *)
(* P_advance produces, C_dec consumes, P_drained closes.                     *)
LEMMA PoolStep == IInv /\ [Next]_vars => [Pool!PoolNext]_(Pool!poolVars)
<1> SUFFICES ASSUME IInv, [Next]_vars
             PROVE  Pool!PoolNext \/ UNCHANGED <<Produced, taken, is_finished>>
  BY DEF Pool!poolVars
<1>1. CASE P_advance
  <2>1. Pool!Produce
    BY <1>1
    DEF P_advance, consVars, Pool!Produce, Produced, IInv, ControlInv
  <2> QED
    BY <2>1 DEF Pool!PoolNext
<1>2. CASE P_drained
  <2>1. /\ ~is_finished /\ is_finished' /\ UNCHANGED taken
        /\ Produced' = Produced /\ Produced = NUM_ITEMS
        /\ 0..(in - 1) = {}
    BY <1>2
    DEF P_drained, Drained, consVars, Produced, IInv, ControlInv
  <2>2. taken = 1..NUM_ITEMS
    BY <2>1 DEF IInv, StackInv
  <2>3. Pool!Close
    BY <2>1, <2>2 DEF Pool!Close
  <2> QED
    BY <2>3 DEF Pool!PoolNext
<1>3. ASSUME NEW c \in Consumers, C_dec(c)
      PROVE  Pool!PoolNext \/ UNCHANGED <<Produced, taken, is_finished>>
  <2>1. /\ UNCHANGED <<Produced, is_finished>> /\ cpc[c] = "dec"
        /\ taken' = taken \cup ({consumed_value[c]} \ {NotAnItem})
    BY <1>3 DEF C_dec, Goto, prodVars, Produced
  <2>2. CASE is_finished
    <3>1. consumed_value[c] = NotAnItem
      BY <2>1, <2>2 DEF IInv, ReadInv
    <3> QED
      BY <2>1, <3>1
  <2>3. CASE ~is_finished
    <3>1. in - 1 \in 0..(in - 1)
      BY <2>1, <2>3, ClaimBacked DEF IInv, TypeOK
    <3>2. consumed_value[c] \in (1..Produced) \ taken
      BY <2>1, <2>3, <3>1 DEF IInv, StackInv, ReadInv
    <3>3. consumed_value[c] # NotAnItem
      BY <3>2 DEF IInv, TypeOK, Produced, NotAnItem
    <3>4. Pool!Consume
      BY <2>1, <3>2, <3>3 DEF Pool!Consume
    <3> QED
      BY <3>4 DEF Pool!PoolNext
  <2> QED
    BY <2>2, <2>3
<1>4. CASE \/ initialize_shared_mem \/ initialize_sems \/ P_loop \/ P_loop_end
           \/ P_lock("start", "init") \/ P_room \/ P_full \/ P_put
           \/ wait_for_consumer \/ P_lock("relock", "put") \/ P_signal
           \/ P_unlock \/ P_drain \/ P_drain_end \/ P_not_drained
           \/ P_broadcast \/ P_broadcast_end \/ unlink_all
  BY <1>4
  DEF initialize_shared_mem, initialize_sems, P_loop, P_loop_end, P_lock,
      P_room, P_full, P_put, wait_for_consumer, P_signal, P_unlock, P_drain,
      P_drain_end, P_not_drained, P_broadcast, P_broadcast_end, unlink_all,
      bufVars, consVars, Produced, IInv, ControlInv
<1>5. ASSUME NEW c \in Consumers,
             \/ C_open_shm(c) \/ C_initialize_sems(c) \/ C_check_finished(c)
             \/ C_loop(c) \/ C_loop_end(c) \/ C_lock(c, "claimed", "take")
             \/ C_take(c) \/ C_unlock(c) \/ C_work(c) \/ wait_for_producer(c)
      PROVE  UNCHANGED <<Produced, taken, is_finished>>
  BY <1>5
  DEF C_open_shm, C_initialize_sems, C_check_finished, C_lock, C_loop,
      C_loop_end, C_take, C_unlock, C_work, wait_for_producer,
      prodVars, bufVars, Produced
<1>6. CASE initialize_buffer
  <2>1. ~is_finished /\ ~is_finished'
    BY <1>6 DEF initialize_buffer, IInv, ControlInv
  <2>2. is_finished = FALSE /\ is_finished' = FALSE
    BY <1>6, <2>1, Zenon DEF initialize_buffer, IInv, TypeOK
  <2> QED
    BY <1>6, <2>2 DEF initialize_buffer, consVars, Produced
<1>7. CASE UNCHANGED vars
  BY <1>7 DEF vars, bufVars, prodVars, consVars, Produced
<1> QED
  BY <1>1, <1>2, <1>3, <1>4, <1>5, <1>6, <1>7 DEF Next, Producer, ConsumerRuns

(* The producer, the consumers and the shared buffer implement the pool.     *)
THEOREM Refinement == Spec => PoolSpec
<1>1. Init => Pool!PoolInit
  BY DEF Init, Pool!PoolInit, Produced
<1> QED
  BY <1>1, PoolStep, Invariance, PTL DEF Spec, PoolSpec, Pool!PoolSpec

-------------------------------------------------------------------------------
(* The phantom takes of the final broadcast.                                *)

(* Consumers that can still decrement in without looking at is_finished.    *)
Takers ==
  {c \in Consumers : cpc[c] \in {"wait", "claimed", "take", "dec", "fault"}}

(* Once is_finished is set, each decrement below zero uses up one taker.    *)
PhantomInv ==
  is_finished => in >= Cardinality(Takers) - Cardinality(Consumers)

(* The takers are finitely many, and no more than the consumers.            *)
LEMMA TakersBound ==
  /\ IsFiniteSet(Takers)
  /\ Cardinality(Takers) \in Nat
  /\ Cardinality(Consumers) \in Nat
  /\ Cardinality(Takers) <= Cardinality(Consumers)
<1>1. Takers \subseteq Consumers
  BY DEF Takers
<1> QED
  BY <1>1, ConsumersAssumption, FS_Subset, FS_CardinalityType

(* After the broadcast nobody starts to wait any more: a consumer that comes *)
(* back to the head of its loop sees is_finished and leaves.                 *)
LEMMA PhantomStep == IInv /\ PhantomInv /\ [Next]_vars => PhantomInv'
<1> SUFFICES ASSUME IInv, PhantomInv, [Next]_vars, is_finished'
             PROVE  in' >= Cardinality(Takers') - Cardinality(Consumers)
  BY DEF PhantomInv
<1> USE TakersBound DEF IInv, TypeOK
<1>1. CASE P_drained
  <2>1. in' = 0 /\ Takers' = Takers
    BY <1>1 DEF P_drained, Drained, consVars, Takers
  <2> QED
    BY <2>1
<1>2. CASE Producer /\ ~P_drained
  <2>1. UNCHANGED <<in, is_finished, cpc>>
    BY <1>2
    DEF Producer, initialize_shared_mem, initialize_sems, P_lock,
        initialize_buffer, P_loop, P_loop_end, P_room, P_full,
        wait_for_consumer, P_put, P_advance, P_signal, P_unlock, P_drain,
        P_drain_end, P_not_drained, P_broadcast, P_broadcast_end,
        unlink_all, consVars, bufVars, ControlInv
  <2>2. Takers' = Takers
    BY <2>1 DEF Takers
  <2> QED
    BY <2>1, <2>2 DEF PhantomInv
<1>3. ASSUME NEW c \in Consumers, C_dec(c)
      PROVE  in' >= Cardinality(Takers') - Cardinality(Consumers)
  <2>1. Takers' = Takers \ {c} /\ c \in Takers
    BY <1>3 DEF C_dec, Goto, Takers
  <2>2. Cardinality(Takers') = Cardinality(Takers) - 1
    BY <2>1, FS_RemoveElement
  <2> QED
    BY <1>3, <2>2 DEF C_dec, pop, PhantomInv
<1>4. ASSUME NEW c \in Consumers,
             \/ C_open_shm(c) \/ C_initialize_sems(c) \/ C_check_finished(c)
             \/ C_loop(c) \/ C_loop_end(c) \/ C_lock(c, "claimed", "take")
             \/ C_take(c) \/ C_unlock(c) \/ C_work(c) \/ wait_for_producer(c)
      PROVE  in' >= Cardinality(Takers') - Cardinality(Consumers)
  <2>1. UNCHANGED <<in, is_finished>>
    BY <1>4
    DEF C_open_shm, C_initialize_sems, C_check_finished, C_lock, C_loop,
        C_loop_end, C_take, C_unlock, C_work, wait_for_producer, bufVars
  <2>2. Takers' = Takers
    BY <1>4, <2>1
    DEF C_open_shm, C_initialize_sems, C_check_finished, C_lock, C_loop,
        C_loop_end, C_take, C_unlock, C_work, wait_for_producer, Goto,
        SeesFinished, Takers
  <2> QED
    BY <2>1, <2>2 DEF PhantomInv
<1>5. CASE UNCHANGED vars
  <2>1. UNCHANGED <<in, is_finished, cpc>>
    BY <1>5 DEF vars, bufVars, consVars
  <2>2. Takers' = Takers
    BY <2>1 DEF Takers
  <2> QED
    BY <2>1, <2>2 DEF PhantomInv
<1> QED
  BY <1>1, <1>2, <1>3, <1>4, <1>5 DEF Next, ConsumerRuns

(* The final broadcast: together the consumers take at most as many items    *)
(* that do not exist as there are consumers.                                 *)
THEOREM PhantomsBounded == Spec => []PhantomTakesBounded
<1>1. Init => PhantomInv
  BY DEF Init, PhantomInv
<1>2. IInv /\ PhantomInv => PhantomTakesBounded
  BY TakersBound DEF IInv, TypeOK, PhantomInv, PhantomTakesBounded
<1> QED
  BY <1>1, <1>2, PhantomStep, Invariance, PTL DEF Spec

===============================================================================
