----------------------------- MODULE QueueProofs ------------------------------
(***************************************************************************)
(* Proofs about Queue for any number of elements and threads: the mutex     *)
(* keeps insertions apart, the pointers spell out exactly what was inserted *)
(* and not removed, and no insertion writes through a dangling tail.        *)
(***************************************************************************)
EXTENDS Queue, WalkLemmas

(* Only the holder of mutex_shared is inside insert_element.                *)
MutexInv == \A t \in Threads : tpc[t] \in Holds => mutex_shared = t

(* Elements about to be inserted are each in one hand and not in the queue. *)
HandInv ==
  \A t \in Threads : tpc[t] # "idle" =>
    /\ element[t] \in Elements
    /\ \A u \in Threads \ {t} : tpc[u] # "idle" => element[u] # element[t]
    /\ tpc[t] \in {"lock", "reset", "test", "set_head", "link"} =>
         element[t] \notin Queued

(* head and the next pointers lead through contents, once, to NULL.         *)
ChainInv ==
  /\ contents = <<>> => head = NULL
  /\ contents # <<>> =>
       head = contents[1] /\ next[contents[Len(contents)]] = NULL
  /\ \A k \in 1..(Len(contents) - 1) : next[contents[k]] = contents[k + 1]
  /\ \A k, m \in 1..Len(contents) : contents[k] = contents[m] => k = m

(* Where tail and the new element stand at each point of insert_element.    *)
TailInv ==
  /\ contents # <<>> /\ (\A t \in Threads : tpc[t] \notin {"set_tail", "advance"})
       => tail = contents[Len(contents)]
  /\ \A t \in Threads :
       /\ tpc[t] \in {"test", "set_head", "link"} => next[element[t]] = NULL
       /\ tpc[t] = "set_head" => contents = <<>>
       /\ tpc[t] = "link" => contents # <<>>
       /\ tpc[t] = "set_tail" =>
            Len(contents) = 1 /\ element[t] = contents[1]
       /\ tpc[t] = "advance" =>
            /\ Len(contents) > 1
            /\ tail = contents[Len(contents) - 1]
            /\ element[t] = contents[Len(contents)]

QInv == TypeOK /\ MutexInv /\ HandInv /\ ChainInv /\ TailInv

-------------------------------------------------------------------------------
(* A fresh queue satisfies the invariant.                                   *)
LEMMA InitInv == Init => QInv
BY PointersAssumption, ThreadsAssumption
DEF Init, create_queue, QInv, TypeOK, MutexInv, HandInv, ChainInv, TailInv,
    Holds, Queued

(* pthread_mutex_lock lets one thread at a time into insert_element.        *)
LEMMA MutexStep ==
  ASSUME QInv, Next
  PROVE  MutexInv'
BY ThreadsAssumption
DEF QInv, TypeOK, MutexInv, Holds, Next, malloc, lock, insert_element, reset,
    test, set_head, set_tail, link, advance, unlock, remove_element, Goto,
    mutex_lock

(* Pointers keep their types.                                               *)
LEMMA TypeStep ==
  ASSUME QInv, Next
  PROVE  TypeOK'
<1> USE PointersAssumption, ThreadsAssumption DEF QInv, TypeOK
<1>1. head' \in Elements \cup {NULL} /\ tail' \in Elements \cup {NULL}
  BY DEF HandInv, ChainInv, TailInv, Next, malloc, lock, insert_element,
    reset, test, set_head, set_tail, link, advance, unlock, remove_element,
    Goto
<1>2. next' \in [Elements -> Elements \cup {NULL, GARBAGE}]
  BY DEF HandInv, Next, malloc, lock, insert_element, reset, test, set_head,
    set_tail, link, advance, unlock, remove_element, Goto, reset_next
<1>3. tpc' \in [Threads -> Holds \cup {"idle", "lock"}]
  BY DEF Next, malloc, lock, insert_element, reset, test, set_head,
    set_tail, link, advance, unlock, remove_element, Goto, Holds
<1>4. element' \in [Threads -> Elements \cup {NULL}]
  BY DEF Next, malloc, lock, insert_element, reset, test, set_head,
    set_tail, link, advance, unlock, remove_element
<1>5. contents' \in Seq(Elements)
  <2>1. \/ contents' = contents
        \/ \E e \in Elements : contents' = Append(contents, e)
        \/ contents # <<>> /\ contents' = Tail(contents)
    BY DEF HandInv, ChainInv, Next, malloc, lock, insert_element, reset,
      test, set_head, set_tail, link, advance, unlock, remove_element, Goto
  <2> QED
    BY SMTT(60), <2>1, AppendProperties, HeadTailProperties
<1>6. mutex_shared' \in Threads \cup {NOBODY}
  BY DEF Next, malloc, lock, insert_element, reset, test, set_head,
    set_tail, link, advance, unlock, remove_element, mutex_lock
<1> QED
  BY <1>1, <1>2, <1>3, <1>4, <1>5, <1>6

(* What Tail does to the positions of a sequence.                           *)
LEMMA TailPositions ==
  ASSUME NEW S, NEW s \in Seq(S), s # <<>>
  PROVE  /\ Len(s) \in Nat /\ Len(s) >= 1
         /\ Len(Tail(s)) = Len(s) - 1
         /\ Tail(s) = <<>> <=> Len(s) = 1
         /\ \A k \in 1..(Len(s) - 1) : Tail(s)[k] = s[k + 1]
<1>1. Len(s) \in Nat \ {0}
  BY EmptySeq
<1>2. Tail(s) \in Seq(S) /\ Len(Tail(s)) = Len(s) - 1
  BY HeadTailProperties
<1>3. Tail(s) = <<>> <=> Len(Tail(s)) = 0
  BY <1>2, EmptySeq
<1>4. \A k \in 1..(Len(s) - 1) : Tail(s)[k] = s[k + 1]
  BY <1>2, HeadTailProperties
<1> QED
  BY <1>1, <1>2, <1>3, <1>4

(* malloc returns an element nobody uses; insertion gives it to the queue.   *)
LEMMA HandStep ==
  ASSUME QInv, Next
  PROVE  HandInv'
<1> USE DEF QInv, TypeOK, HandInv, Goto
<1>1. ASSUME NEW t \in Threads, malloc(t)
      PROVE  HandInv'
  BY <1>1 DEF malloc, InHand, Queued
<1>2. ASSUME NEW t \in Threads,
             lock(t) \/ reset(t) \/ test(t) \/ set_tail(t) \/ advance(t) \/ unlock(t)
      PROVE  HandInv'
  BY <1>2 DEF lock, reset, test, set_tail, advance, unlock, Queued
<1>3. ASSUME NEW t \in Threads, set_head(t) \/ link(t)
      PROVE  HandInv'
  <2>1. Queued' = Queued \cup {element[t]}
    <3>1. contents' = Append(contents, element[t]) /\ element[t] \in Elements
      BY <1>3 DEF set_head, link
    <3> DEFINE n == Len(contents)
    <3>2. /\ n \in Nat /\ DOMAIN contents = 1..n
          /\ DOMAIN contents' = 1..(n + 1)
          /\ \A k \in 1..n : contents'[k] = contents[k]
          /\ contents'[n + 1] = element[t]
      BY <3>1, AppendProperties, LenProperties
    <3>3. 1..(n + 1) = 1..n \cup {n + 1}
      BY <3>2
    <3> HIDE DEF n
    <3>4. Queued' = {contents'[k] : k \in 1..(n + 1)}
      BY <3>2 DEF Queued
    <3>5. Queued = {contents[k] : k \in 1..n}
      BY <3>2 DEF Queued
    <3> QED
      BY <3>2, <3>3, <3>4, <3>5
  <2> QED
    BY <1>3, <2>1 DEF set_head, link, MutexInv, Holds
<1>4. CASE remove_element
  BY <1>4 DEF remove_element
<1> QED
  BY <1>1, <1>2, <1>3, <1>4 DEF Next, insert_element

(* The chain of next pointers: only link extends it and remove_element      *)
(* shortens it; every other write goes to an element outside the queue.     *)
LEMMA ChainStep ==
  ASSUME QInv, Next
  PROVE  ChainInv'
<1> USE DEF QInv
<1> contents \in Seq(Elements) /\ Len(contents) \in Nat
  BY LenProperties DEF TypeOK
<1>1. \A k \in 1..Len(contents) : contents[k] \in Queued
  BY LenProperties DEF Queued, TypeOK
<1>2. ASSUME NEW t \in Threads, malloc(t)
      PROVE  ChainInv'
  <2>1. UNCHANGED <<head, contents>>
    BY <1>2 DEF malloc
  <2>2. \A k \in 1..Len(contents) : next'[contents[k]] = next[contents[k]]
    BY <1>1, <1>2 DEF malloc, TypeOK
  <2>3. contents # <<>> => Len(contents) \in 1..Len(contents)
    BY EmptySeq
  <2> QED
    BY <2>1, <2>2, <2>3 DEF ChainInv
<1>3. ASSUME NEW t \in Threads, reset(t)
      PROVE  ChainInv'
  <2>1. UNCHANGED <<head, contents>>
    BY <1>3 DEF reset
  <2>2. \A k \in 1..Len(contents) : next'[contents[k]] = next[contents[k]]
    BY <1>1, <1>3 DEF reset, reset_next, Goto, TypeOK, HandInv
  <2>3. contents # <<>> => Len(contents) \in 1..Len(contents)
    BY EmptySeq
  <2> QED
    BY <2>1, <2>2, <2>3 DEF ChainInv
<1>4. ASSUME NEW t \in Threads,
             lock(t) \/ test(t) \/ set_tail(t) \/ advance(t) \/ unlock(t)
      PROVE  ChainInv'
  <2>1. UNCHANGED <<head, next, contents>>
    BY <1>4 DEF lock, test, set_tail, advance, unlock
  <2> QED
    BY <2>1 DEF ChainInv
<1>5. ASSUME NEW t \in Threads, set_head(t)
      PROVE  ChainInv'
  <2>1. /\ contents = <<>> /\ contents' = Append(<<>>, element[t])
        /\ element[t] \in Elements /\ head' = element[t]
        /\ next'[element[t]] = NULL
    BY <1>5 DEF set_head, Goto, HandInv, TailInv
  <2>2. Len(contents') = 1 /\ contents'[1] = element[t]
    BY <2>1, EmptySeq, AppendProperties
  <2> QED
    BY <2>1, <2>2 DEF ChainInv
<1>6. ASSUME NEW t \in Threads, link(t)
      PROVE  ChainInv'
  <2> DEFINE n == Len(contents)
  <2>1. /\ contents # <<>> /\ contents' = Append(contents, element[t])
        /\ element[t] \in Elements \ Queued /\ UNCHANGED head
        /\ next[element[t]] = NULL
        /\ tail = contents[n] /\ next' = [next EXCEPT ![tail] = element[t]]
    <3>1. \A u \in Threads : tpc[u] \notin {"set_tail", "advance"}
      BY <1>6 DEF link, Goto, MutexInv, Holds
    <3> QED
      BY <1>6, <3>1 DEF link, Goto, HandInv, TailInv
  <2>2. /\ n \in Nat /\ n >= 1 /\ Len(contents') = n + 1
        /\ contents'[n + 1] = element[t]
        /\ \A k \in 1..n : contents'[k] = contents[k]
    BY <2>1, EmptySeq, AppendProperties
  <2>3. /\ next'[contents[n]] = element[t]
        /\ next'[element[t]] = NULL
        /\ \A k \in 1..(n - 1) : next'[contents[k]] = contents[k + 1]
    <3>1. \A k \in 1..(n - 1) : contents[k] # contents[n]
      BY <2>2 DEF ChainInv
    <3>2. element[t] # contents[n] /\ contents[n] \in Elements
      BY <1>1, <2>1, <2>2, ElementOfSeq
    <3>3. \A k \in 1..(n - 1) : contents[k] \in Elements
      BY <2>2, ElementOfSeq
    <3> QED
      BY <2>1, <3>1, <3>2, <3>3 DEF ChainInv, TypeOK
  <2>4. \A k \in 1..(Len(contents') - 1) : next'[contents'[k]] = contents'[k + 1]
    <3> SUFFICES ASSUME NEW k \in 1..n
                 PROVE  next'[contents'[k]] = contents'[k + 1]
      BY <2>2
    <3>1. CASE k = n
      BY <2>2, <2>3, <3>1
    <3>2. CASE k \in 1..(n - 1)
      BY <2>2, <2>3, <3>2
    <3> QED
      BY <2>2, <3>1, <3>2
  <2>5. \A k, m \in 1..Len(contents') : contents'[k] = contents'[m] => k = m
    <3>1. \A k \in 1..n : contents'[k] # element[t]
      BY <1>1, <2>1, <2>2
    <3>2. \A k \in 1..(n + 1) : k = n + 1 \/ k \in 1..n
      BY <2>2
    <3> QED
      BY <2>2, <3>1, <3>2 DEF ChainInv
  <2> QED
    BY <2>1, <2>2, <2>3, <2>4, <2>5 DEF ChainInv
<1>7. CASE remove_element
  <2> DEFINE n == Len(contents)
  <2>1. contents # <<>> /\ contents' = Tail(contents) /\ head' = next[head]
        /\ UNCHANGED next
    BY <1>7 DEF remove_element, ChainInv
  <2>2. /\ n \in Nat /\ n >= 1 /\ Len(contents') = n - 1
        /\ contents' = <<>> <=> n = 1
        /\ \A k \in 1..(n - 1) : contents'[k] = contents[k + 1]
    BY <2>1, TailPositions
  <2>3. /\ contents' = <<>> => head' = NULL
        /\ contents' # <<>> =>
             head' = contents'[1] /\ next'[contents'[n - 1]] = NULL
    BY <2>1, <2>2 DEF ChainInv
  <2>4. \A k \in 1..(n - 2) : next'[contents'[k]] = contents'[k + 1]
    BY <2>1, <2>2 DEF ChainInv
  <2>5. \A k, m \in 1..(n - 1) : contents'[k] = contents'[m] => k = m
    BY <2>1, <2>2 DEF ChainInv
  <2> QED
    BY <2>2, <2>3, <2>4, <2>5 DEF ChainInv
<1> QED
  BY <1>2, <1>3, <1>4, <1>5, <1>6, <1>7 DEF Next, insert_element

(* tail, and the element in the inserting thread's hand.                    *)
LEMMA TailStep ==
  ASSUME QInv, Next
  PROVE  TailInv'
<1> USE DEF QInv, Goto
<1> contents \in Seq(Elements) /\ Len(contents) \in Nat
  BY LenProperties DEF TypeOK
<1>1. ASSUME NEW t \in Threads, malloc(t)
      PROVE  TailInv'
  <2>1. \A u \in Threads : tpc[u] # "idle" => next'[element[u]] = next[element[u]]
    BY <1>1 DEF malloc, InHand, TypeOK, HandInv
  <2> QED
    BY <1>1, <2>1 DEF malloc, TailInv, TypeOK
<1>2. ASSUME NEW t \in Threads, lock(t)
      PROVE  TailInv'
  BY <1>2 DEF lock, TailInv, TypeOK
<1>3. ASSUME NEW t \in Threads, reset(t)
      PROVE  TailInv'
  <2>1. \A u \in Threads \ {t} : tpc[u] \notin Holds
    BY <1>3 DEF reset, MutexInv, Holds
  <2> QED
    BY <1>3, <2>1 DEF reset, reset_next, TailInv, TypeOK, HandInv, Holds
<1>4. ASSUME NEW t \in Threads, test(t)
      PROVE  TailInv'
  <2>1. contents = <<>> <=> head = NULL
    <3>1. contents # <<>> => contents[1] \in Elements
      BY EmptySeq, ElementOfSeq
    <3> QED
      BY <3>1, PointersAssumption DEF ChainInv
  <2> QED
    BY <1>4, <2>1 DEF test, queue_is_empty, TailInv, TypeOK
<1>5. ASSUME NEW t \in Threads, set_head(t)
      PROVE  TailInv'
  <2>1. \A u \in Threads \ {t} : tpc'[u] \notin Holds
    BY <1>5 DEF set_head, MutexInv, Holds, TypeOK
  <2>2. /\ Len(contents') = 1 /\ contents'[1] = element[t]
        /\ element' = element /\ tpc'[t] = "set_tail"
    <3>1. contents = <<>> /\ element[t] \in Elements
      BY <1>5 DEF set_head, TailInv, HandInv
    <3> QED
      BY <1>5, <3>1, EmptySeq, AppendProperties DEF set_head, TypeOK
  <2> QED
    BY <2>1, <2>2 DEF TailInv, Holds
<1>6. ASSUME NEW t \in Threads, set_tail(t)
      PROVE  TailInv'
  <2>1. \A u \in Threads \ {t} : tpc'[u] \notin Holds
    BY <1>6 DEF set_tail, MutexInv, Holds, TypeOK
  <2>2. /\ contents' = contents /\ Len(contents) = 1
        /\ tail' = contents[1] /\ tpc'[t] = "unlock"
    BY <1>6 DEF set_tail, TailInv, TypeOK
  <2> QED
    BY <2>1, <2>2 DEF TailInv, Holds
<1>7. ASSUME NEW t \in Threads, link(t)
      PROVE  TailInv'
  <2>1. \A u \in Threads \ {t} : tpc'[u] \notin Holds /\ tpc[u] \notin Holds
    BY <1>7 DEF link, MutexInv, Holds, TypeOK
  <2>2. /\ contents # <<>> /\ tail = contents[Len(contents)]
        /\ element[t] \in Elements /\ contents' = Append(contents, element[t])
        /\ tpc'[t] = "advance" /\ UNCHANGED <<tail, element>>
    BY <1>7, <2>1 DEF link, TailInv, HandInv, Holds, TypeOK
  <2>3. /\ Len(contents) >= 1 /\ Len(contents') = Len(contents) + 1
        /\ contents'[Len(contents) + 1] = element[t]
        /\ contents'[Len(contents)] = contents[Len(contents)]
    BY <2>2, EmptySeq, AppendProperties
  <2> QED
    BY <2>1, <2>2, <2>3 DEF TailInv, Holds
<1>8. ASSUME NEW t \in Threads, advance(t)
      PROVE  TailInv'
  <2>1. \A u \in Threads \ {t} : tpc'[u] \notin Holds
    BY <1>8 DEF advance, MutexInv, Holds, TypeOK
  <2>2. /\ contents' = contents /\ Len(contents) > 1
        /\ tail = contents[Len(contents) - 1] /\ tail' = next[tail]
        /\ tpc'[t] = "unlock"
    BY <1>8 DEF advance, TailInv, TypeOK
  <2>3. next[contents[Len(contents) - 1]] = contents[Len(contents)]
    BY <2>2 DEF ChainInv
  <2> QED
    BY <2>1, <2>2, <2>3 DEF TailInv, Holds
<1>9. ASSUME NEW t \in Threads, unlock(t)
      PROVE  TailInv'
  BY <1>9 DEF unlock, TailInv, TypeOK, MutexInv, Holds
<1>10. CASE remove_element
  <2>1. contents # <<>> /\ contents' = Tail(contents)
        /\ UNCHANGED <<tail, tpc>> /\ \A t \in Threads : tpc[t] = "idle"
    BY <1>10 DEF remove_element, ChainInv
  <2>2. /\ Len(contents') = Len(contents) - 1 /\ Len(contents) >= 1
        /\ contents' = <<>> <=> Len(contents) = 1
        /\ \A k \in 1..(Len(contents) - 1) : contents'[k] = contents[k + 1]
    BY <2>1, TailPositions
  <2>3. tail = contents[Len(contents)]
    BY <2>1 DEF TailInv
  <2>4. contents' # <<>> => tail' = contents'[Len(contents')]
    BY <2>1, <2>2, <2>3
  <2> QED
    BY <2>1, <2>4 DEF TailInv
<1> QED
  BY <1>1, <1>2, <1>3, <1>4, <1>5, <1>6, <1>7, <1>8, <1>9, <1>10
  DEF Next, insert_element

-------------------------------------------------------------------------------
(* Every access of every thread preserves the invariant.                    *)
LEMMA NextInv == QInv /\ [Next]_vars => QInv'
<1> SUFFICES ASSUME QInv, [Next]_vars PROVE QInv'
  OBVIOUS
<1>1. CASE Next
  BY <1>1, TypeStep, MutexStep, HandStep, ChainStep, TailStep DEF QInv
<1>2. CASE UNCHANGED vars
  BY <1>2
  DEF vars, QInv, TypeOK, MutexInv, HandInv, Queued, ChainInv, TailInv
<1> QED
  BY <1>1, <1>2

(* The invariant of the pointers holds in every state.                      *)
THEOREM Invariance == Spec => []QInv
BY InitInv, NextInv, PTL DEF Spec

(* Pointers are null or point to elements, never to garbage.                *)
THEOREM TypeCorrect == Spec => []TypeOK
<1>1. QInv => TypeOK
  BY DEF QInv
<1> QED
  BY Invariance, <1>1, PTL

(* head and the next pointers spell out exactly what was inserted and not    *)
(* removed, oldest first, each element once: remove_element returns the      *)
(* oldest one.                                                               *)
THEOREM PointersSpellContents == Spec => []ChainInv
<1>1. QInv => ChainInv
  BY DEF QInv
<1> QED
  BY Invariance, <1>1, PTL

(* insert_element never writes through the tail pointer that remove_element  *)
(* leaves dangling.                                                          *)
THEOREM TailNeverDangles == Spec => []LinkTargetLive
<1>1. QInv => LinkTargetLive
  <2> SUFFICES ASSUME QInv, NEW t \in Threads,
                      tpc[t] \in {"link", "advance"}
               PROVE  /\ contents # <<>>
                      /\ tpc[t] = "link" =>
                           tail = contents[Len(contents)] /\ next[tail] = NULL
                      /\ tpc[t] = "advance" =>
                           next[tail] = contents[Len(contents)]
    BY DEF LinkTargetLive
  <2> USE DEF QInv
  <2>1. \A u \in Threads \ {t} : tpc[u] \notin Holds
    BY DEF MutexInv, Holds
  <2>2. CASE tpc[t] = "link"
    BY <2>1, <2>2 DEF TailInv, ChainInv, Holds
  <2>3. CASE tpc[t] = "advance"
    <3>1. Len(contents) \in Nat
      BY LenProperties DEF TypeOK
    <3>2. contents # <<>>
      BY <2>3, EmptySeq DEF TailInv
    <3> QED
      BY <2>3, <3>1, <3>2 DEF TailInv, ChainInv
  <2> QED
    BY <2>2, <2>3
<1> QED
  BY Invariance, <1>1, PTL

-------------------------------------------------------------------------------
(* Refinement of Fifo.                                                       *)

(* print_queue and num_elements meet exactly what was inserted and not       *)
(* removed, in order, also in the middle of an insertion.                    *)
LEMMA WalkIsContents == QInv => Walk = contents
<1> SUFFICES ASSUME QInv PROVE Walk = contents
  OBVIOUS
<1> DEFINE at == CHOOSE f : IsWalk(f, Elements, head, next, NULL)
<1>1. Leads(contents, Elements, head, next, NULL)
  <2>1. Len(contents) \in Nat /\ (contents = <<>> <=> ~(0 < Len(contents)))
    BY EmptySeq, LenProperties DEF QInv, TypeOK
  <2>2. head = IF 0 < Len(contents) THEN contents[1] ELSE NULL
    BY <2>1 DEF QInv, ChainInv
  <2>3. ASSUME NEW k \in 1..Len(contents)
        PROVE  next[contents[k]] =
                 IF k < Len(contents) THEN contents[k + 1] ELSE NULL
    <3>1. k \in 1..(Len(contents) - 1) \/ (k = Len(contents) /\ contents # <<>>)
      BY <2>1
    <3> QED BY <2>1, <3>1 DEF QInv, ChainInv
  <2> QED
    BY <2>2, <2>3, ElementsAssumption, PointersAssumption
    DEF QInv, TypeOK, ChainInv, Leads
<1>2. IsWalk(at, Elements, head, next, NULL)
  BY <1>1, WalkExists
<1>3. Walk = [k \in 1..Cardinality({m \in 0..Cardinality(Elements) :
                                      at[m] \in Elements}) |-> at[k - 1]]
  BY DEF Walk, IsWalk
<1> HIDE DEF at
<1> QED
  BY <1>1, <1>2, <1>3, WalkMeets

(* set_head and link put an element into the queue, remove_element takes the *)
(* oldest one out; nothing else changes what the queue holds.                *)
LEMMA FifoStep == QInv /\ QInv' /\ [Next]_vars => [F!FifoNext]_Walk
<1>0. (QInv => Walk = contents)'
  BY WalkIsContents, PTL
<1> SUFFICES ASSUME QInv, QInv', [Next]_vars PROVE [F!FifoNext]_Walk
  OBVIOUS
<1>1. Walk = contents /\ Walk' = contents'
  BY <1>0, WalkIsContents
<1>2. ASSUME NEW t \in Threads, set_head(t) \/ link(t)
      PROVE  F!Put
  <2>1. /\ tpc[t] \in {"set_head", "link"}
        /\ contents' = Append(contents, element[t])
    BY <1>2 DEF set_head, link, Goto
  <2>2. element[t] \in Elements /\ element[t] \notin Queued
    BY <2>1 DEF QInv, HandInv
  <2>3. \A k \in DOMAIN contents : contents[k] # element[t]
    BY <2>2 DEF Queued
  <2> QED BY <1>1, <2>1, <2>2, <2>3 DEF F!Put
<1>3. CASE remove_element
  <2>1. contents # <<>> /\ contents' = Tail(contents)
    BY <1>3 DEF remove_element, QInv, ChainInv
  <2> QED BY <1>1, <2>1 DEF F!FifoNext, F!Get
<1>4. ASSUME NEW t \in Threads,
             \/ malloc(t) \/ lock(t) \/ reset(t) \/ test(t) \/ set_tail(t)
             \/ advance(t) \/ unlock(t)
      PROVE  contents' = contents
  BY <1>4 DEF malloc, lock, reset, test, set_tail, advance, unlock
<1>5. CASE UNCHANGED vars
  BY <1>1, <1>5 DEF vars
<1> QED
  BY <1>1, <1>2, <1>3, <1>4, <1>5 DEF Next, insert_element, F!FifoNext

(* The linked queue and the threads that insert under the mutex implement a  *)
(* first-in first-out queue.                                                 *)
THEOREM Refinement == Spec => FifoSpec
<1>1. Init => F!FifoInit
  <2> SUFFICES ASSUME Init PROVE Walk = <<>>
    BY DEF F!FifoInit
  <2>1. contents = <<>>
    BY DEF Init, create_queue
  <2> QED BY <2>1, InitInv, WalkIsContents
<1> QED
  BY <1>1, FifoStep, Invariance, PTL DEF Spec, FifoSpec, F!FifoSpec
===============================================================================
