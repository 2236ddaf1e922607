-------------------------------- MODULE Queue ---------------------------------
(***************************************************************************)
(* The linked queue of src/pp_2/queue_utils.c at the level of its pointers, *)
(* as src/pp_2/mini_grep.c uses it: threads insert under mutex_shared with  *)
(* SHARED_insert_file_element, and elements are removed without the mutex   *)
(* while no insertion is under way (the main thread has joined the          *)
(* inserting threads, or the queue is private to one thread).               *)
(*                                                                          *)
(* insert_element is one action per access to the queue.  Elements are      *)
(* allocated and freed by the callers; a freed element may come back from   *)
(* the next malloc, with an arbitrary next pointer.                         *)
(***************************************************************************)
EXTENDS Integers, Sequences, FiniteSets

CONSTANTS
  Elements,     \* the memory cells malloc may return
  Threads,      \* the threads that insert
  NULL,         \* the null pointer
  GARBAGE,      \* what next holds in a cell fresh from malloc
  NOBODY        \* the mutex is free

ASSUME PointersAssumption ==
  /\ NULL \notin Elements /\ GARBAGE \notin Elements /\ NULL # GARBAGE
ASSUME ElementsAssumption == IsFiniteSet(Elements)
ASSUME ThreadsAssumption == NOBODY \notin Threads

VARIABLES
  head, tail,       \* queue_t
  next,             \* the next field of every element
  mutex_shared,     \* the thread that holds the mutex
  tpc, element,     \* each thread's control point and the element it inserts
  contents          \* history: inserted and not yet removed, oldest first

vars == <<head, tail, next, mutex_shared, tpc, element, contents>>

Queued   == {contents[k] : k \in DOMAIN contents}
InHand   == {element[t] : t \in {u \in Threads : tpc[u] # "idle"}}
Holds    == {"reset", "test", "set_head", "set_tail", "link", "advance",
             "unlock"}

(* create_queue                                                             *)
create_queue == head = NULL /\ tail = NULL

Init ==
  /\ create_queue
  /\ next = [e \in Elements |-> GARBAGE]
  /\ mutex_shared = NOBODY
  /\ tpc = [t \in Threads |-> "idle"]
  /\ element = [t \in Threads |-> NULL]
  /\ contents = <<>>

-------------------------------------------------------------------------------
(* Accesses.  A name that ends in a capitalized word is a faulty variant of  *)
(* the definition that follows it, for the mutants.                          *)

Goto(t, from, to) == tpc[t] = from /\ tpc' = [tpc EXCEPT ![t] = to]

mutex_lock_Absent(t) == mutex_shared' = t

mutex_lock(t) == mutex_shared = NOBODY /\ mutex_shared' = t

reset_next_Forgotten(e) == UNCHANGED next

reset_next(e) == next' = [next EXCEPT ![e] = NULL]

queue_is_empty_ByTail == tail = NULL

queue_is_empty == head = NULL

-------------------------------------------------------------------------------
(* SHARED_insert_file_element(el), for an element just allocated.            *)

malloc(t) ==
  /\ Goto(t, "idle", "lock")
  /\ \E e \in Elements \ (Queued \cup InHand) :
       /\ element' = [element EXCEPT ![t] = e]
       /\ next' = [next EXCEPT ![e] = GARBAGE]
  /\ UNCHANGED <<head, tail, mutex_shared, contents>>

lock(t) ==
  /\ Goto(t, "lock", "reset")
  /\ mutex_lock(t)
  /\ UNCHANGED <<head, tail, next, element, contents>>

(* insert_element: element->next = NULL                                      *)
reset(t) ==
  /\ Goto(t, "reset", "test")
  /\ reset_next(element[t])
  /\ UNCHANGED <<head, tail, mutex_shared, element, contents>>

test(t) ==
  /\ Goto(t, "test", IF queue_is_empty THEN "set_head" ELSE "link")
  /\ UNCHANGED <<head, tail, next, mutex_shared, element, contents>>

set_head(t) ==
  /\ Goto(t, "set_head", "set_tail")
  /\ head' = element[t]
  /\ contents' = Append(contents, element[t])
  /\ UNCHANGED <<tail, next, mutex_shared, element>>

set_tail(t) ==
  /\ Goto(t, "set_tail", "unlock")
  /\ tail' = element[t]
  /\ UNCHANGED <<head, next, mutex_shared, element, contents>>

(* (queue->tail)->next = element                                             *)
link(t) ==
  /\ Goto(t, "link", "advance")
  /\ next' = [next EXCEPT ![tail] = element[t]]
  /\ contents' = Append(contents, element[t])
  /\ UNCHANGED <<head, tail, mutex_shared, element>>

(* queue->tail = (queue->tail)->next                                         *)
advance(t) ==
  /\ Goto(t, "advance", "unlock")
  /\ tail' = next[tail]
  /\ UNCHANGED <<head, next, mutex_shared, element, contents>>

unlock(t) ==
  /\ Goto(t, "unlock", "idle")
  /\ mutex_shared' = NOBODY
  /\ UNCHANGED <<head, tail, next, element, contents>>

insert_element(t) ==
  reset(t) \/ test(t) \/ set_head(t) \/ set_tail(t) \/ link(t) \/ advance(t)

(* remove_element of a queue that is not empty.  tail keeps its value, also  *)
(* when the element it points to is the one removed, which the caller frees. *)
remove_element ==
  /\ \A t \in Threads : tpc[t] = "idle"
  /\ head # NULL
  /\ head' = next[head]
  /\ contents' = Tail(contents)
  /\ UNCHANGED <<tail, next, mutex_shared, tpc, element>>

Next ==
  \/ \E t \in Threads : malloc(t) \/ lock(t) \/ insert_element(t) \/ unlock(t)
  \/ remove_element

Spec == Init /\ [][Next]_vars

-------------------------------------------------------------------------------
(* num_elements and print_queue follow the next pointers from head; the walk *)
(* is cut where it has seen more elements than there are.                    *)
Walk ==
  LET at[k \in 0..Cardinality(Elements)] ==
        IF k = 0 THEN head
        ELSE IF at[k - 1] \in Elements THEN next[at[k - 1]] ELSE NULL
      n == Cardinality({k \in 0..Cardinality(Elements) : at[k] \in Elements})
  IN  [k \in 1..n |-> at[k - 1]]

(* Pointers are null or point to elements.                                   *)
TypeOK ==
  /\ head \in Elements \cup {NULL} /\ tail \in Elements \cup {NULL}
  /\ next \in [Elements -> Elements \cup {NULL, GARBAGE}]
  /\ mutex_shared \in Threads \cup {NOBODY}
  /\ tpc \in [Threads -> Holds \cup {"idle", "lock"}]
  /\ element \in [Threads -> Elements \cup {NULL}]
  /\ contents \in Seq(Elements)

(* insert_element writes through tail only when tail points to the last      *)
(* element of the queue: the pointer that remove_element leaves behind,      *)
(* which may point to freed memory, is never followed.                       *)
LinkTargetLive ==
  \A t \in Threads : tpc[t] \in {"link", "advance"} =>
    /\ contents # <<>>
    /\ tpc[t] = "link" => tail = contents[Len(contents)] /\ next[tail] = NULL
    /\ tpc[t] = "advance" => next[tail] = contents[Len(contents)]

(* Seen through the walk, every step of every thread is a step of a first-in *)
(* first-out queue, also in the middle of an insertion.                      *)
F == INSTANCE Fifo WITH items <- Walk
FifoSpec == F!FifoSpec
===============================================================================
