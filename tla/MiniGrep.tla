------------------------------- MODULE MiniGrep -------------------------------
(***************************************************************************)
(* src/pp_2/mini_grep.c: main() searches a file tree serially and then once *)
(* more with NUM_THREADS threads, with static or with dynamic load          *)
(* balancing, and prints both counts.                                       *)
(*                                                                          *)
(* Queues are sequences of paths: Queue shows that the linked queue under   *)
(* its mutex is one.  A file is known by the number of its tokens that      *)
(* contain the search string.  Entries may be deleted while the search is   *)
(* running.                                                                 *)
(***************************************************************************)
EXTENDS Integers, Sequences, FiniteSets, SequencesExt

CONSTANTS
  Paths,            \* path names
  Root,             \* the path argument
  FileTrees,        \* the file trees to search, see IsFileTree
  NUM_THREADS,      \* the num-threads argument
  Modes,            \* the load balancing arguments: "static", "dynamic"
  MAX_ELEMENTS_Q,   \* capacity of ARGS_FOR_THREAD.elements (4096)
  MaxDeletions,     \* bound on the entries deleted during a run
  CreateMayFail     \* may pthread_create fail?

IsFileTree(f) ==
  /\ DOMAIN f = {"kind", "children", "hits", "denied"}
  /\ f.kind \in [Paths -> {"dir", "reg", "link", "other"}]
  /\ f.children \in [Paths -> SUBSET (Paths \ {Root})]
  /\ f.hits \in [Paths -> Nat]
  /\ f.denied \subseteq Paths
  /\ \A p \in Paths : f.kind[p] # "dir" => f.children[p] = {}
  /\ \A p, q \in Paths : p # q => f.children[p] \cap f.children[q] = {}

ASSUME TreeAssumption ==
  /\ IsFiniteSet(Paths) /\ Root \in Paths
  /\ \A f \in FileTrees : IsFileTree(f)
ASSUME SizesAssumption ==
  /\ NUM_THREADS \in Nat \ {0} /\ MAX_ELEMENTS_Q \in Nat /\ MaxDeletions \in Nat
  /\ Modes \subseteq {"static", "dynamic"} /\ CreateMayFail \in BOOLEAN

VARIABLES
  tree, present,                        \* the file system
  mode, mpc, round,                     \* main(): its mode, point and round
  queue, queue_files,                   \* the main thread's and SHARED's queue
  created, items_per_thread,            \* locals of the distribution loop
  RESULTS, num_occurrences,             \* per thread, and the parallel total
  mutex_shared,                         \* the thread that holds it
  tpc, tqueue, element, count           \* the searching threads

fsVars     == <<tree, present>>
mainVars   == <<mode, mpc, round, queue, created, items_per_thread,
                num_occurrences>>
threadVars == <<tpc, tqueue, element, count>>
sharedVars == <<queue_files, mutex_shared, RESULTS>>
vars == <<fsVars, mainVars, threadVars, sharedVars>>

Threads == 0..(NUM_THREADS - 1)
Main    == -1                   \* main() itself, in serial_search
Workers == Threads \cup {Main}
Nobody  == -2
Uninit  == 1000                 \* what malloc left in RESULTS

Running == mpc \in {"serial", "start", "create", "join", "tally"}

Init ==
  /\ tree \in FileTrees /\ present = Paths
  /\ mode \in Modes /\ mpc = "serial" /\ round = 0
  /\ queue = <<>> /\ queue_files = <<>>
  /\ created = 0 /\ items_per_thread = 0
  /\ mutex_shared = Nobody
  /\ RESULTS = [t \in Threads |-> Uninit] /\ num_occurrences = 0
  /\ tpc = [w \in Workers |-> IF w = Main THEN "loop" ELSE "idle"]
  /\ tqueue = [w \in Workers |-> IF w = Main THEN <<Root>> ELSE <<>>]
  /\ element = [w \in Workers |-> Root]
  /\ count = [w \in Workers |-> 0]

-------------------------------------------------------------------------------
(* Calls.  A name that ends in a capitalized word is a faulty variant of the *)
(* definition that follows it, for the mutants.                              *)

round_up_Truncated(dividend, divisor) == dividend \div divisor

round_up(dividend, divisor) == (dividend + (divisor - 1)) \div divisor

(* The entry . of the directory taken for one of its children.               *)
Listings_WithDot(p) ==
  IF p \in present \ tree.denied
  THEN SetToSeqs((tree.children[p] \cap present) \cup {p}) ELSE {<<>>}

(* opendir and the readdir_r loop: the entries in some order, without . and  *)
(* the parent; nothing from a directory that cannot be opened.  A listing    *)
(* that readdir_r breaks off with an error is left out.                      *)
Listings(p) ==
  IF p \in present \ tree.denied
  THEN SetToSeqs(tree.children[p] \cap present) ELSE {<<>>}

(* The end of the loop over pthread_join, where created counts its turns.    *)
joins_over_OneShort == created >= NUM_THREADS - 1

joins_over == created >= NUM_THREADS

(* Was thread t, of a dynamic search, started to search files?  In the       *)
(* second round the main thread creates the threads one after the other.     *)
searches(t) == round = 2 /\ (mpc = "create" => t < created)

(* How many elements the j loop hands to the next thread.                    *)
share(q) == IF Len(q) < items_per_thread THEN Len(q) ELSE items_per_thread

leftover_Kept(q) == q

leftover(q) == SubSeq(q, share(q) + 1, Len(q))

-------------------------------------------------------------------------------
(* The loop over a queue of paths, common to the four searching functions.   *)

(* remove_element, lstat, and the choice by file type.  A path that is gone, *)
(* or of a type the function does not look for, is skipped.                  *)
next_element(w, wanted) ==
  /\ tpc[w] = "loop" /\ tqueue[w] # <<>>
  /\ LET p == Head(tqueue[w])
         isWanted == p \in present /\ tree.kind[p] \in wanted
     IN  /\ element' = [element EXCEPT ![w] = p]
         /\ tpc' = [tpc EXCEPT ![w] = IF isWanted THEN tree.kind[p] ELSE "loop"]
  /\ tqueue' = [tqueue EXCEPT ![w] = Tail(@)]
  /\ UNCHANGED <<fsVars, mainVars, sharedVars, count>>

(* opendir, readdir_r, insert_element of every entry.                        *)
descend(w) ==
  /\ tpc[w] = "dir" /\ tpc' = [tpc EXCEPT ![w] = "loop"]
  /\ \E s \in Listings(element[w]) : tqueue' = [tqueue EXCEPT ![w] = @ \o s]
  /\ UNCHANGED <<fsVars, mainVars, sharedVars, element, count>>

(* fopen, and the count of the matching tokens of a file that can be opened. *)
search_file(w) ==
  /\ tpc[w] = "reg" /\ tpc' = [tpc EXCEPT ![w] = "loop"]
  /\ IF element[w] \in present \ tree.denied
     THEN count' = [count EXCEPT ![w] = @ + tree.hits[element[w]]]
     ELSE UNCHANGED count
  /\ UNCHANGED <<fsVars, mainVars, sharedVars, tqueue, element>>

(* The end of the loop, and RESULTS[thread_id] = num_occurrences.            *)
finish(w, results) ==
  /\ tpc[w] = "loop" /\ tqueue[w] = <<>>
  /\ tpc' = [tpc EXCEPT ![w] = "finished"]
  /\ RESULTS' = results
  /\ UNCHANGED <<fsVars, mainVars, queue_files, mutex_shared, tqueue, element,
                 count>>

store_result(t) == [RESULTS EXCEPT ![t] = count[t]]

mutex_unlock_Forgotten == UNCHANGED mutex_shared

mutex_unlock == mutex_shared' = Nobody

(* Lock; insert at the end of SHARED.queue_files and unlock.                 *)
SHARED_insert_file_element(t) ==
  \/ /\ tpc[t] = "reg" /\ tpc' = [tpc EXCEPT ![t] = "insert"]
     /\ mutex_shared = Nobody /\ mutex_shared' = t
     /\ UNCHANGED queue_files
  \/ /\ tpc[t] = "insert" /\ tpc' = [tpc EXCEPT ![t] = "loop"]
     /\ queue_files' = Append(queue_files, element[t])
     /\ mutex_unlock

-------------------------------------------------------------------------------
(* The four searching functions.                                             *)

serial_search ==
  /\ mpc = "serial"
  /\ \/ next_element(Main, {"dir", "reg"})
     \/ descend(Main) \/ search_file(Main)
     \/ finish(Main, RESULTS)

parallel_search_static_thread(t) ==
  /\ Running /\ mode = "static"
  /\ \/ next_element(t, {"dir", "reg"})
     \/ descend(t) \/ search_file(t)
     \/ finish(t, store_result(t))

parallel_search_dynamic_files_thread(t) ==
  /\ Running /\ mode = "dynamic" /\ ~searches(t)
  /\ \/ next_element(t, {"dir", "reg"})
     \/ descend(t)
     \/ /\ SHARED_insert_file_element(t)
        /\ UNCHANGED <<fsVars, mainVars, RESULTS, tqueue, element, count>>
     \/ finish(t, RESULTS)

parallel_search_dynamic_search_thread(t) ==
  /\ Running /\ mode = "dynamic" /\ searches(t)
  /\ \/ next_element(t, {"reg"})
     \/ search_file(t)
     \/ finish(t, store_result(t))

-------------------------------------------------------------------------------
(* The main thread in parallel_search_static and parallel_search_dynamic.    *)

(* main(): serial_search has returned.                                       *)
start_parallel ==
  /\ mpc = "serial" /\ tpc[Main] = "finished"
  /\ mpc' = "start" /\ round' = 1
  /\ UNCHANGED <<fsVars, mode, queue, created, items_per_thread,
                 num_occurrences, threadVars, sharedVars>>

(* num_el and items_per_thread for the elements of q, before the first turn   *)
(* of the thread creation loop.                                              *)
distribute(q) ==
  /\ items_per_thread' = round_up(Len(q), NUM_THREADS)
  /\ created' = 0
  /\ mpc' = "create"

(* lstat and listing of the start path.  What is not a directory leaves the  *)
(* queue empty.  A start path that has disappeared leaves file_stats         *)
(* uninitialized: it may pass for a directory, and the freed element is used.*)
(* A directory that cannot be opened is read through a null pointer.         *)
read_start ==
  /\ mpc = "start"
  /\ \/ /\ Root \notin present \/ tree.kind[Root] # "dir"
        /\ queue' = <<>> /\ distribute(<<>>)
     \/ /\ Root \in present \ tree.denied /\ tree.kind[Root] = "dir"
        /\ \E s \in Listings(Root) : queue' = s /\ distribute(s)
     \/ /\ Root \notin present
           \/ (tree.kind[Root] = "dir" /\ Root \in tree.denied)
        /\ mpc' = "crashed"
        /\ UNCHANGED <<queue, created, items_per_thread>>
  /\ UNCHANGED <<fsVars, mode, round, num_occurrences, threadVars,
                 sharedVars>>

(* The queue that is being distributed.                                      *)
source == IF round = 2 THEN queue_files ELSE queue

(* One turn of the thread creation loop.  More elements than elements[] can  *)
(* hold are written past its end.                                            *)
create_thread ==
  /\ mpc = "create" /\ created < NUM_THREADS /\ share(source) <= MAX_ELEMENTS_Q
  /\ created' = created + 1
  /\ IF round = 2
     THEN queue_files' = leftover(source) /\ UNCHANGED queue
     ELSE queue' = leftover(source) /\ UNCHANGED queue_files
  /\ tqueue' = [tqueue EXCEPT ![created] = SubSeq(source, 1, share(source))]
  /\ tpc' = [tpc EXCEPT ![created] = "loop"]
  /\ count' = [count EXCEPT ![created] = 0]
  /\ UNCHANGED <<fsVars, mode, mpc, round, items_per_thread, num_occurrences,
                 element, mutex_shared, RESULTS>>

overrun_elements ==
  /\ mpc = "create" /\ created < NUM_THREADS /\ share(source) > MAX_ELEMENTS_Q
  /\ mpc' = "crashed"
  /\ UNCHANGED <<fsVars, mode, round, queue, created, items_per_thread,
                 num_occurrences, threadVars, sharedVars>>

(* Cannot create thread: exit(0), and the other threads end with it.         *)
create_fails ==
  /\ CreateMayFail /\ mpc = "create" /\ created < NUM_THREADS
  /\ mpc' = "exited"
  /\ UNCHANGED <<fsVars, mode, round, queue, created, items_per_thread,
                 num_occurrences, threadVars, sharedVars>>

all_created ==
  /\ mpc = "create" /\ created = NUM_THREADS
  /\ mpc' = "join" /\ created' = 0
  /\ UNCHANGED <<fsVars, mode, round, queue, items_per_thread,
                 num_occurrences, threadVars, sharedVars>>

(* One pthread_join: the threads are awaited in the order of creation.       *)
join_thread ==
  /\ mpc = "join" /\ ~joins_over /\ tpc[created] = "finished"
  /\ created' = created + 1
  /\ UNCHANGED <<fsVars, mode, mpc, round, queue, items_per_thread,
                 num_occurrences, threadVars, sharedVars>>

(* After the joins the dynamic search goes on to distribute                  *)
(* SHARED.queue_files, without the mutex; otherwise the results are added.   *)
join_files ==
  /\ mpc = "join" /\ joins_over /\ mode = "dynamic" /\ round = 1
  /\ round' = 2
  /\ distribute(queue_files)
  /\ UNCHANGED <<fsVars, mode, queue, num_occurrences, threadVars, sharedVars>>

join_searches ==
  /\ mpc = "join" /\ joins_over /\ (mode = "static" \/ round = 2)
  /\ mpc' = "tally" /\ created' = 0
  /\ UNCHANGED <<fsVars, mode, round, queue, items_per_thread,
                 num_occurrences, threadVars, sharedVars>>

tally ==
  /\ mpc = "tally"
  /\ IF created < NUM_THREADS
     THEN /\ num_occurrences' = num_occurrences + RESULTS[created]
          /\ created' = created + 1
          /\ UNCHANGED mpc
     ELSE mpc' = "done" /\ UNCHANGED <<num_occurrences, created>>
  /\ UNCHANGED <<fsVars, mode, round, queue, items_per_thread, threadVars,
                 sharedVars>>

MainThread ==
  \/ start_parallel \/ read_start \/ create_thread \/ overrun_elements
  \/ create_fails \/ all_created \/ join_thread \/ join_files \/ join_searches \/ tally

(* Somebody deletes a file, or a directory that is empty by now.             *)
delete_entry ==
  /\ Running /\ Cardinality(Paths \ present) < MaxDeletions
  /\ \E p \in present :
       /\ tree.children[p] \cap present = {}
       /\ present' = present \ {p}
  /\ UNCHANGED <<tree, mainVars, threadVars, sharedVars>>

Worker(t) ==
  \/ parallel_search_static_thread(t)
  \/ parallel_search_dynamic_files_thread(t)
  \/ parallel_search_dynamic_search_thread(t)

Next ==
  \/ serial_search \/ MainThread \/ delete_entry
  \/ \E t \in Threads : Worker(t)

Spec == Init /\ [][Next]_vars

(* Threads are never blocked for good: every runnable one is scheduled.      *)
Fairness ==
  /\ WF_vars(serial_search) /\ WF_vars(MainThread)
  /\ \A t \in Threads : WF_vars(Worker(t))

FairSpec == Spec /\ Fairness

-------------------------------------------------------------------------------
(* Properties.                                                               *)

SeqOfPaths(q) == Len(q) <= Cardinality(Paths) /\ \A k \in DOMAIN q : q[k] \in Paths

(* Every variable stays in its type; no queue grows beyond the file tree.    *)
TypeOK ==
  /\ tree \in FileTrees /\ present \subseteq Paths
  /\ mode \in Modes /\ round \in 0..2
  /\ mpc \in {"serial", "start", "create", "join", "tally", "done", "exited",
              "crashed"}
  /\ SeqOfPaths(queue) /\ SeqOfPaths(queue_files)
  /\ created \in 0..NUM_THREADS /\ items_per_thread \in Nat
  /\ mutex_shared \in Threads \cup {Nobody}
  /\ RESULTS \in [Threads -> Nat] /\ num_occurrences \in Nat
  /\ \A w \in Workers :
       /\ tpc[w] \in {"idle", "loop", "dir", "reg", "insert", "finished"}
       /\ SeqOfPaths(tqueue[w]) /\ element[w] \in Paths /\ count[w] \in Nat

(* The two counts main() prints agree if nothing was deleted and the start   *)
(* path is a directory; the parallel searches find nothing in any other.     *)
(* Deletions can only make the second count smaller: no thread counts what   *)
(* another one has counted, whatever disappears when.                        *)
ParallelMatchesSerial ==
  mpc = "done" =>
    /\ num_occurrences <= count[Main]
    /\ present = Paths =>
         num_occurrences = IF tree.kind[Root] = "dir" THEN count[Main] ELSE 0

(* The paths that wait in queues or in a thread's hands in this round.       *)
Waiting(w) == {tqueue[w][k] : k \in DOMAIN tqueue[w]} \cup
              (IF tpc[w] \in {"dir", "reg", "insert"} THEN {element[w]} ELSE {})

(* The distribution gives every path to one thread: no two threads ever have *)
(* work in common, and none has what the main thread still holds.            *)
WorkPartitioned ==
  mpc \in {"create", "join"} =>
    /\ \A t, u \in Threads : t # u => Waiting(t) \cap Waiting(u) = {}
    /\ \A t \in Threads : Waiting(t) \cap {source[k] : k \in DOMAIN source} = {}

(* SHARED.queue_files is taken apart without mutex_shared, and RESULTS read  *)
(* without any lock.  One pthread_join after the other is enough for that:   *)
(* while SHARED.queue_files is distributed every thread that was collecting  *)
(* files has ended and holds no more paths, and RESULTS is added up with the *)
(* last count of every thread in it.                                         *)
UnlockedReadsQuiet ==
  /\ mpc = "create" /\ round = 2 =>
       \A t \in Threads : ~searches(t) => tpc[t] = "finished" /\ tqueue[t] = <<>>
  /\ mpc = "tally" =>
       \A t \in Threads : tpc[t] = "finished" /\ RESULTS[t] = count[t]

(* Both searches end, whatever is deleted meanwhile.                         *)
Terminates == <>(mpc \in {"done", "exited", "crashed"})
===============================================================================
