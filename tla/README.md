# Verification of the Drexel ECE 353 systems programs

This directory holds TLA+ models of the concurrent programs of the repository,
the TLC configurations that check them on small instances, and TLAPS proofs of
the results that matter most for every size. `PROJECT.json` lists the runs, the
definitions' source lines, the mutants, the hazards and the findings.

## The system

The repository is a collection of course programs; each directory is a program
or a client/server pair of its own.

| Component | State | Operations | Interaction | Hard parts |
|---|---|---|---|---|
| producer, consumers (`pe_3`) | `buffer` in shared memory (`work[]`, `in`, `out`, `is_full`, `is_finished`), semaphores `sem_1..3` | produce, consume, wait and signal, drain, final broadcast, unlink | separate processes over POSIX shared memory and named semaphores | interleaving of semaphore operations and buffer accesses; waking the producer; telling consumers the end |
| linked queue (`pp_2/queue_utils.c`) | `head`, `tail`, `next` pointers | `insert_element`, `remove_element`, `num_elements`, `print_queue` | called by every searching thread; one instance is shared under `mutex_shared` | a `tail` that dangles after the last removal; concurrent insertions |
| mini_grep (`pp_2/mini_grep.c`) | queues of paths, `RESULTS`, `SHARED.queue_files` | serial search, static and dynamic parallel search, three thread functions | main thread creates and joins threads; the file system changes underneath | splitting work evenly and completely; unlocked accesses after joins; entries that disappear |
| chat server (`pp_1_server/server.c`) | the list, the request in hand, `seq_num` | connect, disconnect, check, direct and global message | one FIFO towards the server, one per client | blocking `open`, clients that died, restarts |
| list of clients (`pp_1_server/list.c`, a copy in `test_2`) | doubly linked nodes between two sentinels, `logical_length` | push and pop at both ends, `list_remove_node`, `list_remove_pid`, `list_contains` | called by the server, which removes nodes under its own cursor | use of a node after it was freed |
| chat client (`pp_1_client`) | its FIFO, connection flags, `int_sys_flag` | connect, send, read messages, quit, CTRL+C | requests and answers over FIFOs | a message arriving in place of an answer; signals |
| primes (`pa_1`) | ring of the last five primes | push, pop, report from a signal handler | signal handlers on the same ring | wrap-around in the wrong unit, a handler in the middle of a push or of a report, truncated numbers |
| echo chamber, pipeline (`pe_2`) | descriptors, pipes, stdio buffers | fork, exec, write, wait, read | parent and children over pipes | ends of pipes left open, waiting before reading, failing fork and exec, signals |
| exercises (`hw_1`, `hw_1_2`, `test`, `test_2`, `pp_1`) | none worth a model | | | |

What makes each component correct:

* producer/consumers: the buffer's indices stay inside it, every item is
  consumed exactly once, the end is declared when all is consumed, and nobody
  waits for ever;
* queue: it is a FIFO, whatever the interleaving of insertions, and no freed
  element is written to;
* mini_grep: the parallel searches count what the serial search counts, no file
  twice and none forgotten, and the program ends;
* chat: an answer belongs to its request, a message reaches exactly the
  addressed clients, the list holds exactly the connected clients, and one dead
  client does not stop the others;
* list: both directions and the length tell of the same nodes, and a cursor
  never leaves the list;
* primes: the search finds the primes, and the report shows the last ones;
* echo chamber and pipeline: every reader meets its data or the end of file,
  the result is printed once, and nobody waits for ever.

## Modules

| Module | Content |
|---|---|
| `ProducerConsumer` | both programs of `pe_3` and the shared buffer |
| `WorkPool` | abstract specification: items are produced in order, each is consumed at most once, and the pool closes when all are |
| `ProducerConsumerProofs` | its theorems |
| `Queue` | `queue_utils.c` at pointer level under the mutex |
| `Fifo` | abstract specification: a queue that grows at its end and shrinks at its front |
| `QueueProofs` | its theorems |
| `WalkLemmas` | lemmas about sequences and walks along pointers that `QueueProofs`, `ClientListProofs`, `ChatProofs` and `PipesProofs` share |
| `MiniGrep` | `mini_grep.c`; its queues are sequences, which `Queue` justifies |
| `MiniGrepProofs` | its theorems |
| `Chat` | the chat server and the clients, over FIFOs; its list is a sequence, which `ClientList` justifies |
| `ChatProofs` | its theorems |
| `ClientList` | `list.c` at pointer level with the server's uses of it |
| `Roster` | abstract specification: a sequence of pids |
| `ClientListProofs` | its theorems, and that it implements `Roster` |
| `PrimeRing` | `primes.c`: search, ring and signal handlers |
| `PrimeRingProofs` | its theorems |
| `Pipes` | `echo_chamber.c` and `pipes_gen_filter.c` over a common model of descriptors and pipes |
| `PipesProofs` | its theorems |
| `MCProducerConsumer`, `MCQueue`, `MCMiniGrep`, `MCChat`, `MCClientList`, `MCPrimeRing`, `MCPipes` | instances for TLC |

In each module, a definition whose name ends in a capitalized word after an
underscore (`Drained_Early`) is a faulty variant of the definition that follows
it. No specification uses it; `PROJECT.json` says which property notices it.

### ProducerConsumer

The variables are the fields of `buffer`, the values of the semaphores, the
locals `i` and `finished` of the producer and `finished`, `consumed_value` and
`num_items_consumed` of each consumer, a control point per process, and the
existence of the names in `/dev/shm`. `taken` is a history variable. One action
is one semaphore operation or one group of accesses to the buffer. The writes
of a critical section are spread over several actions, so that mutual exclusion
is something the model has to establish. Work items are numbered by the order
of their production; the sleeping times they stand for have no effect on the
protocol.

Two kinds of undefined behaviour in the code are choices of the model:
`StackGarbage` is the set of values an uninitialized `bool finished` may have,
and `OutOfRangeRead` says whether a read of `work[out]` outside the array
yields some value or ends the process. `flag_int` is never set by the program
(it installs no handler) and is left out. The consumer's `finished` is tested
before its first assignment, too (`consumer.c:150`), and starts in
`StackGarbage`.

A consumer in `Mortal` may be killed at any point. POSIX semaphores are not
released with the process that has decremented them, and the shared memory
stays as it is, so a kill is nothing but a process that takes no further step:
`Fairness` leaves these consumers out.

### Queue

`insert_element` is six actions, one per pointer access; they are bracketed by
the mutex as in `SHARED_insert_file_element`. `remove_element` is enabled only
while no thread inserts: the main thread removes from the shared queue after it
has joined the inserting threads (`mini_grep.c:998`, `:1039`), which
`UnlockedReadsQuiet` of `MiniGrep` checks. An element that was removed is freed
and may be allocated again, with an arbitrary `next` field.

### MiniGrep

The file tree is a constant record (kind, children, number of matching tokens,
paths that cannot be opened); `present` is what has not been deleted yet. The
serial search and the three thread functions share the loop over a queue
(`next_element`, `descend`, `search_file`, `finish`) and differ in the kinds of
entries they look for and in what they do with a regular file, as in the code.
`lstat`, `opendir` and `fopen` are separate steps, so that an entry may vanish
between them. The two parallel searches share the distribution loop; `round` tells
the file finding round from the searching round of the dynamic search. The main
thread joins the threads one at a time (`join_thread`) and goes on after the
last one; in the second round it creates them one at a time, so that
`searches(t)` says which function thread `t` runs: until it is created for the
second round it is the file finding thread of the first, wherever that is.
`crashed` stands for undefined behaviour: `readdir_r` on a null pointer, the
use of a freed element, a write past `elements[]`.

### Chat

The server's variables are the list (a sequence of pids), the request in hand
and where it is in dealing with it; `target`, `resp` and `phase` say which FIFO
it writes to, what, and whether that is an answer, a direct or a global
message. A client is at a point of `main()` inside the request `call`. FIFOs
are sequences of records; opening, writing and closing are steps of their own,
because the order in which the two ends are opened decides who blocks:

* `open()` blocks until the other end is open, and is released for good once it
  was, even if the other end is closed at once; an open for reading blocks
  without a writer even if records are waiting and other descriptors are open;
* the client never closes a descriptor, so its FIFO has a reader (`fds`) from
  its first open to its end, and only its first open makes the server wait;
* `write()` blocks on a full FIFO (`CAPACITY` records) and fails without a
  reader (the server ignores SIGPIPE, the client dies of it); `read()` returns
  the end of file when the FIFO is empty and has no writer;
* `poll()` in `client_read_messages` reports a FIFO that has lost its writers
  as ready, and the loop then turns until somebody opens the FIFO again (`hup`).

CTRL+C sets `int_sys_flag` at any point and makes a blocked call fail. A client
may be killed at any point; its FIFO's name stays. `FreedRead` says what
reading the `next` field of a node just freed (`server.c:333`) may do: find it
intact or end the server. Message texts matter only in that `"OK"` is what the
client looks for in an answer. The server may be stopped and started again
(`restart_server`): its list is then empty, while requests that were in its
FIFO are still there as long as some client has it open, which every connected
client has; `forgotten` remembers who was in the list. `seq_num`, which no
client uses, and reuse of pids are left out; the server's FIFO is never full, as each
client has at most a few requests in it. `delivered` is a history variable,
`choices` counts the users' choices at the prompt and bounds them.

### ClientList

The cells are the nodes `malloc` may return and the two sentinels; `data`,
`prev` and `next` are their fields. Straight-line operations are one action
(the list is used by one thread), the loops of `list_contains`,
`list_remove_pid` and of a global message take one action per turn. What
`free` does matters, because the server goes on from a node it has freed
(`server.c:333`): the allocator overwrites the first two words, `data` and
`prev`, and leaves the third, `next`. A freed cell may be allocated again.
`user` is the server or a caller that pushes, pops, searches and removes by
pid, as in `test_2`; nobody calls `list_remove_node` but `list_remove_pid`.
`contents`, `agenda` and `served` are history variables: the nodes in the list,
the pids a global message is for (those in the list when it starts, without the
sender) and those it has come to.

### PrimeRing

`main()` tests one divisor per action, and `cb_push_back` and `cb_pop_front`
take three each (copy, advance, count), so that a signal can come in between. Once a
handler has started, `main()` never goes on: the handler exits. The other
signal may interrupt it and start a report of its own. Integers have `W` bits
and longs `2 * W`: with `W = 4` the search runs to its end and passes the point
where a long no longer fits into an unsigned int. The end of the ring is
`capacity + size` ints behind its start, nine instead of five. A read of the
allocated five slots gives what was written there, or `UNDEFINED` if nothing
was. The four slots behind them belong to somebody else: a read gives what was
written or `FOREIGN`, what others have written since (with glibc, stdout's
buffer is allocated behind the ring by the first `printf`). Writes to them are
assumed to do no harm to the search itself.

### Pipes

A process has a table of descriptors, which `fork` copies and which decides
when a pipe is at its end; `close`, `dup2`, `pipe`, `fork`, `read`, `write` and
`exit` are modelled as the kernel and stdio do them (marked external). The
programs differ in `program`. What is sent is a sequence of chunks: a text, a
number, an average, or noise, which is whatever else a program prints. Text
that `printf` keeps in the process (`pending`) is copied by `fork` and written
by `exit`, and a text ends at its first null character (`as_string`), of which
the child of the echo chamber sends some; `buffered` says whether stdout is a file or pipe. `restart` says
whether `signal()` makes blocked calls restart, which depends on how the
program was compiled. The three programs of the pipeline are not in the
repository; they are a source, a filter and a sink.

Which of the unused pipes and process numbers a call takes is of no
consequence; the model takes the lowest. `MAX_PROCS` and `MAX_PIPES` bound how
many there are at a time: a call of `pipe()` waits in the model until there is
one, and `fork()` until there is one or it fails (at most `MAX_FAILURES` times).
`MAX_ROUNDS` bounds the rounds of the echo chamber.

## Runs

| Run | Instance | Result |
|---|---|---|
| `pc_safety` | 3 consumers, 4 items, 2 slots, 4 final posts, both kinds of undefined behaviour | passes |
| `pc_liveness` | 3 consumers, one of them mortal, 2 items, 1 slot, 2 final posts, under fairness, initialized locals | passes |
| `pc_phantom` | 2 consumers | violates `TakeWithinBuffer` |
| `queue` | 3 threads, 4 elements | passes |
| `grep` | 2 threads, 6 trees of up to 6 paths, 1 deletion, both modes, under fairness | passes |
| `chat_connect` | 2 clients, room for 1 in the list, 1 choice, an interrupted and a killed client, a server that may stop and start again, under fairness | passes |
| `chat_room` | 3 connected clients, FIFOs of 1 record, 2 choices, an interrupted and a killed client | passes |
| `chat_prompt` | 1 client, under fairness | violates `PromptedAfterConnecting` |
| `list` | 4 cells, 4 pids, room for 3 clients | passes |
| `primes` | 4-bit ints, a ring of 5 ints of 4 bytes, reports of 5 | passes |
| `primes_last` | the same | violates `LastFoundPrimes` |
| `pipes` | 6 processes, 6 pipes of 2 chunks, 2 rounds of the echo chamber, 1 failing fork or a missing program, under fairness | passes |

**pc_safety.** `SharedMemExclusive` (mutual exclusion by `sem_3`),
`TokenAccounting` (`sem_2` against `in`), `FullHandshake` (`is_full` against
`sem_1`), `PutWithinBuffer` (no write past `work[]` although the lock is given
up after the test), `NoDoubleConsumption`, `AllConsumedAtFinish`,
`PhantomTakesBounded` (how far the final broadcast can drive `in` below zero)
and the refinement `PoolSpec`. Four items and two slots make the buffer fill
while consumers hold tokens; three consumers let two of them be past their
token when the third finishes. A bound is needed on nothing: the state space is
finite. Consumers are interchangeable. The system may stop (every process has
exited, or nobody starts a consumer), so deadlock is not checked; progress is
the subject of `pc_liveness`.

**pc_liveness.** `NoHarmfulDeath` is the premise of both properties: nobody is
killed, or faults, while it holds `sem_3` or a token that stands for an item.
Then `ProducerExits`: once a consumer that lives is at work, the producer
exits, also out of the wait on a full buffer. `ConsumersFinish`: the attached
consumers leave their loops, except as many as there are consumers beyond
`MAX_NUM_CONSUMERS`; one of three is left waiting with two final posts, and no
more than that, although a consumer may die with a token of the broadcast.
Fairness is strong for each process. A semaphore wakes waiters, and every process leaves a critical
section and sleeps outside it (`sleep`, `usleep(1E4)`), so that one that waits
for `sem_3` gets it if it is released again and again; weak fairness would let
the polling producer starve the consumers. Starting a consumer is not fair:
users need not do it. The locals named `finished` start as false here
(`StackGarbage`): if the producer's starts as true, which `producer.c:258` and
`:318` allow, the drain loop is skipped and `is_finished` is never set, so that
consumers wait for ever, and the message "all work consumed" (`:346`) is printed
while items remain. The safety properties of `pc_safety` hold for both values.

**pc_phantom.** A consumer tests `is_finished`, the producer sees `in = 0` and
posts `sem_2` `MAX_NUM_CONSUMERS` times, the consumer wakes, does not look at
`is_finished` again and reads `work[-1]`. It prints, sleeps for and counts an
item that does not exist. `PhantomTakesBounded` shows that all consumers
together take at most as many such items as there are consumers.

**queue.** `LinkTargetLive` (the dangling tail is never followed) and
`FifoSpec` (followed from `head` as `num_elements` and `print_queue` do, each
pointer access is a step of a FIFO or no step). Four elements
let cells be reused and the queue be emptied and filled again; three threads
give contention at every access.

**grep.** `ParallelMatchesSerial` (equal counts if nothing was deleted and the
start path is a directory, zero for any other start path; deletions only lower
the second count),
`WorkPartitioned` (no path is in two hands), `UnlockedReadsQuiet` (the two
loops of `pthread_join` are enough for what is used without a lock: while
`SHARED.queue_files` is distributed no file finding thread is left that could
insert, and `RESULTS` is complete when it is added up) and
`Terminates`, under weak fairness for the threads. The trees have more, as many
and fewer entries than threads, no entry, a link, and paths that cannot be
opened, or are a single file; hit counts are powers of two, so that a sum tells which files were
counted. `MAX_ELEMENTS_Q` is 2, so that five entries for two threads exceed it.
The main program ends, so deadlock is not checked.

**chat_connect.** `PromptMeansListed` (who sees the prompt is in the list, also
when answers are read out of turn, or was in it when the server was last
stopped: `check_connection` is answered with OK to anybody, `server.c:276`, so
that a client does not notice that a new server has forgotten it), `QuitDisconnects` (who asked to leave is
not in the list once its request was read), `BlockedOnlyOnConnect` (the server
waits in `open()` only for a client that is about to open its FIFO for the
first time, or for one that was killed or interrupted), `ServerResponsive`:
without kills and interrupts the server comes back for the next request,
unless it writes to a FIFO that is full; and `ReadingEnds`: a client leaves
`client_read_messages`, unless it finds again and again that the server has
closed the FIFO and `poll()` reports it as ready, which happens even with a single client, when it is faster
than the server's `close()`. Fairness is weak, for the server and
for what each client does by itself; users need not do anything. Room for one
of two clients makes the list full. The killed case of `BlockedOnlyOnConnect`
is the bug that the client's README mentions, and the run says that only kills
and interrupts lead there.

**chat_room.** `GlobalReachesAll` (nobody is skipped although unreachable
clients are removed during the loop, and OK means that all got it) and
`AnswerOnItsWay` (no path through the server forgets the answer: while a client
waits for one and the server has not been stopped, it is in the client's FIFO,
in the server's hands, or due for a request in the server's FIFO). It starts
with three connected clients, the state after they connected in turn: a
sender, one that is gone and one behind it in the list are needed. FIFOs of one
record make `write()` block.

In both runs processes end and users may do nothing, so deadlock is not
checked.

**chat_prompt** is described with its finding.

**list.** `WalksAgree` (the next pointers, the prev pointers and the length tell
of the same nodes), `CursorsLive` (no search and no global message ever stands
on a freed node, except that the server reads the next pointer of the one it
has just freed, and that leads back into the list), `LoopServesAll` (a global
message serves everybody once and in order although nodes are removed under
its cursor) and the refinement `RosterSpec`. `CursorsLive` also says that the
node removed is the one under the cursor: pids in the server's list are
distinct. Four cells and room for three clients let the list be full and
freed cells be reused; cells and pids are interchangeable. The list never
stops, so deadlock is checked.

**primes.** `FoundExactly` (the numbers found are those whose lower half is
prime, in order and without a gap: exactly the primes as long as they fit) and
`ReportShows` (what a report prints, at whatever step the signal came, and
also when the handler of the other signal interrupts it). The report
always starts at the first slot, because a push on a full ring does not move
`tail`: after one signal it shows what was put last into the first five slots
(`Occupant`). A second signal makes it go further: then at most one number is
shown that was never put into the ring, and at most four that others have left
behind it. Both bounds are reached. The search is run to its end, so no
bound is needed; the program exits, so deadlock is not checked.

**primes_last.** The report is headed "Last 5 Found Primes" (`primes.c:99`). After
the sixth prime, 13, it still shows the first five: the ring has nine slots, and
the report begins at the first one whatever was pushed.

**pipes.** `PipelineAnswer` (the average is printed if and only if all three
programs could be started, although a failing `execl` lets a child go on as
another parent; only a failing `fork` can get the program killed), `EchoShown`
(each text appears once in upper case; when stdout is not a terminal, once
more for every later round, because the child's `exit` writes the buffer it
has inherited) and `NobodyWaitsForever`: every wait and read of both programs
ends. `TypeOK` includes that a round of the echo chamber closes all that it has
opened. Fairness is weak for each process: a system call that can return does;
nobody has to type a text. The bounds on processes and pipes are what a child that
goes on as a parent needs; two rounds show the inherited buffer. The programs
exit, so deadlock is not checked.

## Proofs

The proofs are for every value of the constants that the named assumptions of
the modules allow; each rests on an inductive invariant, which TLC checked on
the instances of the runs (but for `TypeInv` of `Pipes`, whose set of tables is
too large to be enumerated; it checked `TypeOK`). `[]Inv` follows from
`Init => Inv` and `Inv /\ [Next]_vars => Inv'`, with one step per action.

| Module | Any | Invariant | Proved |
|---|---|---|---|
| `ProducerConsumerProofs` | consumers, items, buffer size, final posts | `IInv` | `TypeOK`, `SharedMemExclusive`, `TokenAccounting`, `FullHandshake`, `PutWithinBuffer`, `NoDoubleConsumption`, `AllConsumedAtFinish`, `PhantomTakesBounded`, refinement of `WorkPool` |
| `QueueProofs` | elements, threads | `QInv` | `TypeOK`, `LinkTargetLive`, `ChainInv`, refinement of `Fifo` |
| `ClientListProofs` | nodes, pids, limit of the server | `LInv` | `TypeOK`, `WalksAgree`, `CursorsLive`, `LoopServesAll`, refinement of `Roster` |
| `ChatProofs` | clients, room in the list, FIFO capacity, choices, interrupts, kills, restarts | `CInv` | `TypeOK`, `PromptMeansListed`, `QuitDisconnects`, `GlobalReachesAll`, `AnswerOnItsWay`, `BlockedOnlyOnConnect` |
| `MiniGrepProofs` | file trees, threads, deletions, both modes | `GInv` | `TypeOK`, `UnlockedReadsQuiet`, `WorkPartitioned`, `ParallelMatchesSerial` |
| `PrimeRingProofs` | width of an int, allocation, element size, length of a report | `Inv` | `TypeOK`, `FoundExactly`, `ReportShows` |
| `PipesProofs` | processes, pipes, capacity, numbers (one of them positive), missing programs, failing forks, rounds | `TypeInv`, `EchoInv`, `PipelineInv` | `TypeOK`, `EchoShown`, `PipelineAnswer` |

**ProducerConsumer.** `IInv` is `TypeOK`, `SharedMemExclusive`,
`TokenAccounting` and `FullHandshake` with four more parts, because none of
the other properties is inductive:

* `ControlInv` ties control points to the locals and flags (for instance that
  `is_finished` is set exactly after the drain loop has seen an empty buffer);
* `IndexInv` relates `in` and `out` at each control point of the process inside
  the critical section (outside it `out = in - 1` once an item was produced), and bounds `in`; after a
  full buffer was signalled it is below `BUF_SIZE` until the producer writes,
  which is why the missing second test does no harm;
* `StackInv` says that the slots below `in` hold distinct items, which together
  with `taken` and the one in a consumer's hand are all that was produced;
* `ReadInv` says that the value a consumer has read is still on top.

Token accounting is what makes the pop safe: a consumer past `sem_2` is counted
in `Claimed`, so `in` is at least one before the end is declared, and `in = 0`
implies that no claim is outstanding, which gives `AllConsumedAtFinish`.
`PhantomInv` adds the bookkeeping of `PhantomTakesBounded`: each decrement
after the end belongs to a consumer that was past its test of `is_finished`.

**Queue.** `QInv` adds to the chain of pointers the mutex (`MutexInv`), the
ownership of elements in a thread's hands (`HandInv`), and where `tail` points
at each control point of an insertion (`TailInv`); between insertions it says
that `tail` is the last element only if the queue is not empty, which is
exactly what `remove_element` preserves and `insert_element` needs. For the
refinement, a walk from `head` along `next` as `num_elements` takes it is shown
to give the contents of the chain.

**ClientList.** `StructureInv`: `next` and `prev` lead through the same nodes,
each once, between the sentinels; `ServerInv`: no pid twice in the server's
list; `SearchInv`: a search has passed only other pids; `MessageInv`: what is
left of the agenda of a global message lies ahead of its cursor, also when the
cursor is on a freed node, whose `next` pointer leads to the place where the
agenda goes on. Distinct pids are needed: `client_remove` searches from the
front, and must find the node under the cursor.

**Chat.** The parts of `CInv` follow a request: a client the server does not
know has written nothing (`FreshInv`), the request to connect is the only one
of its client (`RequestInv`, `HandInv`), an OK for it is written only after the
list took it in (`ConnectedInv`), which makes the out-of-turn answers of
`client.c:145` harmless for `PromptMeansListed`; `QuitInv`, `UnopenedInv` (a
client in the list that has not opened its FIFO is the one being answered, the
core of `BlockedOnlyOnConnect`) and `LoopInv` (whom the cursor of a global
message has passed). `ClientsAssumption` includes that `"global"` and the other
marks are not pids.

**MiniGrep.** What is left for a thread to do is a set of paths, each standing
for the part of the tree below it (`Below`, the smallest set closed under
listing a directory). `ApartInv`: the parts in the hands and queues of the
threads, in the main thread's queue and in `SHARED.queue_files` never overlap;
`CountInv`: there are disjoint sets of files that the serial search and each
thread have counted, whose tokens add up to the numbers in the program, and
every file present is counted or in some pool; `PhaseInv`: which queues are
empty when, that the threads joined so far, and in the second round those not
yet created, have ended, and that what is still to be handed out fits into the shares of the
threads to come (`round_up`). At the end the pools are empty, and the sums are
over the same files. `TreeAssumption` includes that the tree is finite.

**PrimeRing.** `SearchInv`: no odd number below the divisor divides the
candidate, and what is not excluded by a divisor up to the root is a prime;
`RingInv`: a slot holds the number found in the last round; `CountInv`: `head`
and `count` against the number of primes found, up to a push that a handler has
interrupted; `ReportInv`: a report has a start and an excess of at most one,
which a second signal between `advance` and `count` of `cb_pop_front` causes;
the slots it reads are consecutive, so that at most one of them was never
written and at most four lie behind the allocation.

**Pipes.** `TypeInv` gives for every control point the descriptors that a
process has open and the ones its variables `fd0` to `fd3` name (`TableOK`).
`lowest` then is a number, and a round of the echo chamber comes back to the
three standard descriptors.

`EchoInv`: as long as no `fork` failed and no call was interrupted, the program
is between two rounds (`Idle`), in one with a child `q` and the pipes `a` and
`b` (`Round`), or in one whose child has ended (`Back`). Each says where the
text of the round is: typed, in pipe `a`, in the child, in upper case in pipe
`b`, or printed. `IdleCounts` and `RoundCounts` say how often each text is on
the screen and pending, which for a buffered stdout is a sum over rounds: the
number of pairs of a round and the same or a later one, counted as a set
(`Repeated`), so that one round adds the pairs that end in it (`RepeatedNext`).
At the end nothing is pending, and the screen holds what is due.

`PipelineInv`: before the first `fork` (`Start`), or there are pipes `a`, `b`,
`c` and `d`, the last two perhaps still to be made, such that

* `Shape`: the parent has the ends of these that it should have at its point,
  and every other process is a child that has not yet moved its descriptors or
  reads and writes `a` and `b`, `b` and `c`, or `c` and `d`; so do the
  descendants of a child whose `execl` failed, and what they do with any
  further pipes that they make does not touch these four;
* `ReaderInv` and `NotKilled`: until a `fork` fails somebody reads the argument,
  so that the parent is not killed when it writes it;
* `Explained`: when something has gone wrong, one of the three programs is not
  at work and never will be, and nothing that it would have made is in the
  pipes behind it, in a process or on the screen. This is `Flow` for a sorting
  that says what each pipe may hold (`Clean1`, `Clean2`, `Clean3`);
* `Happy`, when nothing has: a positive number is on its way. `Phases` follows
  it from `gen_numbers` through `b`, `c`, `calc_avg` and `d` to the terminal,
  with the facts that keep it going: the reader of `b` does not end while there
  is something in it, the one writer of `d` is a child of the parent, and so the
  parent does not read before the average is there.

At the end of the program `Explained` excludes the answer and `Happy` forces it,
which is `PipelineAnswer` in both directions.

The library's induction theorems take an operator as a parameter, which the
provers cannot instantiate. Where the arguments above need induction they use
a least counterexample (`LeastNumber` of `WalkLemmas`), the smallest closed set
(`Below`), or the cardinality of a set of tokens instead of a recursive sum.

Only model-checked: everything about liveness, which needs `ENABLED`
(`ConsumersFinish`, `ProducerExits`, `Terminates`, `ServerResponsive`,
`ReadingEnds`, `NobodyWaitsForever`).

## Findings

1. `consumer.c:171` reads `work[-1]` after the final broadcast (`pc_phantom`).
2. `client.c:139` opens the FIFO for an answer that may have been written
   already, and waits for ever; or it meets the descriptor of the previous
   answer and takes its closing for a lost connection (`chat_prompt`).
3. `primes.c:40` makes the ring four slots too long, and a push on a full ring
   does not move `tail`: the "Last 5 Found Primes" are not the last ones
   (`primes_last`).

Weaknesses that the passing runs work around or state: `mini_grep.c:467` and `:889` drop a start path
that is a regular file; `client.c:145` takes a chat message for the answer to
a request; `server.c:281` confirms connections that a restarted server does
not know; `server.c:333` reads a freed node; `server.c:61` blocks on a client
that does not read; `producer.c:318` tests `finished` before it is assigned;
CTRL+C while a client waits for an answer (`client.c:140`) ends it without a
disconnect request, against line 26 of its README, so that it stays in the
list; `mini_grep.c:544` writes past `elements[]`;
`echo_chamber.c:160` prints buffered text again in every later child.

## Not modelled, and the plan

Not modelled: several producer runs over one another's shared objects, zero or
negative numbers of threads, output and timing, the contents of files (a file is
its number of matching tokens); directories and files that can be opened and
then only partly read (`mini_grep.c:306`, `:373`); a failing `pipe()`, after
which a process prints a message and exits (`echo_chamber.c:117`,
`pipes_gen_filter.c:50`, `:72`, `:93`); texts longer than the 257 bytes that
`get_text` writes to without a limit (`echo_chamber.c:43`); the descriptor that
the server keeps after a failed `write()` (`server.c:61`, `:90`), which only
counts against its limit of open files. Of the components: the sequence number server
and client of `pp_1` (the client does not link, and sends a request it never
fills in), the smoke test `pp_2/test.c` (256 insertions and a print), and the
homework and scratch programs, which have no state or protocol of their own.

Every safety property of the passing runs is proved. What could be added are
the properties of the two situations that are not modelled, first of all a
second producer that removes the names of the first one's objects.
