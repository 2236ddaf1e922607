-------------------------------- MODULE Pipes ---------------------------------
(***************************************************************************)
(* The two programs of src/pe_2, which fork children and talk to them over  *)
(* pipes: echo_chamber.c, whose child returns a text in upper case, and     *)
(* pipes_gen_filter.c, which connects three coprocesses,                    *)
(*                                                                          *)
(*        gen_numbers n | filter_pos_nums | calc_avg                        *)
(*                                                                          *)
(* and prints what the last one says.  Both parents wait for their children *)
(* before they read the result.                                             *)
(*                                                                          *)
(* A process has a table of open descriptors, which fork() copies; pipe()   *)
(* takes the lowest free numbers.  A pipe is at its end when no table has   *)
(* its writing end any more.  One action is a system call that may block or *)
(* that another process can notice, with the local steps around it; a run   *)
(* of close() and dup2() calls is one action.  What is sent through a pipe  *)
(* is a sequence of chunks.  What printf() leaves in the process (pending)  *)
(* is written when it exits; exec() forgets it, and fork() copies it.       *)
(***************************************************************************)
EXTENDS Integers, Sequences, FiniteSets, FiniteSetsExt, SequencesExt

CONSTANTS
  MAX_PROCS,        \* bound: processes alive at a time
  MAX_PIPES,        \* bound: pipes in use at a time
  CAPACITY,         \* chunks a pipe holds before write() blocks
  NUMBERS,          \* what gen_numbers generates: a sequence of chunks
  MissingSets,      \* which executables may be missing
  MAX_FAILURES,     \* bound: calls of fork() that fail
  MAX_ROUNDS        \* bound: rounds of the echo chamber

ASSUME SizesAssumption ==
  /\ MAX_PROCS \in Nat \ {0} /\ MAX_PIPES \in Nat /\ CAPACITY \in Nat \ {0}
  /\ MAX_FAILURES \in Nat /\ MAX_ROUNDS \in Nat
ASSUME ProgramsAssumption ==
  /\ NUMBERS \in Seq({"pos", "neg"}) /\ "pos" \in ToSet(NUMBERS)
  /\ MissingSets \subseteq SUBSET {"gen_numbers", "filter_pos_nums", "calc_avg"}

VARIABLES
  program, missing,   \* what was started, and the executables not found
  restart,            \* signal() makes blocked calls restart (not with -std=c99)
  buffered,           \* stdout keeps its text until the process exits
  proc, content,      \* the processes; what is in each pipe
  screen,             \* what arrived at the terminal
  failures,           \* calls of fork() that failed
  typed,              \* history, echo chamber: the text of each round
  eintr               \* history: a signal made a call fail

world == <<program, missing, restart, buffered>>
vars  == <<world, proc, content, screen, failures, typed, eintr>>

Main    == 1
Procs   == 1..MAX_PROCS
PipeIds == 1..MAX_PIPES
STDIN   == 0
STDOUT  == 1
Signals == {"SIGINT", "SIGQUIT"}

End(k, e) == [pipe |-> k, end |-> e]
Terminal  == End(0, "tty")
Texts     == {<<>>, <<"hello">>, <<"bye">>}

(* A process: its point, open descriptors, the variables fd0 to fd3, buffer, *)
(* pending output, its parent, and the signals it has caught and ignores     *)
(* from then on; int_flag is set when there is one.                          *)
Free == [pc |-> "free", open |-> [f \in {} |-> Terminal],
         fd |-> [k \in 0..3 |-> <<-1, -1>>],
         buffer |-> <<>>, pending |-> <<>>, parent |-> 0, ignored |-> {}]

Alive(p) == proc[p].pc \notin {"free", "exited", "killed"}

Init ==
  /\ \/ program = "echo" /\ missing = {}
        /\ restart \in BOOLEAN /\ buffered \in BOOLEAN
     \/ program = "pipeline" /\ missing \in MissingSets
        /\ restart = TRUE /\ buffered = TRUE
  /\ proc = [p \in Procs |-> IF p # Main THEN Free
               ELSE [Free EXCEPT !.pc = IF program = "echo" THEN "while"
                                                            ELSE "fork_1",
                                 !.open = [f \in 0..2 |-> Terminal]]]
  /\ content = [k \in PipeIds |-> <<>>]
  /\ screen = <<>> /\ failures = 0 /\ typed = <<>> /\ eintr = FALSE

-------------------------------------------------------------------------------
(* System calls.                                                             *)

Ends == UNION {Range(proc[p].open) : p \in Procs}
HasReader(k) == End(k, "r") \in Ends
HasWriter(k) == End(k, "w") \in Ends

(* A descriptor table after close() and dup2(), which have no effect on a    *)
(* descriptor that is not open.                                              *)
close(t, F) == Restrict(t, DOMAIN t \ F)
put(t, f, d) == [g \in DOMAIN t \cup {f} |-> IF g = f THEN d ELSE t[g]]
dup2(t, old, new) == IF old \in DOMAIN t THEN put(t, new, t[old]) ELSE t

(* The lowest number that is not in use in a descriptor table.               *)
lowest(t) == Min((0..Cardinality(DOMAIN t)) \ DOMAIN t)

(* The process state r after pipe(fdk), for a pipe that is not in use.       *)
with_pipe(r, k, id) ==
  LET t1 == put(r.open, lowest(r.open), End(id, "r"))
  IN  [r EXCEPT !.fd[k] = <<lowest(r.open), lowest(t1)>>,
                !.open = put(t1, lowest(t1), End(id, "w"))]
Unused == {k \in PipeIds : ~HasReader(k) /\ ~HasWriter(k)}

NewPipe       == Min(Unused)
SecondNewPipe == Min(Unused \ {NewPipe})

(* Both programs begin with pipe(fd0) and pipe(fd1).                         *)
with_two_pipes(r, a, b) == with_pipe(with_pipe(r, 0, a), 1, b)

(* p, which has become r, forks; it may fail and leave p at a point.         *)
FreeProcs == {x \in Procs : proc[x].pc = "free"}

fork(p, r, here, child, failed) ==
  \/ /\ FreeProcs # {} /\ UNCHANGED failures
     /\ proc' = [proc EXCEPT ![p] = [r EXCEPT !.pc = here],
                   ![Min(FreeProcs)] = [r EXCEPT !.pc = child, !.parent = p]]
  \/ /\ failures < MAX_FAILURES /\ failures' = failures + 1
     /\ proc' = [proc EXCEPT ![p] = [r EXCEPT !.pc = failed]]

IsOpen(p, f) == f \in DOMAIN proc[p].open
PipeOf(p, f) == proc[p].open[f].pipe

(* read() and write() return, or the latter ends the process.                *)
Ready(p, f) ==
  LET k == PipeOf(p, f) IN k = 0 \/ content[k] # <<>> \/ ~HasWriter(k)
CanWrite(p, f) ==
  LET k == PipeOf(p, f) IN HasReader(k) /\ Len(content[k]) < CAPACITY
SIGPIPE(p, f) == IsOpen(p, f) /\ PipeOf(p, f) # 0 /\ ~HasReader(PipeOf(p, f))

received(p, f) == IF PipeOf(p, f) = 0 THEN <<>> ELSE content[PipeOf(p, f)]
emptied(p, f)  == [content EXCEPT ![PipeOf(p, f)] = <<>>]
sent(c, p, f, s) == [c EXCEPT ![PipeOf(p, f)] = @ \o s]

(* A pipe that nobody has open any more is gone with what it holds.          *)
holding(c) ==
  content' = [k \in PipeIds |->
    IF {End(k, "r"), End(k, "w")} \cap Ends' # {} THEN c[k] ELSE <<>>]

step(p, r, c) == proc' = [proc EXCEPT ![p] = r] /\ holding(c)

(* A process ends: its descriptors are closed, its children are orphans.     *)
ends(p, how) ==
  /\ proc' = [x \in Procs |->
       IF x = p THEN [Free EXCEPT !.pc = IF p = Main THEN how ELSE "free"]
       ELSE IF proc[x].parent = p THEN [proc[x] EXCEPT !.parent = 0]
       ELSE proc[x]]
  /\ holding(content)

(* exit(): stdio writes what is pending, and the process ends.               *)
exit_flush(p) ==
  LET r == [proc[p] EXCEPT !.pending = Tail(@)]
      c == SubSeq(proc[p].pending, 1, 1)
  IN
  /\ proc[p].pc = "exit" /\ proc[p].pending # <<>>
  /\ \/ PipeOf(p, STDOUT) = 0 /\ screen' = screen \o c /\ step(p, r, content)
     \/ PipeOf(p, STDOUT) # 0 /\ CanWrite(p, STDOUT) /\ UNCHANGED screen
        /\ step(p, r, sent(content, p, STDOUT, c))
  /\ UNCHANGED <<failures, typed, eintr>>

exit(p) == proc[p].pc = "exit" /\ proc[p].pending = <<>> /\ ends(p, "exited")

-------------------------------------------------------------------------------
(* Both parents send a text to a child, wait for all children, and read the  *)
(* result.  Names that end in a capitalized word are faulty variants of what *)
(* follows, for the mutants.                                                 *)

(* write(fd0[1]), which may not be open, and close(fd0[1])                   *)
send(p) ==
  LET f == proc[p].fd[0][2]
      r == [proc[p] EXCEPT !.pc = "wait", !.open = close(@, {f})]
  IN
  /\ proc[p].pc = "send"
  /\ IF ~IsOpen(p, f) \/ proc[p].buffer = <<>> THEN step(p, r, content)
     ELSE CanWrite(p, f) /\ step(p, r, sent(content, p, f, proc[p].buffer))

Children(p) == {q \in Procs : proc[q].parent = p /\ Alive(q)}

wait(p) ==
  /\ proc[p].pc = "wait" /\ Children(p) = {}
  /\ step(p, [proc[p] EXCEPT !.pc = "answer"], content)

(* read() of the result and close(); print the buffer as far as the first    *)
(* null character, and go on.  A read() that fails leaves the buffer.        *)
Result(p) == proc[p].fd[IF program = "echo" THEN 1 ELSE 3][1]

as_string(s) ==
  LET N == {k \in DOMAIN s : s[k] = "NUL"}
  IN  IF N = {} THEN s ELSE SubSeq(s, 1, Min(N) - 1)

answer_closes_Forgotten(t, f) == t

answer_closes(t, f) == close(t, {f})

print_answer(p, r, s) ==
  LET text == as_string(s)
      end  == [r EXCEPT !.pc = IF program = "echo" THEN "while" ELSE "exit",
                        !.buffer = text, !.open = answer_closes(@, Result(p))]
  IN  IF buffered
      THEN step(p, [end EXCEPT !.pending = @ \o text], content)
             /\ UNCHANGED screen
      ELSE step(p, end, content) /\ screen' = screen \o text

answer(p) ==
  /\ proc[p].pc = "answer"
  /\ \/ /\ IsOpen(p, Result(p)) /\ Ready(p, Result(p))
        /\ print_answer(p, proc[p], received(p, Result(p)))
     \/ ~IsOpen(p, Result(p)) /\ print_answer(p, proc[p], proc[p].buffer)
  /\ UNCHANGED <<failures, typed, eintr>>

-------------------------------------------------------------------------------
(* echo_chamber.c                                                            *)

while(p) ==
  /\ proc[p].pc = "while"
  /\ IF proc[p].ignored # {}
     THEN /\ proc' = [proc EXCEPT ![p].pc = "exit"]
          /\ UNCHANGED failures
     ELSE /\ Len(typed) < MAX_ROUNDS /\ Cardinality(Unused) >= 2
          /\ \E a \in {NewPipe}, b \in {SecondNewPipe} :
               fork(p, with_two_pipes(proc[p], a, b), "get_text", "child", "exit")
  /\ UNCHANGED <<content, screen, typed, eintr>>

(* The parent reads a text up to the end of input, one that fits its buffer. *)
get_text(p) ==
  /\ proc[p].pc = "get_text"
  /\ \E s \in Texts :
       /\ step(p, [proc[p] EXCEPT !.pc = "send", !.buffer = s,
                     !.open = close(@, {proc[p].fd[0][1], proc[p].fd[1][2]})],
               content)
       /\ typed' = Append(typed, s)
  /\ UNCHANGED <<screen, failures, eintr>>

child(p) ==
  /\ proc[p].pc = "child"
  /\ step(p, [proc[p] EXCEPT !.pc = "read_text",
                !.open = close(@, {proc[p].fd[0][2], proc[p].fd[1][1]})], content)

upper == [hello |-> "HELLO", bye |-> "BYE", HELLO |-> "HELLO", BYE |-> "BYE"]
get_upper_Unchanged(s) == s

toupper(c) == IF c \in DOMAIN upper THEN upper[c] ELSE c
get_upper(s) == [k \in DOMAIN as_string(s) |-> toupper(s[k])]

(* The child converts what its buffer holds after read(fd0[0]) ...           *)
convert(r, s) == [r EXCEPT !.pc = "reply", !.buffer = get_upper(s)]

read_text(p) ==
  LET f == proc[p].fd[0][1] IN
  /\ proc[p].pc = "read_text" /\ Ready(p, f)
  /\ step(p, convert(proc[p], received(p, f)), emptied(p, f))

(* ... and writes MAX_BUFFER_SIZE bytes: the text and null characters.       *)
reply(p) ==
  LET f == proc[p].fd[1][2] IN
  /\ proc[p].pc = "reply" /\ CanWrite(p, f)
  /\ step(p, [proc[p] EXCEPT !.pc = "exit", !.open = close(@, {f})],
          sent(content, p, f, proc[p].buffer \o <<"NUL">>))

(* int_handler and quit_handler.  Unless calls restart, one in which the     *)
(* process is blocked fails: wait() ends the loop early, and after a failing *)
(* read() the buffer holds what it held before.                              *)
Blocked(p) ==
  LET r == proc[p] IN
  \/ r.pc = "wait" /\ Children(p) # {}
  \/ r.pc = "answer" /\ ~Ready(p, Result(p))
  \/ r.pc = "read_text" /\ ~Ready(p, r.fd[0][1])

handler(p, sig) ==
  LET r == [proc[p] EXCEPT !.ignored = @ \cup {sig}] IN
  /\ program = "echo" /\ Alive(p) /\ sig \notin proc[p].ignored
  /\ \/ /\ restart \/ ~Blocked(p)
        /\ step(p, r, content) /\ UNCHANGED <<screen, eintr>>
     \/ /\ ~restart /\ Blocked(p) /\ eintr' = TRUE
        /\ \/ r.pc = "answer" /\ print_answer(p, r, r.buffer)
           \/ /\ r.pc # "answer" /\ UNCHANGED screen
              /\ step(p, IF r.pc = "wait" THEN [r EXCEPT !.pc = "answer"]
                         ELSE convert(r, r.buffer), content)
  /\ UNCHANGED <<failures, typed>>

-------------------------------------------------------------------------------
(* pipes_gen_filter.c.  A failing fork() is not noticed, and a process that  *)
(* fails to execute its program goes on with the code of its parent.         *)

fork_coprocess(p) ==
  /\ \/ /\ proc[p].pc = "fork_1" /\ Cardinality(Unused) >= 2
        /\ \E a \in {NewPipe}, b \in {SecondNewPipe} :
             fork(p, with_two_pipes(proc[p], a, b), "fork_2", "setup_1", "fork_2")
     \/ /\ proc[p].pc = "fork_2" /\ Unused # {}
        /\ fork(p, with_pipe(proc[p], 2, NewPipe), "fork_3", "setup_2", "fork_3")
     \/ /\ proc[p].pc = "fork_3" /\ Unused # {}
        /\ fork(p, with_pipe(proc[p], 3, NewPipe), "close", "setup_3", "close")
  /\ UNCHANGED <<content, screen, typed, eintr>>

execl(r, name, point, output, next) ==
  IF name \in missing
  THEN [r EXCEPT !.pc = next, !.pending = Append(@, "noise")]
  ELSE [r EXCEPT !.pc = point, !.pending = output, !.buffer = <<>>]

(* Close descriptors, make the reading end of fda the standard input and the *)
(* writing end of fdb the standard output, and close these.                  *)
plumb_InputOnly(r, F, a, b) ==
  [r EXCEPT !.open = close(dup2(close(@, F), r.fd[a][1], STDIN),
                           {r.fd[a][1], r.fd[b][2]})]

plumb(r, F, a, b) ==
  [r EXCEPT !.open =
     close(dup2(dup2(close(@, F), r.fd[a][1], STDIN), r.fd[b][2], STDOUT),
           {r.fd[a][1], r.fd[b][2]})]

Both(r, k) == {r.fd[k][1], r.fd[k][2]}

(* The first child reads its argument from pipe 0 before it executes its     *)
(* program; the descriptor it reads from is a copy of its standard input.    *)
setup(p) ==
  LET r == proc[p]
      others == {r.fd[0][2], r.fd[1][1]}
  IN
  \/ /\ r.pc = "setup_1"
     /\ step(p, [plumb(r, others, 0, 1) EXCEPT !.pc = "read_argument"], content)
  \/ /\ r.pc = "setup_2"
     /\ step(p, execl(plumb(r, Both(r, 0) \cup {r.fd[1][2], r.fd[2][1]}, 1, 2),
                      "filter_pos_nums", "filter", <<>>, "fork_3"), content)
  \/ /\ r.pc = "setup_3"
     /\ step(p, execl(plumb(r, Both(r, 0) \cup Both(r, 1)
                                 \cup {r.fd[2][2], r.fd[3][1]}, 2, 3),
                      "calc_avg", "calc", <<>>, "close"), content)

read_argument(p) ==
  LET got == received(p, STDIN) IN
  /\ proc[p].pc = "read_argument" /\ Ready(p, STDIN)
  /\ step(p, execl([proc[p] EXCEPT !.buffer = got], "gen_numbers", "exit",
                   IF got = <<>> THEN <<>> ELSE NUMBERS, "fork_2"),
          emptied(p, STDIN))

parent_closes_OneLeft(r) == Both(r, 2) \cup {r.fd[0][1], r.fd[1][1], r.fd[3][2]}

parent_closes(r) == Both(r, 1) \cup Both(r, 2) \cup {r.fd[0][1], r.fd[3][2]}

close_unused(p) ==
  /\ proc[p].pc = "close"
  /\ step(p, [proc[p] EXCEPT !.pc = "send", !.buffer = <<"arg">>,
                !.open = close(@, parent_closes(proc[p]))], content)

(* The programs it executes are not in the repository.  gen_numbers writes   *)
(* its numbers and exits; filter_pos_nums passes on what is not negative;    *)
(* calc_avg reads everything and then says what the average is.              *)
Input(p) == received(p, STDIN)
Rest(p)  == [content EXCEPT ![PipeOf(p, STDIN)] = Tail(@)]
Passed(p) == Input(p) # <<>> /\ Head(Input(p)) # "neg"

filter_pos_nums(p) ==
  /\ proc[p].pc = "filter" /\ Ready(p, STDIN)
  /\ IF Input(p) = <<>> THEN step(p, [proc[p] EXCEPT !.pc = "exit"], content)
     ELSE IF ~Passed(p) THEN step(p, proc[p], Rest(p))
     ELSE /\ CanWrite(p, STDOUT)
          /\ step(p, proc[p], sent(Rest(p), p, STDOUT, <<Head(Input(p))>>))

calc_avg(p) ==
  LET sum == proc[p].buffer IN
  /\ proc[p].pc = "calc" /\ Ready(p, STDIN)
  /\ IF Input(p) = <<>>
     THEN step(p, [proc[p] EXCEPT !.pc = "exit", !.buffer = <<>>,
            !.pending = <<IF sum = <<"pos">> THEN "avg" ELSE "noise">>], content)
     ELSE step(p, [proc[p] EXCEPT !.buffer =
            IF Head(Input(p)) = "pos" /\ sum \in {<<>>, <<"pos">>}
            THEN <<"pos">> ELSE <<"noise">>], Rest(p))

(* A process that is about to write to a pipe without a reader.              *)
broken_pipe(p) ==
  LET r == proc[p] IN
  /\ \/ r.pc = "send" /\ r.buffer # <<>> /\ SIGPIPE(p, r.fd[0][2])
     \/ r.pc = "reply" /\ SIGPIPE(p, r.fd[1][2])
     \/ r.pc = "exit" /\ r.pending # <<>> /\ SIGPIPE(p, STDOUT)
     \/ r.pc = "filter" /\ Passed(p) /\ SIGPIPE(p, STDOUT)
  /\ ends(p, "killed")

-------------------------------------------------------------------------------
Runs(p) ==
  \/ exit_flush(p) \/ answer(p) \/ while(p) \/ fork_coprocess(p)
  \/ /\ \/ exit(p) \/ send(p) \/ wait(p) \/ broken_pipe(p)
        \/ child(p) \/ read_text(p) \/ reply(p)
        \/ setup(p) \/ read_argument(p) \/ close_unused(p)
        \/ filter_pos_nums(p) \/ calc_avg(p)
     /\ UNCHANGED <<screen, failures, typed, eintr>>

Next ==
  /\ \E p \in Procs :
       Runs(p) \/ get_text(p) \/ \E sig \in Signals : handler(p, sig)
  /\ UNCHANGED world

(* The processes run; nobody has to type a text or press a key.              *)
Fairness == \A p \in Procs : WF_vars(Runs(p) /\ UNCHANGED world)

Spec == Init /\ [][Next]_vars

FairSpec == Spec /\ Fairness

-------------------------------------------------------------------------------
(* Properties.                                                               *)

Points == {"free", "exited", "killed", "exit", "send", "wait", "answer",
           "while", "get_text", "child", "read_text", "reply",
           "fork_1", "fork_2", "fork_3", "setup_1", "setup_2", "setup_3",
           "read_argument", "close", "filter", "calc"}
Chunks == DOMAIN upper \cup {"NUL", "arg", "pos", "neg", "avg", "noise"}

(* Every process stays in its type, and no program collects descriptors: a   *)
(* round of the echo chamber closes what it has opened.                      *)
TypeOK ==
  /\ \A p \in Procs :
       /\ proc[p].pc \in Points
       /\ DOMAIN proc[p].open \subseteq 0..10
       /\ proc[p].pc = "while" => DOMAIN proc[p].open = 0..2
       /\ ToSet(proc[p].buffer \o proc[p].pending) \subseteq Chunks
       /\ proc[p].parent \in 0..MAX_PROCS /\ proc[p].ignored \subseteq Signals
  /\ Ends \subseteq {Terminal} \cup {End(k, e) : k \in PipeIds, e \in {"r", "w"}}
  /\ \A k \in PipeIds : ToSet(content[k]) \subseteq Chunks
  /\ ToSet(screen) \subseteq Chunks

(* execl, fork: the pipeline prints the average of the numbers that          *)
(* gen_numbers generated if and only if every program could be started; and  *)
(* it is killed only if fork() failed.                                       *)
PipelineAnswer ==
  program = "pipeline" =>
    /\ proc[Main].pc = "exited" =>
         (screen = <<"avg">> <=> missing = {} /\ failures = 0)
    /\ proc[Main].pc = "killed" => failures > 0

(* How often a text is printed, as the pairs of its round and the round or   *)
(* the end of the program in which it is printed: once for every round that  *)
(* has it; but text that stdio still holds is copied by fork() and printed   *)
(* by the exit() of every later child, too.                                  *)
Shows(k, c) == typed[k] # <<>> /\ upper[typed[k][1]] = c

Due(c) ==
  LET n == Len(typed) IN
  Cardinality({x \in (1..n) \X (1..n) :
    Shows(x[1], c) /\ IF buffered THEN x[1] <= x[2] ELSE x[1] = x[2]})

(* The echo chamber prints every text once and in upper case, except that    *)
(* buffered output is repeated, when it has ended without a call that was    *)
(* interrupted by a signal; and only an interrupted call can kill it.        *)
EchoShown ==
  program = "echo" /\ failures = 0 /\ ~eintr =>
    /\ proc[Main].pc = "exited" => \A c \in DOMAIN upper :
         Cardinality({k \in DOMAIN screen : screen[k] = c}) = Due(c)
    /\ proc[Main].pc # "killed"

(* Every reader meets its data or the end of file, and every wait() ends:    *)
(* the pipeline comes to its end whatever is missing or fails, and the echo  *)
(* chamber's parent, which waits before it reads, comes back for the next    *)
(* text.                                                                     *)
NobodyWaitsForever ==
  /\ program = "pipeline" ~> \A p \in Procs : ~Alive(p)
  /\ proc[Main].pc \in {"send", "wait", "answer"}
       ~> proc[Main].pc \in {"while", "exit", "exited", "killed"}
===============================================================================
