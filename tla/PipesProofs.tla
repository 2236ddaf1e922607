----------------------------- MODULE PipesProofs ------------------------------
(***************************************************************************)
(* Proofs about Pipes, the programs of src/pe_2: the types (TypeInv), what  *)
(* the echo chamber prints (EchoInv), and what the pipeline prints          *)
(* (PipelineInv).                                                           *)
(***************************************************************************)
EXTENDS Pipes, WalkLemmas

-------------------------------------------------------------------------------
(* Descriptor tables.                                                        *)

Descriptors == {Terminal} \cup {End(k, e) : k \in PipeIds, e \in {"r", "w"}}
Table == UNION {[D -> Descriptors] : D \in SUBSET (0..10)}

(* What a table is.                                                          *)
LEMMA TableFacts ==
  ASSUME NEW t
  PROVE  t \in Table <=> /\ DOMAIN t \subseteq 0..10
                         /\ t = [f \in DOMAIN t |-> t[f]]
                         /\ \A f \in DOMAIN t : t[f] \in Descriptors
<1>1. ASSUME t \in Table
      PROVE  /\ DOMAIN t \subseteq 0..10
             /\ t = [f \in DOMAIN t |-> t[f]]
             /\ \A f \in DOMAIN t : t[f] \in Descriptors
  <2>1. PICK D \in SUBSET (0..10) : t \in [D -> Descriptors]
    BY <1>1 DEF Table
  <2> QED BY <2>1
<1>2. ASSUME DOMAIN t \subseteq 0..10, t = [f \in DOMAIN t |-> t[f]],
             \A f \in DOMAIN t : t[f] \in Descriptors
      PROVE  t \in Table
  <2>1. t \in [DOMAIN t -> Descriptors]
    BY <1>2
  <2> QED BY <2>1, <1>2 DEF Table
<1> QED BY <1>1, <1>2

(* close() removes descriptors and leaves the others.                        *)
LEMMA CloseFacts ==
  ASSUME NEW t \in Table, NEW F
  PROVE  /\ close(t, F) \in Table
         /\ DOMAIN close(t, F) = DOMAIN t \ F
         /\ \A f \in DOMAIN t \ F : close(t, F)[f] = t[f]
<1>1. close(t, F) = [f \in DOMAIN t \ F |-> t[f]]
  BY DEF close, Restrict
<1>2. /\ DOMAIN t \subseteq 0..10
      /\ \A f \in DOMAIN t : t[f] \in Descriptors
  BY TableFacts
<1> DEFINE c == close(t, F)
<1>3. DOMAIN c = DOMAIN t \ F /\ \A f \in DOMAIN t \ F : c[f] = t[f]
  BY <1>1
<1>4. c = [f \in DOMAIN c |-> c[f]]
  BY <1>1
<1>5. c \in Table
  <2> HIDE DEF c
  <2> QED BY <1>2, <1>3, <1>4, TableFacts
<1> QED BY <1>3, <1>5

(* u is the table t with the descriptor f made to be d.                      *)
IsPut(t, u, f, d) ==
  /\ u \in Table /\ DOMAIN u = DOMAIN t \cup {f}
  /\ \A g \in DOMAIN t \cup {f} : u[g] = IF g = f THEN d ELSE t[g]

(* put() is what IsPut says.                                                 *)
LEMMA PutFacts ==
  ASSUME NEW t \in Table, NEW f \in 0..10, NEW d \in Descriptors
  PROVE  IsPut(t, put(t, f, d), f, d)
<1> DEFINE c == put(t, f, d)
<1>3. /\ DOMAIN t \subseteq 0..10
      /\ \A g \in DOMAIN t : t[g] \in Descriptors
  BY TableFacts
<1>4. /\ DOMAIN c = DOMAIN t \cup {f}
      /\ \A g \in DOMAIN t \cup {f} : c[g] = IF g = f THEN d ELSE t[g]
  BY DEF put
<1>5. c = [g \in DOMAIN c |-> c[g]]
  BY DEF put
<1>6. c \in Table
  <2> HIDE DEF c
  <2> QED BY <1>3, <1>4, <1>5, TableFacts
<1> HIDE DEF c
<1>7. IsPut(t, c, f, d)
  BY <1>4, <1>6 DEF IsPut
<1> QED BY <1>7 DEF c

(* dup2() copies a descriptor that is open.                                  *)
IsDup(t, u, old, new) ==
  /\ u \in Table
  /\ old \notin DOMAIN t => u = t
  /\ old \in DOMAIN t =>
       /\ DOMAIN u = DOMAIN t \cup {new}
       /\ \A g \in DOMAIN t \cup {new} : u[g] = IF g = new THEN t[old] ELSE t[g]

(* dup2() is what IsDup says.                                                *)
LEMMA Dup2Facts ==
  ASSUME NEW t \in Table, NEW old, NEW new \in 0..10
  PROVE  IsDup(t, dup2(t, old, new), old, new)
<1>1. CASE old \notin DOMAIN t
  BY <1>1 DEF dup2, IsDup
<1>2. CASE old \in DOMAIN t
  <2>1. PICK d \in Descriptors : d = t[old]
    BY <1>2, TableFacts
  <2>2. dup2(t, old, new) = put(t, new, d)
    BY <1>2, <2>1 DEF dup2
  <2>3. IsPut(t, put(t, new, d), new, d)
    BY PutFacts
  <2> QED BY <1>2, <2>1, <2>2, <2>3 DEF IsDup, IsPut
<1> QED BY <1>1, <1>2

(* The least element of a set of natural numbers.                            *)
LEMMA MinFacts ==
  ASSUME NEW S \in SUBSET Nat, S # {}
  PROVE  Min(S) \in S /\ \A y \in S : Min(S) <= y
<1>1. \E x \in S : \A y \in S : x <= y
  BY LeastNumber
<1> QED BY <1>1, Zenon DEF Min

(* pipe() gets the lowest free descriptor.                                   *)
LEMMA LowestFacts ==
  ASSUME NEW t, NEW n \in Nat, DOMAIN t \subseteq 0..n
  PROVE  /\ lowest(t) \in 0..(n + 1) /\ lowest(t) \notin DOMAIN t
         /\ \A f \in 0..(n + 1) : f < lowest(t) => f \in DOMAIN t
<1> DEFINE D == DOMAIN t
           c == Cardinality(D)
           S == (0..c) \ D
<1>1. IsFiniteSet(0..n) /\ Cardinality(0..n) = n + 1
  BY FS_Interval
<1>2. IsFiniteSet(D) /\ c \in Nat /\ c <= n + 1
  BY <1>1, FS_Subset, FS_CardinalityType
<1>3. IsFiniteSet(0..c) /\ Cardinality(0..c) = c + 1
  BY <1>2, FS_Interval
<1>4. S # {}
  <2> SUFFICES ASSUME S = {} PROVE FALSE
    OBVIOUS
  <2>1. 0..c \subseteq D
    OBVIOUS
  <2>2. c + 1 <= c
    BY <2>1, <1>2, <1>3, FS_Subset
  <2> QED BY <2>2, <1>2
<1>5. S \in SUBSET Nat
  BY <1>2
<1>6. lowest(t) \in S /\ \A y \in S : lowest(t) <= y
  BY <1>4, <1>5, MinFacts DEF lowest
<1> HIDE DEF c
<1> QED BY <1>2, <1>6

-------------------------------------------------------------------------------
(* The types of the state.                                                   *)

Fds == {-1} \cup 3..10
Processes ==
  [pc : Points, open : Table, fd : [0..3 -> Fds \X Fds],
   buffer : Seq(Chunks), pending : Seq(Chunks),
   parent : 0..MAX_PROCS, ignored : SUBSET Signals]

(* s is r with a new pipe id, whose ends are the descriptors x and y.        *)
Piped(r, s, k, id, x, y) ==
  /\ s \in Processes /\ s.pc = r.pc /\ s.buffer = r.buffer
  /\ s.pending = r.pending /\ s.parent = r.parent /\ s.ignored = r.ignored
  /\ s.fd = [r.fd EXCEPT ![k] = <<x, y>>]
  /\ DOMAIN s.open = DOMAIN r.open \cup {x, y}
  /\ s.open[x] = End(id, "r") /\ s.open[y] = End(id, "w")
  /\ \A f \in DOMAIN r.open : s.open[f] = r.open[f]

(* A process after pipe(): two more descriptors, the lowest free ones.       *)
LEMMA WithPipeFacts ==
  ASSUME NEW r \in Processes, NEW k \in 0..3, NEW id \in PipeIds,
         NEW n \in 0..8, DOMAIN r.open \subseteq 0..n,
         0..2 \subseteq DOMAIN r.open
  PROVE  \E x, y \in 3..(n + 2) :
           /\ x < y /\ x \notin DOMAIN r.open /\ y \notin DOMAIN r.open
           /\ DOMAIN r.open = 0..n => x = n + 1 /\ y = n + 2
           /\ Piped(r, with_pipe(r, k, id), k, id, x, y)
<1> DEFINE t == r.open
           x == lowest(t)
           t1 == put(t, x, End(id, "r"))
           y == lowest(t1)
           t2 == put(t1, y, End(id, "w"))
           s == with_pipe(r, k, id)
<1>1. t \in Table /\ End(id, "r") \in Descriptors /\ End(id, "w") \in Descriptors
  BY DEF Processes, Descriptors
<1>2. /\ x \in 0..(n + 1) /\ x \notin DOMAIN t
      /\ \A f \in 0..(n + 1) : f < x => f \in DOMAIN t
  BY LowestFacts
<1>3. x \in 3..(n + 1) /\ (DOMAIN t = 0..n => x = n + 1)
  <2> HIDE DEF x
  <2>1. 0 \in DOMAIN t /\ 1 \in DOMAIN t /\ 2 \in DOMAIN t
    OBVIOUS
  <2> QED BY <1>2, <2>1
<1>4. /\ t1 \in Table /\ DOMAIN t1 = DOMAIN t \cup {x}
      /\ \A g \in DOMAIN t \cup {x} :
           t1[g] = IF g = x THEN End(id, "r") ELSE t[g]
  <2> HIDE DEF x
  <2>1. x \in 0..10
    BY <1>3
  <2>2. PICK d \in Descriptors : d = End(id, "r")
    BY <1>1
  <2>3. PICK u \in Table : u = t
    BY <1>1
  <2>4. t1 = put(u, x, d)
    BY <2>2, <2>3
  <2>5. IsPut(u, put(u, x, d), x, d)
    BY <2>1, PutFacts
  <2> HIDE DEF t1
  <2> QED BY <2>2, <2>3, <2>4, <2>5 DEF IsPut
<1>5. /\ y \in 0..(n + 2) /\ y \notin DOMAIN t1
      /\ \A f \in 0..(n + 2) : f < y => f \in DOMAIN t1
  <2> HIDE DEF x, t1
  <2>1. DOMAIN t1 \subseteq 0..(n + 1)
    BY <1>3, <1>4
  <2>2. PICK m \in Nat : m = n + 1
    OBVIOUS
  <2>3. m + 1 = n + 2
    BY <2>2
  <2> QED BY <2>1, <2>2, <2>3, LowestFacts
<1>6. y \in 3..(n + 2) /\ x < y /\ y \notin DOMAIN t
  <2> HIDE DEF x, t1, y
  <2>1. 0 \in DOMAIN t /\ 1 \in DOMAIN t /\ 2 \in DOMAIN t
    OBVIOUS
  <2>2. y \in 3..(n + 2) /\ y \notin DOMAIN t /\ y # x
    BY <1>4, <1>5, <2>1
  <2>3. ~(y < x)
    BY <1>2, <1>3, <1>5, <2>2
  <2> QED BY <2>2, <2>3, <1>3
<1>7. DOMAIN t = 0..n => x = n + 1 /\ y = n + 2
  <2> SUFFICES ASSUME DOMAIN t = 0..n
               PROVE  x = n + 1 /\ y = n + 2
    OBVIOUS
  <2> HIDE DEF x, t1, y
  <2> QED BY <1>3, <1>6
<1>8. /\ t2 \in Table /\ DOMAIN t2 = DOMAIN t1 \cup {y}
      /\ \A g \in DOMAIN t1 \cup {y} :
           t2[g] = IF g = y THEN End(id, "w") ELSE t1[g]
  <2> HIDE DEF x, t1, y
  <2>1. y \in 0..10
    BY <1>5
  <2>2. IsPut(t1, put(t1, y, End(id, "w")), y, End(id, "w"))
    BY <2>1, <1>1, <1>4, PutFacts
  <2> QED BY <2>2 DEF IsPut
<1>9. s = [r EXCEPT !.fd[k] = <<x, y>>, !.open = t2]
  BY DEF with_pipe
<1> HIDE DEF x, y, t1, t2, s
<1>10. /\ s.pc = r.pc /\ s.buffer = r.buffer /\ s.pending = r.pending
       /\ s.parent = r.parent /\ s.ignored = r.ignored
       /\ s.fd = [r.fd EXCEPT ![k] = <<x, y>>] /\ s.open = t2
  BY <1>9 DEF Processes
<1>11. s \in Processes
  <2>1. x \in Fds /\ y \in Fds
    BY <1>3, <1>6 DEF Fds
  <2>2. [r.fd EXCEPT ![k] = <<x, y>>] \in [0..3 -> Fds \X Fds]
    BY <2>1 DEF Processes
  <2> QED BY <1>8, <1>9, <2>2 DEF Processes
<1>12. x \in 3..(n + 2) /\ y \in 3..(n + 2)
  BY <1>3, <1>6
<1>13. /\ DOMAIN s.open = DOMAIN r.open \cup {x, y}
       /\ s.open[x] = End(id, "r") /\ s.open[y] = End(id, "w")
       /\ \A f \in DOMAIN r.open : s.open[f] = r.open[f]
  BY <1>2, <1>4, <1>6, <1>8, <1>10
<1>14. x < y /\ x \notin DOMAIN r.open /\ y \notin DOMAIN r.open
  BY <1>2, <1>6
<1>15. Piped(r, s, k, id, x, y)
  BY <1>10, <1>11, <1>13 DEF Piped
<1> QED BY <1>7, <1>12, <1>14, <1>15 DEF s

Ended          == {"free", "exited", "killed"}
EchoPoints     == {"while", "get_text", "child", "read_text", "reply"}
PipelinePoints == {"fork_1", "fork_2", "fork_3", "setup_1", "setup_2", "setup_3",
                   "read_argument", "close", "filter", "calc"}

(* The highest descriptor a process can have at a point.                     *)
Reach(pc) ==
  IF pc \in {"while", "fork_1"} THEN 2
  ELSE IF pc \in EchoPoints \cup {"fork_2", "setup_1", "read_argument"} THEN 6
  ELSE IF pc \in {"fork_3", "setup_2", "filter"} THEN 8
  ELSE 10

(* The descriptors of a process of the echo chamber.                         *)
EchoTable(r) ==
  /\ r.pc \in {"get_text", "child", "send", "wait", "answer", "read_text", "reply"}
       => r.fd[0] = <<3, 4>> /\ r.fd[1] = <<5, 6>>
  /\ r.pc = "while" => DOMAIN r.open = 0..2
  /\ r.pc \in {"get_text", "child"} => DOMAIN r.open = 0..6
  /\ r.pc = "send" => DOMAIN r.open = 0..2 \cup {4, 5}
  /\ r.pc \in {"wait", "answer"} => DOMAIN r.open = 0..2 \cup {5}
  /\ r.pc \in {"read_text", "reply"} => DOMAIN r.open = 0..2 \cup {3, 6}

TableOK(r) ==
  /\ r.pc \in EchoPoints => program = "echo"
  /\ r.pc \in PipelinePoints => program = "pipeline"
  /\ r.pc \in Ended => r.open = Free.open /\ r.parent = 0
  /\ r.pc \notin Ended => 0..2 \subseteq DOMAIN r.open
  /\ DOMAIN r.open \subseteq 0..Reach(r.pc)
  /\ program = "echo" => EchoTable(r)

(* A pipe that holds something is open somewhere.                            *)
Held ==
  \A k \in PipeIds : content[k] # <<>> => {End(k, "r"), End(k, "w")} \cap Ends # {}

TypeInv ==
  /\ program \in {"echo", "pipeline"} /\ restart \in BOOLEAN /\ buffered \in BOOLEAN
  /\ missing \in SUBSET {"gen_numbers", "filter_pos_nums", "calc_avg"}
  /\ program = "pipeline" => buffered
  /\ proc \in [Procs -> Processes]
  /\ \A p \in Procs : TableOK(proc[p])
  /\ content \in [PipeIds -> Seq(Chunks)] /\ screen \in Seq(Chunks)
  /\ failures \in Nat /\ typed \in Seq(Texts) /\ eintr \in BOOLEAN
  /\ Held

(* What Ends is.                                                             *)
LEMMA EndsFacts ==
  \A d : d \in Ends <=> \E p \in Procs : \E f \in DOMAIN proc[p].open :
                            proc[p].open[f] = d
BY DEF Ends, Range

(* A descriptor is the terminal, or an end of a pipe.                        *)
LEMMA DescriptorFacts ==
  ASSUME NEW d \in Descriptors
  PROVE  /\ d.pipe \in PipeIds \cup {0} /\ (d.pipe = 0 <=> d = Terminal)
         /\ d = End(d.pipe, d.end) /\ d.end \in {"tty", "r", "w"}
<1>1. MAX_PIPES \in Nat
  BY SizesAssumption
<1> QED BY <1>1 DEF Descriptors, Terminal, End, PipeIds

(* A process that ends leaves an empty record.                               *)
LEMMA FreeFacts ==
  ASSUME NEW pt \in Ended
  PROVE  /\ [Free EXCEPT !.pc = pt] \in Processes
         /\ TableOK([Free EXCEPT !.pc = pt])
         /\ [Free EXCEPT !.pc = pt].open = Free.open
         /\ DOMAIN Free.open = {}
         /\ [Free EXCEPT !.pc = pt].pc = pt
         /\ [Free EXCEPT !.pc = pt].parent = 0
<1>1. MAX_PROCS \in Nat /\ -1 \in Fds
  BY SizesAssumption DEF Fds
<1>2. Free.open \in Table /\ DOMAIN Free.open = {}
  BY TableFacts DEF Free
<1>3. pt \in Points
  BY DEF Ended, Points
<1> DEFINE r == [Free EXCEPT !.pc = pt]
<1>4. /\ r.pc = pt /\ r.open = Free.open /\ r.buffer = <<>> /\ r.pending = <<>>
      /\ r.parent = 0 /\ r.ignored = {} /\ r.fd = [k \in 0..3 |-> <<-1, -1>>]
  BY DEF Free
<1>5. r \in Processes
  <2>1. /\ [k \in 0..3 |-> <<-1, -1>>] \in [0..3 -> Fds \X Fds]
        /\ <<>> \in Seq(Chunks) /\ 0 \in 0..MAX_PROCS
    BY <1>1
  <2>2. [f \in {} |-> Terminal] \in Table
    BY <1>2 DEF Free
  <2>3. "free" \in Points
    BY DEF Points
  <2>4. Free \in Processes
    BY <2>1, <2>2, <2>3 DEF Free, Processes
  <2> QED BY <1>3, <2>4 DEF Processes
<1>6. TableOK(r)
  <2> HIDE DEF r
  <2> QED BY <1>2, <1>4 DEF TableOK, EchoTable, Ended, EchoPoints,
                            PipelinePoints
<1> QED BY <1>2, <1>4, <1>5, <1>6

(* A step of one process keeps the types, if the process and the pipes keep  *)
(* theirs.                                                                   *)
LEMMA StepType ==
  ASSUME TypeInv, NEW p \in Procs, NEW r \in Processes, TableOK(r),
         NEW c \in [PipeIds -> Seq(Chunks)],
         step(p, r, c), UNCHANGED world, screen' \in Seq(Chunks),
         failures' \in Nat, typed' \in Seq(Texts), eintr' \in BOOLEAN
  PROVE  TypeInv'
<1>1. /\ proc' = [proc EXCEPT ![p] = r]
      /\ content' = [k \in PipeIds |->
           IF {End(k, "r"), End(k, "w")} \cap Ends' # {} THEN c[k] ELSE <<>>]
  BY DEF step, holding
<1>2. proc' \in [Procs -> Processes]
  BY <1>1 DEF TypeInv
<1>3. \A q \in Procs : TableOK(proc'[q])
  BY <1>1 DEF TypeInv
<1>4. (\A q \in Procs : TableOK(proc[q]))'
  BY <1>3 DEF world, TableOK, EchoTable
<1>5. content' \in [PipeIds -> Seq(Chunks)]
  BY <1>1
<1>6. Held'
  BY <1>1 DEF Held
<1> QED BY <1>2, <1>4, <1>5, <1>6 DEF TypeInv, world

(* fork() makes a free process q a copy of p; r is what p has become.        *)
Forked(p, q, r, here, childs) ==
  /\ proc[q].pc = "free" /\ UNCHANGED failures
  /\ proc' = [proc EXCEPT ![p] = [r EXCEPT !.pc = here],
                          ![q] = [r EXCEPT !.pc = childs, !.parent = p]]
ForkFailed(p, r, failed) ==
  /\ failures < MAX_FAILURES /\ failures' = failures + 1
  /\ proc' = [proc EXCEPT ![p] = [r EXCEPT !.pc = failed]]

(* fork() makes a child or fails, and there is no third outcome.             *)
LEMMA ForkFacts ==
  ASSUME NEW p, NEW r, NEW here, NEW childs, NEW failed,
         fork(p, r, here, childs, failed)
  PROVE  \/ \E q \in Procs : Forked(p, q, r, here, childs)
         \/ ForkFailed(p, r, failed)
<1>1. CASE /\ failures < MAX_FAILURES /\ failures' = failures + 1
           /\ proc' = [proc EXCEPT ![p] = [r EXCEPT !.pc = failed]]
  BY <1>1 DEF ForkFailed
<1>2. CASE /\ FreeProcs # {} /\ UNCHANGED failures
           /\ proc' = [proc EXCEPT ![p] = [r EXCEPT !.pc = here],
                   ![Min(FreeProcs)] = [r EXCEPT !.pc = childs, !.parent = p]]
  <2>1. FreeProcs \in SUBSET Nat
    BY SizesAssumption DEF FreeProcs, Procs
  <2>2. Min(FreeProcs) \in FreeProcs
    BY <1>2, <2>1, MinFacts
  <2>3. Forked(p, Min(FreeProcs), r, here, childs)
    BY <1>2, <2>2 DEF FreeProcs, Forked
  <2>4. Min(FreeProcs) \in Procs
    BY <2>2 DEF FreeProcs
  <2> QED BY <2>3, <2>4
<1> QED BY <1>1, <1>2 DEF fork

(* A fork keeps the types, if the records it makes have theirs and the       *)
(* process has lost no descriptor.                                           *)
LEMMA ForkType ==
  ASSUME TypeInv, NEW p \in Procs, proc[p].pc \notin Ended,
         NEW r \in Processes,
         NEW here \in Points, NEW childs \in Points, NEW failed \in Points,
         fork(p, r, here, childs, failed),
         TableOK([r EXCEPT !.pc = here]),
         TableOK([r EXCEPT !.pc = childs, !.parent = p]),
         TableOK([r EXCEPT !.pc = failed]),
         \A f \in DOMAIN proc[p].open :
           f \in DOMAIN r.open /\ r.open[f] = proc[p].open[f],
         UNCHANGED <<world, content, screen, typed, eintr>>
  PROVE  TypeInv'
<1> DEFINE A == [r EXCEPT !.pc = here]
           B == [r EXCEPT !.pc = childs, !.parent = p]
           C == [r EXCEPT !.pc = failed]
<1>1. /\ A \in Processes /\ B \in Processes /\ C \in Processes
      /\ A.open = r.open /\ B.open = r.open /\ C.open = r.open
  <2>1. p \in 0..MAX_PROCS
    BY DEF Procs
  <2> QED BY <2>1 DEF Processes
<1>2. /\ TableOK(A) /\ TableOK(B) /\ TableOK(C)
      /\ fork(p, r, here, childs, failed)
  OBVIOUS
<1>3. \A q \in Procs : proc[q].pc = "free" => DOMAIN proc[q].open = {}
  BY FreeFacts DEF TypeInv, TableOK, Ended
<1>4. /\ failures' \in Nat
      /\ proc' \in [Procs -> Processes]
      /\ \A q \in Procs : TableOK(proc'[q])
      /\ \A q \in Procs : \A f \in DOMAIN proc[q].open :
            f \in DOMAIN proc'[q].open /\ proc'[q].open[f] = proc[q].open[f]
  <2>1. CASE ForkFailed(p, r, failed)
    <3>1. failures' = failures + 1 /\ proc' = [proc EXCEPT ![p] = C]
      BY <2>1 DEF ForkFailed
    <3> HIDE DEF A, B, C
    <3> QED BY <1>1, <1>2, <3>1 DEF TypeInv
  <2>2. ASSUME NEW q \in Procs, Forked(p, q, r, here, childs)
        PROVE  <1>4!:
    <3>1. /\ UNCHANGED failures /\ proc[q].pc = "free"
          /\ proc' = [proc EXCEPT ![p] = A, ![q] = B]
      BY <2>2 DEF Forked
    <3> HIDE DEF A, B, C
    <3>2. p # q
      BY <3>1 DEF Ended
    <3>3. \A x \in Procs :
            proc'[x] = IF x = q THEN B ELSE IF x = p THEN A ELSE proc[x]
      BY <3>1, <3>2 DEF TypeInv
    <3> QED BY <1>1, <1>2, <1>3, <3>1, <3>3 DEF TypeInv
  <2> QED BY <1>2, <2>1, <2>2, ForkFacts
<1>5. (\A q \in Procs : TableOK(proc[q]))'
  BY <1>4 DEF world, TableOK, EchoTable
<1>6. \A d : d \in Ends => d \in Ends'
  BY <1>4 DEF Ends, Range
<1>7. Held'
  BY <1>6 DEF Held, TypeInv
<1> QED BY <1>4, <1>5, <1>7 DEF TypeInv, world

(* The end of a process keeps the types.                                     *)
LEMMA EndsType ==
  ASSUME TypeInv, NEW p \in Procs, NEW how \in Ended, ends(p, how),
         UNCHANGED <<world, screen, failures, typed, eintr>>
  PROVE  TypeInv'
<1> DEFINE pt == IF p = Main THEN how ELSE "free"
           F == [Free EXCEPT !.pc = pt]
           O(x) == [proc[x] EXCEPT !.parent = 0]
<1>1. /\ proc' = [x \in Procs |-> IF x = p THEN F
                    ELSE IF proc[x].parent = p THEN O(x) ELSE proc[x]]
      /\ content' = [k \in PipeIds |->
           IF {End(k, "r"), End(k, "w")} \cap Ends' # {} THEN content[k] ELSE <<>>]
  BY DEF ends, holding
<1>2. F \in Processes /\ TableOK(F)
  <2>1. pt \in Ended
    BY DEF Ended
  <2> HIDE DEF pt
  <2> QED BY <2>1, FreeFacts
<1>3. \A x \in Procs : O(x) \in Processes /\ TableOK(O(x))
  <2> SUFFICES ASSUME NEW x \in Procs
               PROVE  O(x) \in Processes /\ TableOK(O(x))
    OBVIOUS
  <2>1. proc[x] \in Processes /\ TableOK(proc[x]) /\ 0 \in 0..MAX_PROCS
    BY SizesAssumption DEF TypeInv
  <2>2. O(x) \in Processes /\ O(x).pc = proc[x].pc /\ O(x).open = proc[x].open
          /\ O(x).fd = proc[x].fd /\ O(x).parent = 0
    BY <2>1 DEF Processes
  <2> HIDE DEF O
  <2> QED BY <2>1, <2>2 DEF TableOK, EchoTable
<1>4. proc' \in [Procs -> Processes] /\ \A q \in Procs : TableOK(proc'[q])
  <2> HIDE DEF F, O
  <2> QED BY <1>1, <1>2, <1>3 DEF TypeInv
<1>5. (\A q \in Procs : TableOK(proc[q]))'
  BY <1>4 DEF world, TableOK, EchoTable
<1>6. content' \in [PipeIds -> Seq(Chunks)]
  BY <1>1 DEF TypeInv
<1>7. Held'
  BY <1>1 DEF Held
<1> QED BY <1>4, <1>5, <1>6, <1>7 DEF TypeInv, world

(* A string is the part of a buffer before the first null character.         *)
LEMMA AsStringFacts ==
  ASSUME NEW s \in Seq(Chunks)
  PROVE  /\ as_string(s) \in Seq(Chunks) /\ Len(as_string(s)) <= Len(s)
         /\ \A k \in 1..Len(as_string(s)) : as_string(s)[k] = s[k]
<1> DEFINE N == {k \in DOMAIN s : s[k] = "NUL"}
<1>1. CASE N = {}
  <2>1. as_string(s) = s
    BY <1>1 DEF as_string
  <2> QED BY <2>1
<1>2. CASE N # {}
  <2>1. N \in SUBSET Nat /\ Len(s) \in Nat
    OBVIOUS
  <2>2. Min(N) \in N
    BY <1>2, <2>1, MinFacts
  <2>3. as_string(s) = SubSeq(s, 1, Min(N) - 1)
    BY <1>2 DEF as_string
  <2>4. PICK m \in 0..Len(s) : m = Min(N) - 1
    <3>1. DOMAIN s = 1..Len(s) /\ N \subseteq DOMAIN s
      OBVIOUS
    <3>2. Min(N) \in 1..Len(s)
      <4> HIDE DEF N
      <4> QED BY <2>2, <3>1
    <3>3. PICK x \in 1..Len(s) : x = Min(N)
      BY <3>2, Zenon
    <3>4. x - 1 \in 0..Len(s)
      BY <2>1
    <3> QED BY <3>3, <3>4
  <2>5. as_string(s) = SubSeq(s, 1, m)
    BY <2>3, <2>4
  <2>6. /\ SubSeq(s, 1, m) \in Seq(Chunks) /\ Len(SubSeq(s, 1, m)) = m
        /\ \A k \in 1..m : SubSeq(s, 1, m)[k] = s[k]
    BY <2>1
  <2> QED BY <2>1, <2>5, <2>6
<1> QED BY <1>1, <1>2

(* The conversion to upper case gives a string.                              *)
LEMMA GetUpperType ==
  ASSUME NEW s \in Seq(Chunks)
  PROVE  /\ get_upper(s) \in Seq(Chunks)
         /\ Len(get_upper(s)) = Len(as_string(s))
         /\ \A k \in 1..Len(as_string(s)) : get_upper(s)[k] = toupper(s[k])
<1> DEFINE n == Len(as_string(s))
<1>1. /\ n \in Nat /\ n <= Len(s) /\ DOMAIN as_string(s) = 1..n
  BY AsStringFacts
<1>2. \A c \in Chunks : toupper(c) \in Chunks
  BY DEF toupper, Chunks, upper
<1>3. get_upper(s) = [k \in 1..n |-> toupper(s[k])]
  BY <1>1 DEF get_upper
<1>4. \A k \in 1..n : s[k] \in Chunks
  BY <1>1
<1> HIDE DEF n
<1>5. [k \in 1..n |-> toupper(s[k])] \in [1..n -> Chunks]
  BY <1>2, <1>4
<1> QED BY <1>1, <1>3, <1>5, SeqDef, LenProperties DEF n

Contents == [PipeIds -> Seq(Chunks)]

(* A descriptor that is open refers to the terminal or to a pipe.            *)
LEMMA PipeFacts ==
  ASSUME TypeInv, NEW p \in Procs, NEW f \in DOMAIN proc[p].open
  PROVE  /\ proc[p].open[f] \in Descriptors
         /\ PipeOf(p, f) \in PipeIds \cup {0} /\ 0 \notin PipeIds
         /\ received(p, f) \in Seq(Chunks) /\ emptied(p, f) \in Contents
<1>1. proc[p].open[f] \in Descriptors
  BY TableFacts DEF TypeInv, Processes
<1>2. PipeOf(p, f) \in PipeIds \cup {0} /\ 0 \notin PipeIds
  BY <1>1, DescriptorFacts, SizesAssumption DEF PipeOf, PipeIds
<1>3. content \in [PipeIds -> Seq(Chunks)] /\ <<>> \in Seq(Chunks)
  BY DEF TypeInv
<1>4. received(p, f) \in Seq(Chunks)
  BY <1>2, <1>3 DEF received
<1>5. emptied(p, f) \in Contents
  BY <1>2, <1>3 DEF emptied, Contents
<1> QED BY <1>1, <1>2, <1>4, <1>5

(* Writing keeps the type of the pipes.                                      *)
LEMMA SentType ==
  ASSUME NEW p, NEW f, NEW c \in Contents, NEW s \in Seq(Chunks)
  PROVE  sent(c, p, f, s) \in Contents
<1>1. \A k \in PipeIds : c[k] \o s \in Seq(Chunks)
  BY DEF Contents
<1> QED BY <1>1 DEF sent, Contents

(* The fields of a process.                                                  *)
LEMMA ProcessFacts ==
  ASSUME NEW r \in Processes
  PROVE  /\ r.pc \in Points /\ r.open \in Table /\ r.fd \in [0..3 -> Fds \X Fds]
         /\ r.buffer \in Seq(Chunks) /\ r.pending \in Seq(Chunks)
         /\ r.parent \in 0..MAX_PROCS /\ r.ignored \in SUBSET Signals
         /\ \A k \in 0..3 : r.fd[k][1] \in Fds /\ r.fd[k][2] \in Fds
BY DEF Processes

(* exit(): writing what is pending keeps the types.                          *)
LEMMA FlushType ==
  ASSUME TypeInv, NEW p \in Procs, exit_flush(p), UNCHANGED world
  PROVE  TypeInv'
<1> DEFINE r == [proc[p] EXCEPT !.pending = Tail(@)]
           s == SubSeq(proc[p].pending, 1, 1)
           c == sent(content, p, STDOUT, s)
<1>1. /\ proc[p] \in Processes /\ TableOK(proc[p]) /\ proc[p].pc = "exit"
      /\ proc[p].pending \in Seq(Chunks) /\ proc[p].pending # <<>>
      /\ content \in Contents
  BY ProcessFacts DEF TypeInv, exit_flush, Contents
<1>2. Tail(proc[p].pending) \in Seq(Chunks) /\ s \in Seq(Chunks)
  BY <1>1
<1>3. /\ r \in Processes /\ r.pc = proc[p].pc /\ r.open = proc[p].open
      /\ r.fd = proc[p].fd /\ r.parent = proc[p].parent
  BY <1>1, <1>2 DEF Processes
<1>4. TableOK(r)
  <2> HIDE DEF r
  <2> QED BY <1>1, <1>3 DEF TableOK, EchoTable
<1>5. c \in Contents
  BY <1>1, <1>2, SentType
<1>6. /\ \/ screen' = screen \o s /\ step(p, r, content)
         \/ UNCHANGED screen /\ step(p, r, c)
      /\ UNCHANGED <<failures, typed, eintr>>
  BY DEF exit_flush
<1>7. screen' \in Seq(Chunks) /\ failures' \in Nat /\ typed' \in Seq(Texts)
        /\ eintr' \in BOOLEAN
  BY <1>2, <1>6 DEF TypeInv
<1> HIDE DEF r, s, c
<1> QED BY <1>1, <1>3, <1>4, <1>5, <1>6, <1>7, StepType DEF Contents

(* A write to a pipe keeps the types.                                        *)
LEMMA SendType ==
  ASSUME TypeInv, NEW p \in Procs, send(p),
         UNCHANGED <<world, screen, failures, typed, eintr>>
  PROVE  TypeInv'
<1> DEFINE f == proc[p].fd[0][2]
           r == [proc[p] EXCEPT !.pc = "wait", !.open = close(@, {f})]
           c == sent(content, p, f, proc[p].buffer)
<1>1. /\ proc[p] \in Processes /\ TableOK(proc[p]) /\ proc[p].pc = "send"
      /\ proc[p].buffer \in Seq(Chunks) /\ proc[p].open \in Table
      /\ content \in Contents /\ f \in Fds
  BY ProcessFacts DEF TypeInv, send, Contents
<1>2. /\ close(proc[p].open, {f}) \in Table
      /\ DOMAIN close(proc[p].open, {f}) = DOMAIN proc[p].open \ {f}
  BY <1>1, CloseFacts
<1>3. c \in Contents
  BY <1>1, SentType
<1>4. step(p, r, content) \/ step(p, r, c)
  BY DEF send
<1>5. /\ r \in Processes /\ r.pc = "wait" /\ r.fd = proc[p].fd
      /\ r.open = close(proc[p].open, {f})
  BY <1>1, <1>2 DEF Processes, Points
<1>6. TableOK(r)
  <2>1. f \notin 0..2 /\ DOMAIN r.open = DOMAIN proc[p].open \ {f}
    BY <1>1, <1>2, <1>5 DEF Fds
  <2>2. program = "echo" => f = 4
    BY <1>1 DEF TableOK, EchoTable
  <2> HIDE DEF r, f
  <2>3. program = "echo" => DOMAIN r.open = 0..2 \cup {5}
    BY <2>1, <2>2, <1>1 DEF TableOK, EchoTable
  <2> QED BY <1>1, <1>5, <2>1, <2>3
          DEF TableOK, EchoTable, Ended, EchoPoints, PipelinePoints, Reach
<1>7. /\ screen' \in Seq(Chunks) /\ failures' \in Nat /\ typed' \in Seq(Texts)
      /\ eintr' \in BOOLEAN
  BY DEF TypeInv
<1> HIDE DEF r, c
<1> QED BY <1>1, <1>3, <1>4, <1>5, <1>6, <1>7, StepType DEF Contents

(* So does the end of a wait().                                              *)
LEMMA WaitType ==
  ASSUME TypeInv, NEW p \in Procs, wait(p),
         UNCHANGED <<world, screen, failures, typed, eintr>>
  PROVE  TypeInv'
<1> DEFINE r == [proc[p] EXCEPT !.pc = "answer"]
<1>1. /\ proc[p] \in Processes /\ TableOK(proc[p]) /\ proc[p].pc = "wait"
      /\ content \in [PipeIds -> Seq(Chunks)] /\ step(p, r, content)
  BY DEF TypeInv, wait
<1>2. /\ r \in Processes /\ r.pc = "answer" /\ r.fd = proc[p].fd
      /\ r.open = proc[p].open
  BY <1>1 DEF Processes, Points
<1> HIDE DEF r
<1>3. TableOK(r)
  BY <1>1, <1>2
     DEF TableOK, EchoTable, Ended, EchoPoints, PipelinePoints, Reach
<1>4. /\ screen' \in Seq(Chunks) /\ failures' \in Nat /\ typed' \in Seq(Texts)
      /\ eintr' \in BOOLEAN
  BY DEF TypeInv
<1> QED BY <1>1, <1>2, <1>3, <1>4, StepType

(* Printing the answer keeps the types; the echo chamber is back at its      *)
(* loop with the three descriptors it began with.                            *)
LEMMA PrintAnswerType ==
  ASSUME TypeInv, NEW p \in Procs, NEW r \in Processes, TableOK(r),
         r.pc = "answer", r.fd = proc[p].fd, NEW s \in Seq(Chunks),
         print_answer(p, r, s), UNCHANGED <<world, failures, typed>>,
         eintr' \in BOOLEAN
  PROVE  TypeInv'
<1> DEFINE text == as_string(s)
           f == Result(p)
           pt == IF program = "echo" THEN "while" ELSE "exit"
           t == close(r.open, {f})
           e == [r EXCEPT !.pc = pt, !.buffer = text, !.open = t]
           b == [e EXCEPT !.pending = @ \o text]
<1>1. text \in Seq(Chunks) /\ r.open \in Table /\ r.pending \in Seq(Chunks)
  BY AsStringFacts, ProcessFacts
<1>2. f \in Fds /\ (program = "echo" => f = 5)
  <2>1. f = r.fd[IF program = "echo" THEN 1 ELSE 3][1]
    BY DEF Result
  <2>2. program = "echo" => r.fd[1] = <<5, 6>>
    BY DEF TableOK, EchoTable
  <2> QED BY <2>1, <2>2, ProcessFacts
<1>3. t \in Table /\ DOMAIN t = DOMAIN r.open \ {f}
  <2> HIDE DEF f
  <2> QED BY <1>1, CloseFacts
<1>4. pt \in Points /\ pt \in {"while", "exit"} /\ (pt = "while" <=> program = "echo")
  BY DEF Points
<1>5. \/ step(p, b, content) /\ UNCHANGED screen
      \/ step(p, e, content) /\ screen' = screen \o text
  BY DEF print_answer, answer_closes
<1>6. /\ e \in Processes /\ e.pc = pt /\ e.fd = r.fd /\ e.open = t
      /\ e.pending = r.pending
  <2> HIDE DEF text, pt, t
  <2> QED BY <1>1, <1>3, <1>4 DEF Processes
<1>7. /\ b \in Processes /\ b.pc = pt /\ b.fd = r.fd /\ b.open = t
  <2>1. e.pending \o text \in Seq(Chunks)
    BY <1>1, <1>6
  <2> HIDE DEF e, text
  <2> QED BY <1>6, <2>1 DEF Processes
<1> HIDE DEF e, b, t, text, pt, f
<1>8. 0..2 \subseteq DOMAIN t /\ (program = "echo" => DOMAIN t = 0..2)
        /\ DOMAIN t \subseteq 0..10
  <2>1. 0..2 \subseteq DOMAIN r.open
    BY DEF TableOK, Ended
  <2>2. program = "echo" => DOMAIN r.open = 0..2 \cup {5}
    BY DEF TableOK, EchoTable
  <2>3. f \notin 0..2
    BY <1>2 DEF Fds
  <2> QED BY <1>1, <1>2, <1>3, <2>1, <2>2, <2>3, TableFacts
<1>9. TableOK(e) /\ TableOK(b)
  BY <1>4, <1>6, <1>7, <1>8
     DEF TableOK, EchoTable, Ended, EchoPoints, PipelinePoints, Reach
<1>10. /\ screen' \in Seq(Chunks) /\ failures' \in Nat /\ typed' \in Seq(Texts)
       /\ content \in [PipeIds -> Seq(Chunks)]
  <2>1. screen \in Seq(Chunks)
    BY DEF TypeInv
  <2>2. screen \o text \in Seq(Chunks)
    BY <1>1, <2>1
  <2>3. screen' = screen \/ screen' = screen \o text
    BY <1>5
  <2>4. screen' \in Seq(Chunks)
    BY <2>1, <2>2, <2>3
  <2> QED BY <2>4 DEF TypeInv
<1> QED BY <1>5, <1>6, <1>7, <1>9, <1>10, StepType

(* Both ways to the answer keep the types.                                   *)
LEMMA AnswerType ==
  ASSUME TypeInv, NEW p \in Procs, answer(p), UNCHANGED world
  PROVE  TypeInv'
<1>1. /\ proc[p] \in Processes /\ TableOK(proc[p]) /\ proc[p].pc = "answer"
      /\ proc[p].buffer \in Seq(Chunks) /\ UNCHANGED <<world, failures, typed>>
      /\ eintr' \in BOOLEAN
  BY ProcessFacts DEF TypeInv, answer
<1>2. CASE /\ IsOpen(p, Result(p))
           /\ print_answer(p, proc[p], received(p, Result(p)))
  <2>1. received(p, Result(p)) \in Seq(Chunks)
    BY <1>2, PipeFacts DEF IsOpen
  <2> QED BY <1>1, <1>2, <2>1, PrintAnswerType
<1>3. CASE print_answer(p, proc[p], proc[p].buffer)
  BY <1>1, <1>3, PrintAnswerType
<1> QED BY <1>2, <1>3 DEF answer

(* A process after two calls of pipe().                                      *)
two_pipes(r) == with_two_pipes(r, NewPipe, SecondNewPipe)

(* The alternatives of while and of fork_coprocess, with two_pipes.          *)
LEMMA WhileCases ==
  ASSUME NEW p, while(p)
  PROVE  \/ proc' = [proc EXCEPT ![p].pc = "exit"] /\ UNCHANGED failures
         \/ /\ Cardinality(Unused) >= 2
            /\ fork(p, two_pipes(proc[p]), "get_text", "child", "exit")
<1>1. ASSUME \E a \in {NewPipe}, b \in {SecondNewPipe} :
               fork(p, with_two_pipes(proc[p], a, b), "get_text", "child", "exit")
      PROVE  fork(p, two_pipes(proc[p]), "get_text", "child", "exit")
  <2>1. PICK a \in {NewPipe}, b \in {SecondNewPipe} :
          fork(p, with_two_pipes(proc[p], a, b), "get_text", "child", "exit")
    BY <1>1
  <2>2. with_two_pipes(proc[p], a, b) = two_pipes(proc[p])
    BY DEF two_pipes
  <2> QED BY <2>1, <2>2
<1> QED BY <1>1, Zenon DEF while

(* The three places of pipes_gen_filter.c where fork() is called, with the   *)
(* pipes that are made before.                                               *)
LEMMA ForkCases ==
  ASSUME NEW p, fork_coprocess(p)
  PROVE  \/ /\ proc[p].pc = "fork_1" /\ Cardinality(Unused) >= 2
            /\ fork(p, two_pipes(proc[p]), "fork_2", "setup_1", "fork_2")
         \/ /\ proc[p].pc = "fork_2" /\ Unused # {}
            /\ fork(p, with_pipe(proc[p], 2, NewPipe), "fork_3", "setup_2", "fork_3")
         \/ /\ proc[p].pc = "fork_3" /\ Unused # {}
            /\ fork(p, with_pipe(proc[p], 3, NewPipe), "close", "setup_3", "close")
<1>1. ASSUME \E a \in {NewPipe}, b \in {SecondNewPipe} :
               fork(p, with_two_pipes(proc[p], a, b), "fork_2", "setup_1", "fork_2")
      PROVE  fork(p, two_pipes(proc[p]), "fork_2", "setup_1", "fork_2")
  <2>1. PICK a \in {NewPipe}, b \in {SecondNewPipe} :
          fork(p, with_two_pipes(proc[p], a, b), "fork_2", "setup_1", "fork_2")
    BY <1>1
  <2>2. with_two_pipes(proc[p], a, b) = two_pipes(proc[p])
    BY DEF two_pipes
  <2> QED BY <2>1, <2>2
<1> QED BY <1>1, Zenon DEF fork_coprocess

(* A process with three descriptors that makes two pipes has them at 3, 4    *)
(* and 5, 6.                                                                 *)
LEMMA TwoPipesFacts ==
  ASSUME TypeInv, NEW r \in Processes, Cardinality(Unused) >= 2,
         DOMAIN r.open = 0..2
  PROVE  \E a, b \in Unused :
           /\ a # b /\ two_pipes(r) \in Processes
           /\ two_pipes(r).pc = r.pc
           /\ two_pipes(r).buffer = r.buffer
           /\ two_pipes(r).pending = r.pending
           /\ two_pipes(r).parent = r.parent
           /\ two_pipes(r).ignored = r.ignored
           /\ two_pipes(r).fd[0] = <<3, 4>> /\ two_pipes(r).fd[1] = <<5, 6>>
           /\ DOMAIN two_pipes(r).open = 0..6
           /\ \A f \in 0..2 : two_pipes(r).open[f] = r.open[f]
           /\ two_pipes(r).open[3] = End(a, "r")
           /\ two_pipes(r).open[4] = End(a, "w")
           /\ two_pipes(r).open[5] = End(b, "r")
           /\ two_pipes(r).open[6] = End(b, "w")
<1>1. Unused \in SUBSET Nat /\ Unused \subseteq PipeIds /\ IsFiniteSet(Unused)
  <2>1. IsFiniteSet(PipeIds) /\ PipeIds \subseteq Nat
    BY SizesAssumption, FS_Interval DEF PipeIds
  <2>2. Unused \subseteq PipeIds
    BY DEF Unused
  <2> QED BY <2>1, <2>2, FS_Subset
<1>2. Unused # {} /\ \A x : Unused # {x}
  <2>1. Cardinality({}) = 0 /\ \A x : Cardinality({x}) = 1
    BY FS_EmptySet, FS_Singleton
  <2>2. ~(0 >= 2) /\ ~(1 >= 2)
    OBVIOUS
  <2> QED BY <2>1, <2>2
<1>3. PICK a \in Unused : a = NewPipe
  BY <1>1, <1>2, MinFacts DEF NewPipe
<1>4. PICK b \in Unused \ {a} : b = SecondNewPipe
  <2>1. Unused \ {a} # {} /\ Unused \ {a} \in SUBSET Nat
    BY <1>1, <1>2, <1>3
  <2> DEFINE U == Unused \ {a}
  <2>2. Min(U) \in U
    <3> HIDE DEF U
    <3> QED BY <2>1, MinFacts DEF U
  <2> QED BY <2>2, <1>3 DEF SecondNewPipe
<1>5. a \in PipeIds /\ b \in PipeIds /\ a # b
  BY <1>1
<1> DEFINE r1 == with_pipe(r, 0, a)
           r2 == with_pipe(r1, 1, b)
<1>6. /\ r1 \in Processes /\ r1.pc = r.pc /\ r1.buffer = r.buffer
      /\ r1.pending = r.pending /\ r1.parent = r.parent /\ r1.ignored = r.ignored
      /\ r1.fd = [r.fd EXCEPT ![0] = <<3, 4>>] /\ DOMAIN r1.open = 0..4
      /\ \A f \in 0..2 : r1.open[f] = r.open[f]
      /\ r1.open[3] = End(a, "r") /\ r1.open[4] = End(a, "w")
  <2>1. PICK x, y \in 3..(2 + 2) : x = 2 + 1 /\ y = 2 + 2 /\ Piped(r, r1, 0, a, x, y)
    BY <1>5, WithPipeFacts
  <2>2. x = 3 /\ y = 4 /\ Piped(r, r1, 0, a, 3, 4)
    BY <2>1
  <2> HIDE DEF r1
  <2> QED BY <2>2 DEF Piped
<1>7. /\ r2 \in Processes /\ r2.pc = r.pc /\ r2.buffer = r.buffer
      /\ r2.pending = r.pending /\ r2.parent = r.parent /\ r2.ignored = r.ignored
      /\ r2.fd = [r1.fd EXCEPT ![1] = <<5, 6>>] /\ DOMAIN r2.open = 0..6
      /\ \A f \in 0..4 : r2.open[f] = r1.open[f]
      /\ r2.open[5] = End(b, "r") /\ r2.open[6] = End(b, "w")
  <2> HIDE DEF r1
  <2>1. PICK x, y \in 3..(4 + 2) : x = 4 + 1 /\ y = 4 + 2 /\ Piped(r1, r2, 1, b, x, y)
    BY <1>5, <1>6, WithPipeFacts
  <2>2. x = 5 /\ y = 6 /\ Piped(r1, r2, 1, b, 5, 6)
    BY <2>1
  <2> HIDE DEF r2
  <2> QED BY <1>6, <2>2 DEF Piped
<1>8. r2 = two_pipes(r)
  BY <1>3, <1>4 DEF two_pipes, with_two_pipes
<1> HIDE DEF r1, r2
<1>9. r2.fd[0] = <<3, 4>> /\ r2.fd[1] = <<5, 6>>
  BY <1>6, <1>7 DEF Processes
<1>10. /\ \A f \in 0..2 : r2.open[f] = r.open[f]
       /\ r2.open[3] = End(a, "r") /\ r2.open[4] = End(a, "w")
  BY <1>6, <1>7
<1> QED BY <1>5, <1>7, <1>8, <1>9, <1>10

(* The beginning of a round keeps the types.                                 *)
LEMMA WhileType ==
  ASSUME TypeInv, NEW p \in Procs, while(p), UNCHANGED world
  PROVE  TypeInv'
<1>1. /\ proc[p] \in Processes /\ TableOK(proc[p]) /\ proc[p].pc = "while"
      /\ DOMAIN proc[p].open = 0..2 /\ program = "echo"
      /\ UNCHANGED <<world, content, screen, typed, eintr>>
  BY DEF TypeInv, while, TableOK, EchoTable, EchoPoints
<1>2. CASE proc' = [proc EXCEPT ![p].pc = "exit"] /\ UNCHANGED failures
  <2> DEFINE r == [proc[p] EXCEPT !.pc = "exit"]
  <2>1. /\ r \in Processes /\ r.pc = "exit" /\ r.open = proc[p].open
        /\ r.fd = proc[p].fd /\ proc' = [proc EXCEPT ![p] = r]
    BY <1>1, <1>2 DEF Processes, Points, TypeInv
  <2> HIDE DEF r
  <2>2. TableOK(r)
    BY <1>1, <2>1
       DEF TableOK, EchoTable, Ended, EchoPoints, PipelinePoints, Reach
  <2>3. /\ proc' \in [Procs -> Processes] /\ \A q \in Procs : TableOK(proc'[q])
        /\ \A q \in Procs : proc'[q].open = proc[q].open
    BY <2>1, <2>2 DEF TypeInv
  <2>4. (\A q \in Procs : TableOK(proc[q]))'
    BY <2>3, <1>1 DEF world, TableOK, EchoTable
  <2>5. Ends' = Ends
    BY <2>3 DEF Ends, Range
  <2> QED BY <1>1, <1>2, <2>3, <2>4, <2>5 DEF TypeInv, world, Held
<1>3. CASE /\ Cardinality(Unused) >= 2
           /\ fork(p, two_pipes(proc[p]), "get_text", "child", "exit")
  <2>1. PICK r \in Processes : r = two_pipes(proc[p])
    BY <1>1, <1>3, TwoPipesFacts
  <2>2. /\ r.fd[0] = <<3, 4>> /\ r.fd[1] = <<5, 6>> /\ DOMAIN r.open = 0..6
        /\ \A f \in 0..2 : r.open[f] = proc[p].open[f]
    BY <1>1, <1>3, <2>1, TwoPipesFacts
  <2> DEFINE A == [r EXCEPT !.pc = "get_text"]
             B == [r EXCEPT !.pc = "child", !.parent = p]
             C == [r EXCEPT !.pc = "exit"]
  <2>3. /\ A.pc = "get_text" /\ A.open = r.open /\ A.fd = r.fd
        /\ B.pc = "child" /\ B.open = r.open /\ B.fd = r.fd
        /\ C.pc = "exit" /\ C.open = r.open /\ C.fd = r.fd
    BY DEF Processes
  <2>4. TableOK(A) /\ TableOK(B) /\ TableOK(C)
    <3> HIDE DEF A, B, C
    <3> QED BY <1>1, <2>2, <2>3
         DEF TableOK, EchoTable, Ended, EchoPoints, PipelinePoints, Reach
  <2>5. \A f \in DOMAIN proc[p].open :
          f \in DOMAIN r.open /\ r.open[f] = proc[p].open[f]
    BY <1>1, <2>2
  <2>6. /\ "get_text" \in Points /\ "child" \in Points /\ "exit" \in Points
        /\ proc[p].pc \notin Ended
    BY <1>1 DEF Points, Ended
  <2>7. fork(p, r, "get_text", "child", "exit")
    BY <1>3, <2>1
  <2> QED BY <1>1, <2>4, <2>5, <2>6, <2>7, ForkType
<1> QED BY <1>2, <1>3, WhileCases

(* A text is a string of chunks.                                             *)
LEMMA TextsType == Texts \subseteq Seq(Chunks)
<1>1. "hello" \in Chunks /\ "bye" \in Chunks
  BY DEF Chunks, upper
<1>2. <<>> \in Seq(Chunks) /\ <<"hello">> \in Seq(Chunks) /\ <<"bye">> \in Seq(Chunks)
  BY <1>1
<1> QED BY <1>2 DEF Texts

(* The parent's text and the closing of descriptors keep the types.          *)
LEMMA GetTextType ==
  ASSUME TypeInv, NEW p \in Procs, get_text(p), UNCHANGED world
  PROVE  TypeInv'
<1> DEFINE F == {proc[p].fd[0][1], proc[p].fd[1][2]}
           t == close(proc[p].open, F)
<1>1. PICK s \in Texts :
        /\ step(p, [proc[p] EXCEPT !.pc = "send", !.buffer = s, !.open = t], content)
        /\ typed' = Append(typed, s)
  BY DEF get_text
<1>2. /\ proc[p] \in Processes /\ TableOK(proc[p]) /\ proc[p].pc = "get_text"
      /\ content \in [PipeIds -> Seq(Chunks)] /\ UNCHANGED <<screen, failures, eintr>>
      /\ program = "echo"
  BY DEF get_text, TypeInv, TableOK, EchoPoints
<1>3. /\ proc[p].fd[0] = <<3, 4>> /\ proc[p].fd[1] = <<5, 6>>
      /\ DOMAIN proc[p].open = 0..6
  BY <1>2 DEF TableOK, EchoTable
<1>4. F = {3, 6} /\ s \in Seq(Chunks) /\ "send" \in Points
  BY <1>3, TextsType DEF Points
<1> DEFINE r == [proc[p] EXCEPT !.pc = "send", !.buffer = s, !.open = t]
<1>5. r \in Processes /\ DOMAIN t = 0..6 \ {3, 6}
  <2>1. t \in Table /\ DOMAIN t = 0..6 \ F
    <3>1. PICK u \in Table : u = proc[p].open
      BY <1>2, ProcessFacts
    <3> HIDE DEF F
    <3>2. close(u, F) \in Table /\ DOMAIN close(u, F) = DOMAIN u \ F
      BY CloseFacts
    <3> QED BY <1>3, <3>1, <3>2
  <2> HIDE DEF t, F
  <2> QED BY <1>2, <1>4, <2>1 DEF Processes
<1>6. r.pc = "send" /\ r.open = t /\ r.fd = proc[p].fd
  BY <1>2 DEF Processes
<1>7. TableOK(r)
  <2> HIDE DEF r, t
  <2>1. 0..6 \ {3, 6} = 0..2 \cup {4, 5}
    OBVIOUS
  <2> QED BY <1>2, <1>3, <1>5, <1>6, <2>1
       DEF TableOK, EchoTable, Ended, EchoPoints, PipelinePoints, Reach
<1>8. /\ screen' \in Seq(Chunks) /\ failures' \in Nat /\ typed' \in Seq(Texts)
      /\ eintr' \in BOOLEAN
  BY <1>1, <1>2 DEF TypeInv
<1> HIDE DEF r
<1> QED BY <1>1, <1>2, <1>5, <1>7, <1>8, StepType DEF r

(* So does what the child closes ...                                        *)
LEMMA ChildType ==
  ASSUME TypeInv, NEW p \in Procs, child(p),
         UNCHANGED <<world, screen, failures, typed, eintr>>
  PROVE  TypeInv'
<1> DEFINE F == {proc[p].fd[0][2], proc[p].fd[1][1]}
           t == close(proc[p].open, F)
           r == [proc[p] EXCEPT !.pc = "read_text", !.open = t]
<1>1. step(p, r, content)
  BY DEF child
<1>2. /\ proc[p] \in Processes /\ TableOK(proc[p]) /\ proc[p].pc = "child"
      /\ content \in [PipeIds -> Seq(Chunks)] /\ program = "echo"
  BY DEF child, TypeInv, TableOK, EchoPoints
<1>3. /\ proc[p].fd[0] = <<3, 4>> /\ proc[p].fd[1] = <<5, 6>>
      /\ DOMAIN proc[p].open = 0..6
  BY <1>2 DEF TableOK, EchoTable
<1>4. F = {4, 5} /\ "read_text" \in Points
  BY <1>3 DEF Points
<1>5. r \in Processes /\ DOMAIN t = 0..6 \ {4, 5}
  <2>1. t \in Table /\ DOMAIN t = 0..6 \ F
    <3>1. PICK u \in Table : u = proc[p].open
      BY <1>2, ProcessFacts
    <3> HIDE DEF F
    <3>2. close(u, F) \in Table /\ DOMAIN close(u, F) = DOMAIN u \ F
      BY CloseFacts
    <3> QED BY <1>3, <3>1, <3>2
  <2> HIDE DEF t, F
  <2> QED BY <1>2, <1>4, <2>1 DEF Processes
<1>6. r.pc = "read_text" /\ r.open = t /\ r.fd = proc[p].fd
  BY <1>2 DEF Processes
<1>7. TableOK(r)
  <2> HIDE DEF r, t
  <2>1. 0..6 \ {4, 5} = 0..2 \cup {3, 6}
    OBVIOUS
  <2> QED BY <1>2, <1>3, <1>5, <1>6, <2>1
       DEF TableOK, EchoTable, Ended, EchoPoints, PipelinePoints, Reach
<1>8. /\ screen' \in Seq(Chunks) /\ failures' \in Nat /\ typed' \in Seq(Texts)
      /\ eintr' \in BOOLEAN
  BY DEF TypeInv
<1> HIDE DEF r
<1> QED BY <1>1, <1>2, <1>5, <1>7, <1>8, StepType

(* ... what it reads ...                                                     *)
LEMMA ConvertType ==
  ASSUME NEW r \in Processes, TableOK(r), r.pc = "read_text", NEW s \in Seq(Chunks)
  PROVE  convert(r, s) \in Processes /\ TableOK(convert(r, s))
<1> DEFINE u == get_upper(s)
           x == convert(r, s)
<1>1. u \in Seq(Chunks) /\ "reply" \in Points
  BY GetUpperType DEF Points
<1>2. x \in Processes /\ x.pc = "reply" /\ x.open = r.open /\ x.fd = r.fd
  <2>1. x = [r EXCEPT !.pc = "reply", !.buffer = u]
    BY DEF convert
  <2> HIDE DEF u, x
  <2> QED BY <1>1, <2>1 DEF Processes
<1>3. TableOK(x)
  <2> HIDE DEF x
  <2> QED BY <1>2
       DEF TableOK, EchoTable, Ended, EchoPoints, PipelinePoints, Reach
<1> QED BY <1>2, <1>3

(* The child of a round of the echo chamber reads and converts the text.     *)
LEMMA ReadTextType ==
  ASSUME TypeInv, NEW p \in Procs, read_text(p),
         UNCHANGED <<world, screen, failures, typed, eintr>>
  PROVE  TypeInv'
<1> DEFINE f == proc[p].fd[0][1]
<1>1. /\ proc[p].pc = "read_text"
      /\ step(p, convert(proc[p], received(p, f)), emptied(p, f))
  BY DEF read_text
<1>2. /\ proc[p] \in Processes /\ TableOK(proc[p]) /\ program = "echo"
  BY <1>1 DEF TypeInv, TableOK, EchoPoints
<1>3. f \in DOMAIN proc[p].open
  BY <1>1, <1>2 DEF TableOK, EchoTable
<1> HIDE DEF f
<1>4. received(p, f) \in Seq(Chunks) /\ emptied(p, f) \in Contents
  BY <1>3, PipeFacts
<1>5. PICK s \in Seq(Chunks) : s = received(p, f)
  BY <1>4
<1>6. convert(proc[p], s) \in Processes /\ TableOK(convert(proc[p], s))
  BY <1>1, <1>2, ConvertType
<1>7. /\ screen' \in Seq(Chunks) /\ failures' \in Nat /\ typed' \in Seq(Texts)
      /\ eintr' \in BOOLEAN
  BY DEF TypeInv
<1> QED BY <1>1, <1>4, <1>5, <1>6, <1>7, StepType DEF Contents

(* ... and what it writes.                                                   *)
LEMMA ReplyType ==
  ASSUME TypeInv, NEW p \in Procs, reply(p),
         UNCHANGED <<world, screen, failures, typed, eintr>>
  PROVE  TypeInv'
<1> DEFINE f == proc[p].fd[1][2]
           t == close(proc[p].open, {f})
           r == [proc[p] EXCEPT !.pc = "exit", !.open = t]
           s == proc[p].buffer \o <<"NUL">>
<1>1. proc[p].pc = "reply" /\ step(p, r, sent(content, p, f, s))
  BY DEF reply
<1>2. /\ proc[p] \in Processes /\ TableOK(proc[p]) /\ program = "echo"
      /\ content \in Contents /\ f \in Fds /\ proc[p].buffer \in Seq(Chunks)
  BY <1>1, ProcessFacts DEF TypeInv, TableOK, EchoPoints, Contents
<1>3. s \in Seq(Chunks)
  <2>1. "NUL" \in Chunks
    BY DEF Chunks
  <2>2. <<"NUL">> \in Seq(Chunks)
    BY <2>1
  <2> QED BY <1>2, <2>2
<1>4. sent(content, p, f, s) \in Contents
  <2> HIDE DEF s
  <2> QED BY <1>2, <1>3, SentType
<1>5. t \in Table /\ DOMAIN t = DOMAIN proc[p].open \ {f}
  BY <1>2, ProcessFacts, CloseFacts
<1>6. r \in Processes /\ r.pc = "exit" /\ r.open = t /\ r.fd = proc[p].fd
  <2> HIDE DEF t
  <2> QED BY <1>2, <1>5 DEF Processes, Points
<1> HIDE DEF r, s
<1>7. TableOK(r)
  <2>1. f \notin 0..2
    BY <1>2 DEF Fds
  <2> HIDE DEF f, t
  <2>2. 0..2 \subseteq DOMAIN t /\ DOMAIN t \subseteq 0..10
    BY <1>1, <1>2, <1>5, <2>1, TableFacts DEF TableOK, Ended
  <2> QED BY <1>2, <1>6, <2>2
       DEF TableOK, EchoTable, Ended, EchoPoints, PipelinePoints, Reach
<1>8. /\ screen' \in Seq(Chunks) /\ failures' \in Nat /\ typed' \in Seq(Texts)
      /\ eintr' \in BOOLEAN
  BY DEF TypeInv
<1> QED BY <1>1, <1>4, <1>6, <1>7, <1>8, StepType DEF Contents

(* A signal keeps the types.                                                 *)
LEMMA HandlerType ==
  ASSUME TypeInv, NEW p \in Procs, NEW sig \in Signals, handler(p, sig),
         UNCHANGED world
  PROVE  TypeInv'
<1> DEFINE r == [proc[p] EXCEPT !.ignored = @ \cup {sig}]
           a == [r EXCEPT !.pc = "answer"]
<1>1. /\ proc[p] \in Processes /\ TableOK(proc[p]) /\ Alive(p)
      /\ UNCHANGED <<failures, typed>> /\ program = "echo"
  BY DEF TypeInv, handler
<1>2. /\ r \in Processes /\ r.pc = proc[p].pc /\ r.open = proc[p].open
      /\ r.fd = proc[p].fd /\ r.parent = proc[p].parent /\ r.buffer = proc[p].buffer
  BY <1>1 DEF Processes
<1>3. /\ r.pc = "wait" => TableOK(a) /\ a \in Processes
  <2>1. a \in Processes /\ a.pc = "answer" /\ a.open = r.open /\ a.fd = r.fd
    BY <1>2 DEF Processes, Points
  <2> HIDE DEF a, r
  <2> QED BY <1>1, <1>2, <2>1
       DEF TableOK, EchoTable, Ended, EchoPoints, PipelinePoints, Reach
<1>4. TableOK(r)
  <2> HIDE DEF r
  <2> QED BY <1>1, <1>2 DEF TableOK, EchoTable
<1>5. \/ step(p, r, content) /\ UNCHANGED <<screen, eintr>>
      \/ /\ Blocked(p) /\ eintr' = TRUE
         /\ \/ r.pc = "answer" /\ print_answer(p, r, r.buffer)
            \/ /\ r.pc # "answer" /\ UNCHANGED screen
               /\ step(p, IF r.pc = "wait" THEN a ELSE convert(r, r.buffer), content)
  BY DEF handler
<1> HIDE DEF r, a
<1>6. failures' \in Nat /\ typed' \in Seq(Texts) /\ content \in [PipeIds -> Seq(Chunks)]
  BY <1>1 DEF TypeInv
<1>7. CASE step(p, r, content) /\ UNCHANGED <<screen, eintr>>
  <2>1. screen' \in Seq(Chunks) /\ eintr' \in BOOLEAN
    BY <1>7 DEF TypeInv
  <2> QED BY <1>2, <1>4, <1>6, <1>7, <2>1, StepType
<1>8. CASE eintr' = TRUE /\ r.pc = "answer" /\ print_answer(p, r, r.buffer)
  <2>1. r.buffer \in Seq(Chunks)
    BY <1>2, ProcessFacts
  <2>2. UNCHANGED <<world, failures, typed>>
    BY <1>1
  <2> QED BY <1>2, <1>4, <1>8, <2>1, <2>2, PrintAnswerType
<1>9. CASE /\ Blocked(p) /\ eintr' = TRUE /\ r.pc # "answer" /\ UNCHANGED screen
           /\ step(p, IF r.pc = "wait" THEN a ELSE convert(r, r.buffer), content)
  <2>1. screen' \in Seq(Chunks) /\ eintr' \in BOOLEAN
    BY <1>9 DEF TypeInv
  <2>2. CASE r.pc = "wait"
    BY <1>3, <1>6, <1>9, <2>1, <2>2, StepType
  <2>3. CASE r.pc # "wait"
    <3>1. r.pc = "read_text"
      BY <1>2, <1>9, <2>3 DEF Blocked
    <3>2. PICK s \in Seq(Chunks) : s = r.buffer
      BY <1>2, ProcessFacts
    <3>3. convert(r, s) \in Processes /\ TableOK(convert(r, s))
      BY <1>2, <1>4, <3>1, ConvertType
    <3>4. step(p, convert(r, s), content)
      BY <1>9, <2>3, <3>2
    <3> QED BY <1>6, <2>1, <3>3, <3>4, StepType
  <2> QED BY <2>2, <2>3
<1> QED BY <1>5, <1>7, <1>8, <1>9

(* s is r after plumb: where standard input and output lead, and what is     *)
(* closed.                                                                   *)
Plumbed(r, s, F, x, y) ==
  /\ s \in Processes /\ s.pc = r.pc /\ s.fd = r.fd /\ s.buffer = r.buffer
  /\ s.pending = r.pending /\ s.parent = r.parent /\ s.ignored = r.ignored
  /\ DOMAIN s.open = DOMAIN r.open \ (F \cup {x, y})
  /\ 0..2 \subseteq DOMAIN s.open
  /\ s.open[0] = IF x \in DOMAIN r.open \ F THEN r.open[x] ELSE r.open[0]
  /\ s.open[1] = IF y \in DOMAIN r.open \ F THEN r.open[y] ELSE r.open[1]

(* What the child of a fork() does with its descriptors is what Plumbed      *)
(* says.                                                                     *)
LEMMA PlumbFacts ==
  ASSUME NEW r \in Processes, 0..2 \subseteq DOMAIN r.open,
         NEW F \in SUBSET Fds, NEW a \in 0..3, NEW b \in 0..3
  PROVE  Plumbed(r, plumb(r, F, a, b), F, r.fd[a][1], r.fd[b][2])
<1>0. PICK x, y, s : x = r.fd[a][1] /\ y = r.fd[b][2] /\ s = plumb(r, F, a, b)
  OBVIOUS
<1> DEFINE t == r.open
           u1 == close(t, F)
           u2 == dup2(u1, x, STDIN)
           u3 == dup2(u2, y, STDOUT)
           u4 == close(u3, {x, y})
<1>1. t \in Table /\ x \in Fds /\ y \in Fds /\ STDIN \in 0..10 /\ STDOUT \in 0..10
  BY <1>0, ProcessFacts DEF STDIN, STDOUT
<1>2. /\ u1 \in Table /\ DOMAIN u1 = DOMAIN t \ F
      /\ \A f \in DOMAIN t \ F : u1[f] = t[f]
  <2> HIDE DEF t
  <2> QED BY <1>1, CloseFacts
<1> HIDE DEF u1
<1>3. {0, 1, 2} \subseteq DOMAIN u1 /\ x \notin {0, 1, 2} /\ y \notin {0, 1, 2}
  BY <1>1, <1>2 DEF Fds
<1>4. /\ u2 \in Table /\ DOMAIN u2 = DOMAIN u1
      /\ u2[0] = IF x \in DOMAIN u1 THEN u1[x] ELSE u1[0]
      /\ \A f \in DOMAIN u1 \ {0} : u2[f] = u1[f]
  <2>1. IsDup(u1, u2, x, STDIN)
    BY <1>1, <1>2, Dup2Facts
  <2> HIDE DEF u2
  <2> QED BY <1>3, <2>1 DEF STDIN, IsDup
<1> HIDE DEF u2
<1>5. /\ u3 \in Table /\ DOMAIN u3 = DOMAIN u1
      /\ u3[0] = u2[0]
      /\ u3[1] = IF y \in DOMAIN u1 THEN u1[y] ELSE u1[1]
      /\ \A f \in DOMAIN u1 \ {0, 1} : u3[f] = u1[f]
  <2>1. IsDup(u2, u3, y, STDOUT)
    BY <1>1, <1>4, Dup2Facts
  <2> HIDE DEF u3
  <2> QED BY <1>3, <1>4, <2>1 DEF STDOUT, IsDup
<1> HIDE DEF u3
<1>6. /\ u4 \in Table /\ DOMAIN u4 = DOMAIN u3 \ {x, y}
      /\ \A f \in DOMAIN u3 \ {x, y} : u4[f] = u3[f]
  BY <1>5, CloseFacts
<1>7. s = [r EXCEPT !.open = u4]
  BY <1>0 DEF plumb, u1, u2, u3
<1> HIDE DEF u4
<1>8. /\ s \in Processes /\ s.open = u4
      /\ s.pc = r.pc /\ s.fd = r.fd /\ s.buffer = r.buffer
      /\ s.pending = r.pending /\ s.parent = r.parent /\ s.ignored = r.ignored
  BY <1>6, <1>7 DEF Processes
<1>9. DOMAIN u4 = DOMAIN r.open \ (F \cup {x, y})
  BY <1>2, <1>5, <1>6
<1>10. 0..2 \subseteq DOMAIN u4
  BY <1>3, <1>5, <1>6
<1>11. /\ u4[0] = IF x \in DOMAIN r.open \ F THEN r.open[x] ELSE r.open[0]
       /\ u4[1] = IF y \in DOMAIN r.open \ F THEN r.open[y] ELSE r.open[1]
  BY <1>2, <1>3, <1>4, <1>5, <1>6
<1>12. Plumbed(r, s, F, x, y)
  BY <1>8, <1>9, <1>10, <1>11 DEF Plumbed
<1> QED BY <1>0, <1>12

(* s is r after exec(), or after its failure.                                *)
Executed(r, s, name, point, output, next) ==
  /\ s \in Processes /\ s.open = r.open /\ s.fd = r.fd /\ s.parent = r.parent
  /\ name \in missing => /\ s.pc = next /\ s.buffer = r.buffer
                         /\ s.pending = Append(r.pending, "noise")
  /\ name \notin missing => /\ s.pc = point /\ s.buffer = <<>>
                            /\ s.pending = output

(* execl() replaces the process, or returns with a message pending.          *)
LEMMA ExeclFacts ==
  ASSUME NEW r \in Processes, NEW name, NEW point \in Points, NEW next \in Points,
         NEW output \in Seq(Chunks)
  PROVE  Executed(r, execl(r, name, point, output, next), name, point, output, next)
<1>1. Append(r.pending, "noise") \in Seq(Chunks) /\ <<>> \in Seq(Chunks)
  <2>1. r.pending \in Seq(Chunks) /\ "noise" \in Chunks
    BY ProcessFacts DEF Chunks
  <2> QED BY <2>1
<1>2. CASE name \in missing
  BY <1>1, <1>2 DEF execl, Processes, Executed
<1>3. CASE name \notin missing
  BY <1>1, <1>3 DEF execl, Processes, Executed
<1> QED BY <1>2, <1>3

(* The parent's three forks keep the types.                                  *)
LEMMA ForkCoprocessType ==
  ASSUME TypeInv, NEW p \in Procs, fork_coprocess(p), UNCHANGED world
  PROVE  TypeInv'
<1>1. /\ proc[p] \in Processes /\ TableOK(proc[p])
      /\ UNCHANGED <<world, content, screen, typed, eintr>>
      /\ \A pt \in {"fork_1", "fork_2", "fork_3", "close", "setup_1",
                    "setup_2", "setup_3"} : pt \in Points /\ pt \notin Ended
  BY DEF TypeInv, fork_coprocess, Points, Ended
<1>2. ASSUME NEW r \in Processes, NEW here \in Points, NEW childs \in Points,
             here \in {"fork_2", "fork_3", "close"},
             childs \in {"setup_1", "setup_2", "setup_3"},
             fork(p, r, here, childs, here), program = "pipeline",
             proc[p].pc \notin Ended, 0..2 \subseteq DOMAIN r.open,
             DOMAIN r.open \subseteq 0..Reach(here),
             DOMAIN r.open \subseteq 0..Reach(childs),
             \A f \in DOMAIN proc[p].open :
               f \in DOMAIN r.open /\ r.open[f] = proc[p].open[f]
      PROVE  TypeInv'
  <2> DEFINE A == [r EXCEPT !.pc = here]
             B == [r EXCEPT !.pc = childs, !.parent = p]
  <2>1. /\ A.pc = here /\ A.open = r.open /\ B.pc = childs /\ B.open = r.open
    BY DEF Processes
  <2>2. TableOK(A) /\ TableOK(B)
    <3> HIDE DEF A, B
    <3>1. here \notin Ended /\ childs \notin Ended /\ here \notin EchoPoints
            /\ childs \notin EchoPoints
      BY <1>2 DEF Ended, EchoPoints
    <3> QED BY <1>2, <2>1, <3>1 DEF TableOK
  <2> QED BY <1>1, <1>2, <2>2, ForkType
<1>3. Unused \in SUBSET Nat /\ Unused \subseteq PipeIds
  BY SizesAssumption DEF Unused, PipeIds
<1>4. CASE /\ proc[p].pc = "fork_1" /\ Cardinality(Unused) >= 2
           /\ fork(p, two_pipes(proc[p]), "fork_2", "setup_1", "fork_2")
  <2>1. program = "pipeline" /\ DOMAIN proc[p].open = 0..2 /\ proc[p].pc \notin Ended
    BY <1>1, <1>4 DEF TableOK, PipelinePoints, Ended, Reach
  <2>2. PICK r \in Processes : r = two_pipes(proc[p])
    BY <1>1, <1>4, <2>1, TwoPipesFacts
  <2>3. DOMAIN r.open = 0..6 /\ \A f \in 0..2 : r.open[f] = proc[p].open[f]
    BY <1>1, <1>4, <2>1, <2>2, TwoPipesFacts
  <2>4. Reach("fork_2") = 6 /\ Reach("setup_1") = 6
    BY DEF Reach, EchoPoints
  <2>5. fork(p, r, "fork_2", "setup_1", "fork_2")
    BY <1>4, <2>2
  <2> QED BY <1>1, <1>2, <2>1, <2>3, <2>4, <2>5
<1>5. ASSUME NEW here \in Points, NEW childs \in Points, NEW k \in 0..3,
             here \in {"fork_2", "fork_3", "close"},
             childs \in {"setup_1", "setup_2", "setup_3"}, NEW n \in {6, 8},
             Unused # {}, fork(p, with_pipe(proc[p], k, NewPipe), here, childs, here),
             program = "pipeline", proc[p].pc \notin Ended, Reach(here) = n + 2,
             Reach(childs) = n + 2, DOMAIN proc[p].open \subseteq 0..n
      PROVE  TypeInv'
  <2>1. PICK id \in PipeIds : id = NewPipe
    BY <1>3, <1>5, MinFacts DEF NewPipe
  <2> DEFINE r == with_pipe(proc[p], k, id)
  <2>2. 0..2 \subseteq DOMAIN proc[p].open /\ n \in 0..8
    BY <1>1, <1>5 DEF TableOK
  <2>3. PICK x, y \in 3..(n + 2) : Piped(proc[p], r, k, id, x, y)
    BY <1>1, <1>5, <2>2, WithPipeFacts
  <2>4. fork(p, r, here, childs, here)
    BY <1>5, <2>1
  <2> HIDE DEF r
  <2>5. /\ r \in Processes /\ 0..2 \subseteq DOMAIN r.open
        /\ DOMAIN r.open \subseteq 0..(n + 2)
        /\ \A f \in DOMAIN proc[p].open :
             f \in DOMAIN r.open /\ r.open[f] = proc[p].open[f]
    BY <1>5, <2>2, <2>3 DEF Piped
  <2> QED BY <1>2, <1>5, <2>4, <2>5
<1>6. CASE /\ proc[p].pc = "fork_2" /\ Unused # {}
           /\ fork(p, with_pipe(proc[p], 2, NewPipe), "fork_3", "setup_2", "fork_3")
  <2>1. /\ program = "pipeline" /\ DOMAIN proc[p].open \subseteq 0..6
        /\ proc[p].pc \notin Ended
    BY <1>1, <1>6 DEF TableOK, PipelinePoints, Ended, Reach, EchoPoints
  <2>2. Reach("fork_3") = 6 + 2 /\ Reach("setup_2") = 6 + 2
    BY DEF Reach, EchoPoints
  <2> QED BY <1>1, <1>5, <1>6, <2>1, <2>2
<1>7. CASE /\ proc[p].pc = "fork_3" /\ Unused # {}
           /\ fork(p, with_pipe(proc[p], 3, NewPipe), "close", "setup_3", "close")
  <2>1. /\ program = "pipeline" /\ DOMAIN proc[p].open \subseteq 0..8
        /\ proc[p].pc \notin Ended
    BY <1>1, <1>7 DEF TableOK, PipelinePoints, Ended, Reach, EchoPoints
  <2>2. Reach("close") = 8 + 2 /\ Reach("setup_3") = 8 + 2
    BY DEF Reach, EchoPoints
  <2> QED BY <1>1, <1>5, <1>7, <2>1, <2>2
<1> QED BY <1>4, <1>6, <1>7, ForkCases

(* A coprocess of the pipeline: its point is one of the pipeline, and its    *)
(* table is no larger than before.                                           *)
LEMMA PipelineTable ==
  ASSUME NEW r \in Processes, program = "pipeline",
         r.pc \in PipelinePoints \cup {"exit", "send"},
         0..2 \subseteq DOMAIN r.open, DOMAIN r.open \subseteq 0..Reach(r.pc)
  PROVE  TableOK(r)
BY DEF TableOK, PipelinePoints, EchoPoints, Ended

(* What the children do before exec() keeps the types.                       *)
LEMMA SetupType ==
  ASSUME TypeInv, NEW p \in Procs, setup(p),
         UNCHANGED <<world, screen, failures, typed, eintr>>
  PROVE  TypeInv'
<1> DEFINE r == proc[p]
           F1 == {r.fd[0][2], r.fd[1][1]}
           F2 == Both(r, 0) \cup {r.fd[1][2], r.fd[2][1]}
           F3 == Both(r, 0) \cup Both(r, 1) \cup {r.fd[2][2], r.fd[3][1]}
<1>1. /\ r \in Processes /\ TableOK(r) /\ content \in [PipeIds -> Seq(Chunks)]
      /\ r.pc \in {"setup_1", "setup_2", "setup_3"}
  BY DEF TypeInv, setup
<1>2. /\ program = "pipeline" /\ 0..2 \subseteq DOMAIN r.open
      /\ DOMAIN r.open \subseteq 0..Reach(r.pc)
  BY <1>1 DEF TableOK, PipelinePoints, Ended
<1>3. F1 \in SUBSET Fds /\ F2 \in SUBSET Fds /\ F3 \in SUBSET Fds
  BY <1>1, ProcessFacts DEF Both
<1>4. /\ screen' \in Seq(Chunks) /\ failures' \in Nat /\ typed' \in Seq(Texts)
      /\ eintr' \in BOOLEAN
  BY DEF TypeInv
<1>5. CASE r.pc = "setup_1" /\
           step(p, [plumb(r, F1, 0, 1) EXCEPT !.pc = "read_argument"], content)
  <2> HIDE DEF F1
  <2>1. PICK s : s = plumb(r, F1, 0, 1)
    OBVIOUS
  <2>2. /\ s \in Processes /\ 0..2 \subseteq DOMAIN s.open
        /\ DOMAIN s.open \subseteq DOMAIN r.open
    <3>1. Plumbed(r, plumb(r, F1, 0, 1), F1, r.fd[0][1], r.fd[1][2])
      BY <1>1, <1>2, <1>3, PlumbFacts
    <3> QED BY <2>1, <3>1 DEF Plumbed
  <2> DEFINE u == [s EXCEPT !.pc = "read_argument"]
  <2>3. u \in Processes /\ u.pc = "read_argument" /\ u.open = s.open
    BY <2>2 DEF Processes, Points
  <2>4. step(p, u, content)
    BY <1>5, <2>1
  <2> HIDE DEF u
  <2>5. TableOK(u)
    BY <1>2, <1>5, <2>2, <2>3, PipelineTable DEF PipelinePoints, Reach
  <2> QED BY <1>1, <1>4, <2>3, <2>4, <2>5, StepType
<1>6. ASSUME NEW F \in SUBSET Fds, NEW k \in 0..2, NEW m \in 0..3, NEW name,
             NEW point, NEW next, point \in {"filter", "calc"},
             next \in {"fork_3", "close"},
             Reach(point) = Reach(r.pc), Reach(next) = Reach(r.pc),
             step(p, execl(plumb(r, F, k, m), name, point, <<>>, next), content)
      PROVE  TypeInv'
  <2>1. PICK s : s = plumb(r, F, k, m)
    OBVIOUS
  <2>2. /\ s \in Processes /\ 0..2 \subseteq DOMAIN s.open
        /\ DOMAIN s.open \subseteq DOMAIN r.open
    <3>1. Plumbed(r, plumb(r, F, k, m), F, r.fd[k][1], r.fd[m][2])
      <4>1. k \in 0..3
        OBVIOUS
      <4> QED BY <1>1, <1>2, <4>1, PlumbFacts
    <3> QED BY <2>1, <3>1 DEF Plumbed
  <2>3. PICK u : u = execl(s, name, point, <<>>, next)
    OBVIOUS
  <2>4. point \in Points /\ next \in Points /\ <<>> \in Seq(Chunks)
    BY <1>6 DEF Points
  <2>5. /\ u \in Processes /\ u.open = s.open
        /\ (u.pc = point \/ u.pc = next)
    <3>1. Executed(s, u, name, point, <<>>, next)
      BY <2>2, <2>3, <2>4, ExeclFacts
    <3> QED BY <3>1 DEF Executed
  <2>6. TableOK(u)
    BY <1>2, <1>6, <2>2, <2>5, PipelineTable DEF PipelinePoints
  <2> QED BY <1>1, <1>4, <1>6, <2>1, <2>3, <2>5, <2>6, StepType
<1>7. /\ Reach("setup_2") = 8 /\ Reach("filter") = 8 /\ Reach("fork_3") = 8
      /\ Reach("setup_3") = 10 /\ Reach("calc") = 10 /\ Reach("close") = 10
  BY DEF Reach, EchoPoints
<1>8. CASE /\ r.pc = "setup_2"
           /\ step(p, execl(plumb(r, F2, 1, 2), "filter_pos_nums", "filter",
                            <<>>, "fork_3"), content)
  <2> HIDE DEF F2
  <2> QED BY <1>3, <1>6, <1>7, <1>8
<1>9. CASE /\ r.pc = "setup_3"
           /\ step(p, execl(plumb(r, F3, 2, 3), "calc_avg", "calc",
                            <<>>, "close"), content)
  <2> HIDE DEF F3
  <2> QED BY <1>3, <1>6, <1>7, <1>9
<1> QED BY <1>5, <1>8, <1>9, Zenon DEF setup

(* So does the argument, and what becomes of the first child.                *)
LEMMA ReadArgumentType ==
  ASSUME TypeInv, NEW p \in Procs, read_argument(p),
         UNCHANGED <<world, screen, failures, typed, eintr>>
  PROVE  TypeInv'
<1> DEFINE got == received(p, STDIN)
           out == IF got = <<>> THEN <<>> ELSE NUMBERS
           r == [proc[p] EXCEPT !.buffer = got]
           u == execl(r, "gen_numbers", "exit", out, "fork_2")
<1>1. /\ proc[p] \in Processes /\ TableOK(proc[p]) /\ proc[p].pc = "read_argument"
      /\ step(p, u, emptied(p, STDIN))
  BY DEF TypeInv, read_argument
<1>2. /\ program = "pipeline" /\ 0..2 \subseteq DOMAIN proc[p].open
      /\ DOMAIN proc[p].open \subseteq 0..6
  BY <1>1 DEF TableOK, PipelinePoints, Ended, Reach, EchoPoints
<1>3. got \in Seq(Chunks) /\ emptied(p, STDIN) \in Contents
  <2>1. STDIN \in DOMAIN proc[p].open
    BY <1>2 DEF STDIN
  <2> QED BY <2>1, PipeFacts
<1>4. out \in Seq(Chunks)
  <2>1. NUMBERS \in Seq({"pos", "neg"}) /\ {"pos", "neg"} \subseteq Chunks
    BY ProgramsAssumption DEF Chunks
  <2>2. NUMBERS \in Seq(Chunks)
    BY <2>1
  <2> QED BY <2>2
<1> HIDE DEF got, out
<1>5. r \in Processes /\ r.open = proc[p].open
  BY <1>1, <1>3 DEF Processes
<1> HIDE DEF r
<1>6. "exit" \in Points /\ "fork_2" \in Points
  BY DEF Points
<1>7. u \in Processes /\ u.open = r.open /\ u.pc \in {"exit", "fork_2"}
  <2>1. Executed(r, u, "gen_numbers", "exit", out, "fork_2")
    BY <1>4, <1>5, <1>6, ExeclFacts
  <2> HIDE DEF u
  <2> QED BY <2>1 DEF Executed
<1> HIDE DEF u
<1>8. TableOK(u)
  <2>1. Reach("exit") = 10 /\ Reach("fork_2") = 6
    BY DEF Reach, EchoPoints
  <2> QED BY <1>2, <1>5, <1>7, <2>1, PipelineTable DEF PipelinePoints
<1>9. /\ screen' \in Seq(Chunks) /\ failures' \in Nat /\ typed' \in Seq(Texts)
      /\ eintr' \in BOOLEAN
  BY DEF TypeInv
<1> QED BY <1>1, <1>3, <1>7, <1>8, <1>9, StepType DEF Contents

(* So does what the parent closes.                                           *)
LEMMA CloseUnusedType ==
  ASSUME TypeInv, NEW p \in Procs, close_unused(p),
         UNCHANGED <<world, screen, failures, typed, eintr>>
  PROVE  TypeInv'
<1> DEFINE F == parent_closes(proc[p])
           t == close(proc[p].open, F)
           r == [proc[p] EXCEPT !.pc = "send", !.buffer = <<"arg">>, !.open = t]
<1>1. /\ proc[p] \in Processes /\ TableOK(proc[p]) /\ proc[p].pc = "close"
      /\ step(p, r, content) /\ content \in [PipeIds -> Seq(Chunks)]
  BY DEF TypeInv, close_unused
<1>2. /\ program = "pipeline" /\ 0..2 \subseteq DOMAIN proc[p].open
  BY <1>1 DEF TableOK, PipelinePoints, Ended
<1>3. F \in SUBSET Fds
  BY <1>1, ProcessFacts DEF parent_closes, Both
<1>4. t \in Table /\ DOMAIN t = DOMAIN proc[p].open \ F
  <2> HIDE DEF F
  <2>1. proc[p].open \in Table
    BY <1>1, ProcessFacts
  <2> QED BY <2>1, CloseFacts
<1>5. 0..2 \subseteq DOMAIN t /\ DOMAIN t \subseteq 0..10
  <2>1. DOMAIN t \subseteq 0..10
    <3> HIDE DEF t
    <3> QED BY <1>4, TableFacts
  <2>2. \A f \in 0..2 : f \notin F
    BY <1>3 DEF Fds
  <2> HIDE DEF t, F
  <2> QED BY <1>2, <1>4, <2>1, <2>2
<1>6. r \in Processes /\ r.pc = "send" /\ r.open = t
  <2>1. "arg" \in Chunks
    BY DEF Chunks
  <2>2. <<"arg">> \in Seq(Chunks)
    BY <2>1
  <2> HIDE DEF t
  <2> QED BY <1>1, <1>4, <2>2 DEF Processes, Points
<1> HIDE DEF r
<1>7. TableOK(r)
  <2>1. Reach("send") = 10
    BY DEF Reach, EchoPoints
  <2> QED BY <1>2, <1>5, <1>6, <2>1, PipelineTable
<1>8. /\ screen' \in Seq(Chunks) /\ failures' \in Nat /\ typed' \in Seq(Texts)
      /\ eintr' \in BOOLEAN
  BY DEF TypeInv
<1> QED BY <1>1, <1>6, <1>7, <1>8, StepType

(* Reading from standard input keeps the type of the pipes.                  *)
LEMMA RestType ==
  ASSUME TypeInv, NEW p \in Procs, STDIN \in DOMAIN proc[p].open, Input(p) # <<>>
  PROVE  /\ Rest(p) \in Contents /\ Input(p) \in Seq(Chunks)
         /\ Head(Input(p)) \in Chunks
         /\ PipeOf(p, STDIN) \in PipeIds /\ Input(p) = content[PipeOf(p, STDIN)]
<1>1. PipeOf(p, STDIN) \in PipeIds \cup {0} /\ Input(p) \in Seq(Chunks)
  BY PipeFacts DEF Input
<1>2. PipeOf(p, STDIN) # 0 /\ Input(p) = content[PipeOf(p, STDIN)]
  BY DEF Input, received
<1>3. PICK k \in PipeIds : k = PipeOf(p, STDIN)
  BY <1>1, <1>2
<1>4. content[k] \in Seq(Chunks) /\ content[k] # <<>> /\ content \in Contents
  BY <1>2, <1>3 DEF TypeInv, Contents
<1>5. Tail(content[k]) \in Seq(Chunks) /\ Head(content[k]) \in Chunks
  BY <1>4
<1>6. Rest(p) = [content EXCEPT ![k] = Tail(@)]
  BY <1>3 DEF Rest
<1>7. Rest(p) \in Contents
  BY <1>4, <1>5, <1>6 DEF Contents
<1> QED BY <1>1, <1>2, <1>3, <1>5, <1>7

(* The coprocesses keep the types.                                           *)
LEMMA FilterType ==
  ASSUME TypeInv, NEW p \in Procs, filter_pos_nums(p),
         UNCHANGED <<world, screen, failures, typed, eintr>>
  PROVE  TypeInv'
<1> DEFINE r == [proc[p] EXCEPT !.pc = "exit"]
           c == sent(Rest(p), p, STDOUT, <<Head(Input(p))>>)
<1>1. /\ proc[p] \in Processes /\ TableOK(proc[p]) /\ proc[p].pc = "filter"
      /\ content \in [PipeIds -> Seq(Chunks)]
  BY DEF TypeInv, filter_pos_nums
<1>2. /\ program = "pipeline" /\ 0..2 \subseteq DOMAIN proc[p].open
      /\ STDIN \in DOMAIN proc[p].open
      /\ DOMAIN proc[p].open \subseteq 0..10
  BY <1>1, ProcessFacts, TableFacts DEF TableOK, PipelinePoints, Ended, STDIN
<1>3. r \in Processes /\ r.pc = "exit" /\ r.open = proc[p].open
  BY <1>1 DEF Processes, Points
<1>4. TableOK(r)
  <2> HIDE DEF r
  <2>1. Reach("exit") = 10
    BY DEF Reach, EchoPoints
  <2> QED BY <1>2, <1>3, <2>1, PipelineTable
<1>5. Input(p) # <<>> => Rest(p) \in Contents /\ c \in Contents
  <2> SUFFICES ASSUME Input(p) # <<>>
               PROVE  Rest(p) \in Contents /\ c \in Contents
    OBVIOUS
  <2>1. Rest(p) \in Contents /\ Head(Input(p)) \in Chunks
    BY <1>2, RestType
  <2>2. <<Head(Input(p))>> \in Seq(Chunks)
    BY <2>1
  <2> QED BY <2>1, <2>2, SentType
<1>6. \/ step(p, r, content)
      \/ Input(p) # <<>> /\ step(p, proc[p], Rest(p))
      \/ Input(p) # <<>> /\ step(p, proc[p], c)
  BY DEF filter_pos_nums
<1>7. /\ screen' \in Seq(Chunks) /\ failures' \in Nat /\ typed' \in Seq(Texts)
      /\ eintr' \in BOOLEAN
  BY DEF TypeInv
<1> HIDE DEF r, c
<1> QED BY <1>1, <1>3, <1>4, <1>5, <1>6, <1>7, StepType DEF Contents

(* calc_avg reads a number, or says the average.                             *)
LEMMA CalcType ==
  ASSUME TypeInv, NEW p \in Procs, calc_avg(p),
         UNCHANGED <<world, screen, failures, typed, eintr>>
  PROVE  TypeInv'
<1> DEFINE x == IF proc[p].buffer = <<"pos">> THEN "avg" ELSE "noise"
           y == IF /\ Head(Input(p)) = "pos"
                   /\ proc[p].buffer \in {<<>>, <<"pos">>}
                THEN <<"pos">> ELSE <<"noise">>
           r == [proc[p] EXCEPT !.pc = "exit", !.buffer = <<>>, !.pending = <<x>>]
           s == [proc[p] EXCEPT !.buffer = y]
<1>1. /\ proc[p] \in Processes /\ TableOK(proc[p]) /\ proc[p].pc = "calc"
      /\ content \in [PipeIds -> Seq(Chunks)]
  BY DEF TypeInv, calc_avg
<1>2. /\ program = "pipeline" /\ 0..2 \subseteq DOMAIN proc[p].open
      /\ STDIN \in DOMAIN proc[p].open
      /\ DOMAIN proc[p].open \subseteq 0..10
  BY <1>1, ProcessFacts, TableFacts DEF TableOK, PipelinePoints, Ended, STDIN
<1>3. <<x>> \in Seq(Chunks) /\ y \in Seq(Chunks) /\ <<>> \in Seq(Chunks)
  <2>1. x \in Chunks /\ "pos" \in Chunks /\ "noise" \in Chunks
    BY DEF Chunks
  <2>2. <<"pos">> \in Seq(Chunks) /\ <<"noise">> \in Seq(Chunks)
    BY <2>1
  <2> QED BY <2>1, <2>2
<1>4. /\ step(p, r, content) \/ (Input(p) # <<>> /\ step(p, s, Rest(p)))
  BY Zenon DEF calc_avg
<1> HIDE DEF x, y
<1>5. /\ r \in Processes /\ r.pc = "exit" /\ r.open = proc[p].open
      /\ s \in Processes /\ s.pc = "calc" /\ s.open = proc[p].open
  BY <1>1, <1>3 DEF Processes, Points
<1> HIDE DEF r, s
<1>6. TableOK(r) /\ TableOK(s)
  <2>1. Reach("exit") = 10 /\ Reach("calc") = 10
    BY DEF Reach, EchoPoints
  <2>2. "calc" \in PipelinePoints
    BY DEF PipelinePoints
  <2> QED BY <1>2, <1>5, <2>1, <2>2, PipelineTable
<1>7. Input(p) # <<>> => Rest(p) \in Contents
  BY <1>2, RestType
<1>8. /\ screen' \in Seq(Chunks) /\ failures' \in Nat /\ typed' \in Seq(Texts)
      /\ eintr' \in BOOLEAN
  BY DEF TypeInv
<1> QED BY <1>1, <1>4, <1>5, <1>6, <1>7, <1>8, StepType DEF Contents

(* The type invariant holds initially, and every step keeps it.              *)
LEMMA InitType == Init => TypeInv
<1> SUFFICES ASSUME Init
             PROVE  TypeInv
  OBVIOUS
<1> DEFINE pt == IF program = "echo" THEN "while" ELSE "fork_1"
           T == [f \in 0..2 |-> Terminal]
           m == [Free EXCEPT !.pc = pt, !.open = T]
<1>1. /\ program \in {"echo", "pipeline"} /\ restart \in BOOLEAN /\ buffered \in BOOLEAN
      /\ missing \in SUBSET {"gen_numbers", "filter_pos_nums", "calc_avg"}
      /\ program = "pipeline" => buffered
  BY ProgramsAssumption DEF Init
<1>2. /\ content = [k \in PipeIds |-> <<>>] /\ screen = <<>> /\ failures = 0
      /\ typed = <<>> /\ eintr = FALSE
      /\ proc = [p \in Procs |-> IF p # Main THEN Free ELSE m]
  BY DEF Init
<1>3. T \in Table /\ DOMAIN T = 0..2
  <2>1. Terminal \in Descriptors
    BY DEF Descriptors
  <2> QED BY <2>1, TableFacts
<1>4. Free \in Processes /\ TableOK(Free)
  <2>1. "free" \in Ended
    BY DEF Ended
  <2>2. [Free EXCEPT !.pc = "free"] = Free
    BY DEF Free
  <2> QED BY <2>1, <2>2, FreeFacts
<1>5. m \in Processes /\ m.pc = pt /\ m.open = T /\ pt \in {"while", "fork_1"}
  <2> HIDE DEF T
  <2> QED BY <1>3, <1>4 DEF Processes, Points
<1>6. TableOK(m)
  <2>1. pt = "while" <=> program = "echo"
    OBVIOUS
  <2> HIDE DEF m, pt, T
  <2> QED BY <1>1, <1>3, <1>5, <2>1
       DEF TableOK, EchoTable, Ended, EchoPoints, PipelinePoints, Reach
<1> HIDE DEF m
<1>7. proc \in [Procs -> Processes] /\ \A p \in Procs : TableOK(proc[p])
  BY <1>2, <1>4, <1>5, <1>6
<1>8. content \in [PipeIds -> Seq(Chunks)] /\ Held
  BY <1>2 DEF Held
<1>9. /\ screen \in Seq(Chunks) /\ failures \in Nat /\ typed \in Seq(Texts)
      /\ eintr \in BOOLEAN
  <2>1. \A S : <<>> \in Seq(S)
    OBVIOUS
  <2>2. FALSE \in BOOLEAN /\ 0 \in Nat
    OBVIOUS
  <2> QED BY <1>2, <2>1, <2>2, Zenon
<1> QED BY <1>1, <1>7, <1>8, <1>9 DEF TypeInv

(* Every step keeps the types.                                               *)
LEMMA NextType == TypeInv /\ [Next]_vars => TypeInv'
<1> SUFFICES ASSUME TypeInv, [Next]_vars
             PROVE  TypeInv'
  OBVIOUS
<1>1. CASE UNCHANGED vars
  <2>1. Ends' = Ends
    BY <1>1 DEF vars, Ends
  <2> QED BY <1>1, <2>1 DEF vars, world, TypeInv, TableOK, EchoTable, Held
<1>2. ASSUME NEW p \in Procs, UNCHANGED world,
             Runs(p) \/ get_text(p) \/ \E sig \in Signals : handler(p, sig)
      PROVE  TypeInv'
  <2>1. CASE exit_flush(p) \/ answer(p) \/ while(p) \/ fork_coprocess(p)
    BY <1>2, <2>1, FlushType, AnswerType, WhileType, ForkCoprocessType
  <2>2. CASE get_text(p) \/ \E sig \in Signals : handler(p, sig)
    BY <1>2, <2>2, GetTextType, HandlerType
  <2>3. CASE /\ exit(p) \/ broken_pipe(p)
             /\ UNCHANGED <<screen, failures, typed, eintr>>
    <3>1. ends(p, "exited") \/ ends(p, "killed")
      BY <2>3 DEF exit, broken_pipe
    <3>2. "exited" \in Ended /\ "killed" \in Ended
      BY DEF Ended
    <3>3. UNCHANGED <<world, screen, failures, typed, eintr>>
      BY <1>2, <2>3
    <3> QED BY <3>1, <3>2, <3>3, EndsType
  <2>4. CASE /\ \/ send(p) \/ wait(p) \/ child(p) \/ read_text(p) \/ reply(p)
                \/ setup(p) \/ read_argument(p) \/ close_unused(p)
                \/ filter_pos_nums(p) \/ calc_avg(p)
             /\ UNCHANGED <<screen, failures, typed, eintr>>
    <3>1. UNCHANGED <<world, screen, failures, typed, eintr>>
      BY <1>2, <2>4
    <3> QED BY <2>4, <3>1, SendType, WaitType, ChildType, ReadTextType,
               ReplyType, SetupType, ReadArgumentType, CloseUnusedType,
               FilterType, CalcType
  <2> QED BY <1>2, <2>1, <2>2, <2>3, <2>4 DEF Runs
<1> QED BY <1>1, <1>2 DEF Next

(* The inductive invariant of the types holds in every state.                *)
LEMMA TypeInvariant == Spec => []TypeInv
BY InitType, NextType, PTL DEF Spec

(* The elements of a sequence.                                               *)
LEMMA ToSetType ==
  ASSUME NEW S, NEW s \in Seq(S)
  PROVE  ToSet(s) \subseteq S
BY DEF ToSet

(* Every process stays in its type, and no program collects descriptors: a   *)
(* round of the echo chamber closes what it has opened, and a process of the *)
(* pipeline has eleven open descriptors at most.                             *)
THEOREM TypeCorrect == Spec => []TypeOK
<1>1. TypeInv => TypeOK
  <2> SUFFICES ASSUME TypeInv
               PROVE  TypeOK
    OBVIOUS
  <2>1. ASSUME NEW p \in Procs
        PROVE  /\ proc[p].pc \in Points
               /\ DOMAIN proc[p].open \subseteq 0..10
               /\ proc[p].pc = "while" => DOMAIN proc[p].open = 0..2
               /\ ToSet(proc[p].buffer \o proc[p].pending) \subseteq Chunks
               /\ proc[p].parent \in 0..MAX_PROCS /\ proc[p].ignored \subseteq Signals
    <3>1. proc[p] \in Processes /\ TableOK(proc[p])
      BY DEF TypeInv
    <3>2. DOMAIN proc[p].open \subseteq 0..10
      BY <3>1, ProcessFacts, TableFacts
    <3>3. proc[p].pc = "while" => DOMAIN proc[p].open = 0..2
      BY <3>1 DEF TableOK, EchoTable, EchoPoints
    <3>4. proc[p].buffer \in Seq(Chunks) /\ proc[p].pending \in Seq(Chunks)
      BY <3>1, ProcessFacts
    <3>5. proc[p].buffer \o proc[p].pending \in Seq(Chunks)
      BY <3>4
    <3>6. ToSet(proc[p].buffer \o proc[p].pending) \subseteq Chunks
      BY <3>5, ToSetType
    <3> QED BY <3>1, <3>2, <3>3, <3>6, ProcessFacts
  <2>2. Ends \subseteq Descriptors
    <3>1. \A p \in Procs : \A f \in DOMAIN proc[p].open :
            proc[p].open[f] \in Descriptors
      BY PipeFacts
    <3> QED BY <3>1, EndsFacts
  <2>3. \A k \in PipeIds : ToSet(content[k]) \subseteq Chunks
    BY ToSetType DEF TypeInv
  <2>4. ToSet(screen) \subseteq Chunks
    BY ToSetType DEF TypeInv
  <2> QED BY <2>1, <2>2, <2>3, <2>4 DEF TypeOK, Descriptors
<1> QED BY <1>1, TypeInvariant, PTL

-------------------------------------------------------------------------------
(* The echo chamber.                                                         *)

(* How often chunk c occurs in s; the rounds up to n of the texts ty that    *)
(* show c; and what is due after n rounds.                                   *)
Count(s, c) == Cardinality({k \in DOMAIN s : s[k] = c})
ShowsIn(ty, k, c) == ty[k] # <<>> /\ upper[ty[k][1]] = c
Rounds(ty, n, c)  == {k \in 1..n : ShowsIn(ty, k, c)}
Repeats(ty, n, c) == {x \in (1..n) \X (1..n) : ShowsIn(ty, x[1], c) /\ x[1] <= x[2]}
Singles(ty, n, c) == {x \in (1..n) \X (1..n) : ShowsIn(ty, x[1], c) /\ x[1] = x[2]}
Shown(ty, n, c)    == Cardinality(Rounds(ty, n, c))
Repeated(ty, n, c) == Cardinality(Repeats(ty, n, c))
Single(ty, n, c)   == Cardinality(Singles(ty, n, c))

(* The rounds whose answer the parent has read.                              *)
Done == IF proc[Main].pc \in {"send", "wait", "answer"}
        THEN Len(typed) - 1 ELSE Len(typed)

(* How often c is in the parent's pending output mine, and has been printed  *)
(* or is in the child's pending output its, after n rounds of the texts ty.  *)
RoundCounts(buf, n, mine, its, scr, ty) ==
  \A c \in DOMAIN upper :
    IF buf THEN /\ Count(mine, c) = Shown(ty, n, c)
                /\ Count(scr, c) + Count(its, c) = Repeated(ty, n, c)
           ELSE Count(scr, c) = Single(ty, n, c)

(* The same for the parent between two rounds, and when it exits.            *)
IdleCounts(buf, pc, mine, scr, ty) ==
  \A c \in DOMAIN upper :
    IF ~buf THEN Count(scr, c) = Single(ty, Len(ty), c)
    ELSE IF pc = "while"
    THEN /\ Count(mine, c) = Shown(ty, Len(ty), c)
         /\ Count(scr, c) = Repeated(ty, Len(ty) - 1, c)
    ELSE Count(scr, c) + Count(mine, c) = Repeated(ty, Len(ty), c)

Others(Q) == \A x \in Procs \ Q : proc[x].pc = "free"
Reply(ty) == get_upper(ty[Len(ty)]) \o <<"NUL">>

(* Between two rounds, or at the end.                                        *)
Idle ==
  /\ proc[Main].pc \in {"while", "exit", "exited"} /\ Others({Main})
  /\ proc[Main].pc # "exited" => proc[Main].open[1] = Terminal
  /\ proc[Main].pc = "exited" => proc[Main].pending = <<>>
  /\ ~buffered => proc[Main].pending = <<>>
  /\ IdleCounts(buffered, proc[Main].pc, proc[Main].pending, screen, typed)

(* In a round, with the child q and the pipes a and b.                       *)
Round(q, a, b) ==
  /\ q # Main /\ a # b /\ Others({Main, q}) /\ proc[q].parent = Main
  /\ proc[Main].pc \in {"get_text", "send", "wait"}
  /\ proc[q].pc \in {"child", "read_text", "reply", "exit"}
  /\ proc[Main].open[1] = Terminal /\ proc[q].open[1] = Terminal
  /\ proc[Main].open[5] = End(b, "r")
  /\ proc[q].pc # "exit" => /\ proc[q].open[3] = End(a, "r")
                            /\ proc[q].open[6] = End(b, "w")
                            /\ content[b] = <<>>
  /\ proc[Main].pc # "wait" => /\ proc[q].pc \in {"child", "read_text"}
                               /\ proc[Main].open[4] = End(a, "w")
                               /\ content[a] = <<>>
  /\ proc[Main].pc # "get_text" => typed # <<>>
  /\ proc[Main].pc = "send" => proc[Main].buffer = typed[Len(typed)]
  /\ proc[Main].pc = "wait" /\ proc[q].pc \in {"child", "read_text"}
       => content[a] = typed[Len(typed)]
  /\ proc[q].pc = "reply" => proc[q].buffer = get_upper(typed[Len(typed)])
  /\ proc[q].pc = "exit" => content[b] = Reply(typed)
  /\ ~buffered => proc[Main].pending = <<>> /\ proc[q].pending = <<>>
  /\ RoundCounts(buffered, Done, proc[Main].pending, proc[q].pending, screen, typed)

(* The child has ended, and its answer is in pipe b.                         *)
Back(b) ==
  /\ proc[Main].pc \in {"wait", "answer"} /\ Others({Main}) /\ typed # <<>>
  /\ proc[Main].open[1] = Terminal /\ proc[Main].open[5] = End(b, "r")
  /\ content[b] = Reply(typed)
  /\ ~buffered => proc[Main].pending = <<>>
  /\ RoundCounts(buffered, Done, proc[Main].pending, <<>>, screen, typed)

EchoInv ==
  program = "echo" /\ failures = 0 /\ ~eintr =>
    \/ Idle
    \/ \E q \in Procs, a, b \in PipeIds : Round(q, a, b)
    \/ \E b \in PipeIds : Back(b)

(* Counting: nothing occurs in the empty sequence ...                        *)
LEMMA CountEmpty ==
  ASSUME NEW c
  PROVE  Count(<<>>, c) = 0
<1>1. {k \in DOMAIN <<>> : <<>>[k] = c} = {}
  OBVIOUS
<1> QED BY <1>1, FS_EmptySet DEF Count

(* a sequence has finitely many occurrences ...                              *)
LEMMA CountNat ==
  ASSUME NEW S, NEW s \in Seq(S), NEW c
  PROVE  /\ Count(s, c) \in Nat /\ IsFiniteSet({k \in DOMAIN s : s[k] = c})
<1>1. DOMAIN s = 1..Len(s) /\ Len(s) \in Nat
  OBVIOUS
<1>2. IsFiniteSet(1..Len(s))
  BY <1>1, FS_Interval
<1>3. {k \in DOMAIN s : s[k] = c} \subseteq 1..Len(s)
  BY <1>1
<1> QED BY <1>2, <1>3, FS_Subset, FS_CardinalityType DEF Count

(* an appended chunk counts ...                                              *)
LEMMA CountAppend ==
  ASSUME NEW S, NEW s \in Seq(S), NEW x \in S, NEW c
  PROVE  Count(Append(s, x), c) = Count(s, c) + IF x = c THEN 1 ELSE 0
<1> DEFINE n == Len(s) + 1
           K == {k \in DOMAIN s : s[k] = c}
           L == {k \in DOMAIN Append(s, x) : Append(s, x)[k] = c}
<1>1. IsFiniteSet(K) /\ Cardinality(K) \in Nat
  BY CountNat DEF Count
<1>2. /\ DOMAIN s = 1..Len(s) /\ Len(s) \in Nat /\ DOMAIN Append(s, x) = 1..n
      /\ n \notin DOMAIN s /\ Append(s, x)[n] = x
      /\ \A k \in 1..Len(s) : Append(s, x)[k] = s[k]
  OBVIOUS
<1>3. CASE x = c
  <2>1. L = K \cup {n} /\ n \notin K
    BY <1>2, <1>3
  <2>2. Cardinality(K \cup {n}) = Cardinality(K) + 1
    <3> HIDE DEF K, n
    <3> QED BY <1>1, <2>1, FS_AddElement
  <2> QED BY <1>3, <2>1, <2>2 DEF Count
<1>4. CASE x # c
  <2>1. L = K
    BY <1>2, <1>4
  <2>2. Count(Append(s, x), c) = Cardinality(L) /\ Count(s, c) = Cardinality(K)
    BY DEF Count
  <2> HIDE DEF K, L
  <2> QED BY <1>1, <1>4, <2>1, <2>2
<1> QED BY <1>3, <1>4

(* and so does the first one.                                                *)
LEMMA CountTail ==
  ASSUME NEW S, NEW s \in Seq(S), s # <<>>, NEW c
  PROVE  /\ Tail(s) \in Seq(S) /\ s[1] \in S
         /\ Count(s, c) = Count(Tail(s), c) + IF s[1] = c THEN 1 ELSE 0
<1> DEFINE t == Tail(s)
           K == {k \in DOMAIN s : s[k] = c}
           L == {k \in DOMAIN t : t[k] = c}
           M == K \ {1}
<1>1. /\ Len(s) \in Nat \ {0} /\ DOMAIN s = 1..Len(s) /\ t \in Seq(S) /\ s[1] \in S
      /\ Len(t) = Len(s) - 1 /\ DOMAIN t = 1..Len(t)
      /\ \A k \in 1..Len(t) : t[k] = s[k + 1]
  OBVIOUS
<1>2. /\ IsFiniteSet(K) /\ IsFiniteSet(L) /\ Cardinality(L) \in Nat
  BY <1>1, CountNat DEF Count
<1>3. IsFiniteSet(M)
  BY <1>2, FS_Subset
<1>4. Cardinality(M) = Cardinality(L)
  <2> DEFINE g == [k \in L |-> k + 1]
  <2>1. \A k \in L : k + 1 \in M
    BY <1>1
  <2>2. \A j \in M : j - 1 \in L /\ j = (j - 1) + 1
    BY <1>1
  <2>3. \A i, j \in L : i + 1 = j + 1 => i = j
    BY <1>1
  <2> HIDE DEF L, M
  <2>4. g \in Bijection(L, M)
    <3>1. g \in [L -> M] /\ IsInjective(g)
      BY <2>1, <2>3 DEF IsInjective
    <3>2. \A j \in M : \E k \in L : g[k] = j
      BY <2>2
    <3> QED BY <3>1, <3>2 DEF Bijection, Injection, Surjection
  <2>5. ExistsBijection(L, M)
    BY <2>4 DEF ExistsBijection
  <2> QED BY <1>2, <2>5, FS_Bijection
<1>5. CASE s[1] = c
  <2>1. K = M \cup {1} /\ 1 \notin M
    BY <1>1, <1>5
  <2>2. Cardinality(M \cup {1}) = Cardinality(M) + 1
    <3> HIDE DEF M
    <3> QED BY <1>3, <2>1, FS_AddElement
  <2> QED BY <1>1, <1>4, <1>5, <2>1, <2>2 DEF Count
<1>6. CASE s[1] # c
  <2>1. K = M
    BY <1>1, <1>6
  <2>2. Count(t, c) = Cardinality(L) /\ Count(s, c) = Cardinality(K)
    BY DEF Count
  <2> HIDE DEF K, L, M
  <2> QED BY <1>1, <1>2, <1>4, <1>6, <2>1, <2>2
<1> QED BY <1>1, <1>5, <1>6

(* The rounds that show a chunk, one round later.                            *)
LEMMA ShownNext ==
  ASSUME NEW ty, NEW n \in Nat, NEW c
  PROVE  /\ IsFiniteSet(Rounds(ty, n, c)) /\ Shown(ty, n, c) \in Nat
         /\ Shown(ty, 0, c) = 0
         /\ Shown(ty, n + 1, c)
              = Shown(ty, n, c) + IF ShowsIn(ty, n + 1, c) THEN 1 ELSE 0
<1> DEFINE A == Rounds(ty, n, c)
           B == Rounds(ty, n + 1, c)
<1>1. IsFiniteSet(A) /\ Cardinality(A) \in Nat
  <2>1. IsFiniteSet(1..n) /\ A \subseteq 1..n
    BY FS_Interval DEF Rounds
  <2> QED BY <2>1, FS_Subset, FS_CardinalityType
<1>2. Rounds(ty, 0, c) = {}
  BY DEF Rounds
<1>3. CASE ShowsIn(ty, n + 1, c)
  <2>1. B = A \cup {n + 1} /\ n + 1 \notin A
    BY <1>3 DEF Rounds
  <2>2. PICK m : m = n + 1
    OBVIOUS
  <2>3. Cardinality(A \cup {m}) = Cardinality(A) + 1
    BY <1>1, <2>1, <2>2, FS_AddElement
  <2> QED BY <1>1, <1>2, <1>3, <2>1, <2>2, <2>3, FS_EmptySet DEF Shown
<1>4. CASE ~ShowsIn(ty, n + 1, c)
  <2>1. B = A
    BY <1>4 DEF Rounds
  <2> QED BY <1>1, <1>2, <1>4, <2>1, FS_EmptySet DEF Shown
<1> QED BY <1>3, <1>4

(* What buffered output is due, one round later.                             *)
LEMMA RepeatedNext ==
  ASSUME NEW ty, NEW n \in Nat, NEW c
  PROVE  /\ Repeated(ty, n, c) \in Nat
         /\ Repeated(ty, 0, c) = 0 /\ Repeated(ty, 0 - 1, c) = 0
         /\ Repeated(ty, n + 1, c) = Repeated(ty, n, c) + Shown(ty, n + 1, c)
<1> DEFINE m == n + 1
           A == Repeats(ty, n, c)
           B == Repeats(ty, m, c)
           R == Rounds(ty, m, c)
           N == {x \in B : x[2] = m}
<1>1. /\ m \in Nat /\ m \notin 1..n /\ 1..m = (1..n) \cup {m} /\ \A k \in 1..n : k < m
  OBVIOUS
<1> HIDE DEF m
<1>2. IsFiniteSet((1..n) \X (1..n)) /\ IsFiniteSet((1..m) \X (1..m))
  <2>1. IsFiniteSet(1..n) /\ IsFiniteSet(1..m)
    BY <1>1, FS_Interval
  <2> QED BY <2>1, FS_Product
<1>3. IsFiniteSet(A) /\ IsFiniteSet(B) /\ IsFiniteSet(N)
  <2>1. A \subseteq (1..n) \X (1..n) /\ B \subseteq (1..m) \X (1..m) /\ N \subseteq B
    BY DEF Repeats
  <2> QED BY <1>2, <2>1, FS_Subset
<1>4. B = A \cup N /\ A \cap N = {}
  <2>1. \A x \in N : x \notin A /\ x \in B
    BY <1>1 DEF Repeats
  <2>2. \A x \in A : x \in B
    BY <1>1 DEF Repeats
  <2>3. ASSUME NEW x \in B, x \notin N
        PROVE  x \in A
    <3>1. /\ x \in (1..m) \X (1..m) /\ x[2] # m /\ ShowsIn(ty, x[1], c)
          /\ x[1] <= x[2]
      BY <2>3 DEF Repeats
    <3>2. x[2] \in 1..n /\ x[1] \in 1..m
      BY <1>1, <3>1
    <3>3. x[1] \in 1..n
      BY <1>1, <3>1, <3>2
    <3>4. x \in (1..n) \X (1..n)
      BY <3>1, <3>2, <3>3
    <3> QED BY <3>1, <3>4 DEF Repeats
  <2> HIDE DEF A, B
  <2> QED BY <2>1, <2>2, <2>3
<1>5. Cardinality(B) = Cardinality(A) + Cardinality(N)
  <2> HIDE DEF A, B, N
  <2>1. Cardinality(A \cap N) = 0 /\ Cardinality(A) \in Nat /\ Cardinality(N) \in Nat
    BY <1>3, <1>4, FS_EmptySet, FS_CardinalityType
  <2>2. Cardinality(A \cup N)
          = Cardinality(A) + Cardinality(N) - Cardinality(A \cap N)
    BY <1>3, FS_Union
  <2> QED BY <1>4, <2>1, <2>2
<1>6. Cardinality(A) \in Nat
  BY <1>3, FS_CardinalityType
<1>7. Repeats(ty, 0, c) = {} /\ Repeats(ty, 0 - 1, c) = {}
  BY DEF Repeats
<1>8. N = {<<k, m>> : k \in R}
  <2>1. ASSUME NEW x \in N
        PROVE  x[1] \in R /\ x = <<x[1], m>>
    BY DEF Repeats, Rounds
  <2>2. ASSUME NEW k \in R
        PROVE  <<k, m>> \in N
    BY <1>1 DEF Repeats, Rounds
  <2> HIDE DEF N, R
  <2> QED BY <2>1, <2>2
<1>9. IsFiniteSet(R)
  BY <1>1, ShownNext
<1> DEFINE g == [k \in R |-> <<k, m>>]
<1>10. g \in Bijection(R, N)
  <2> HIDE DEF R, N
  <2>1. g \in [R -> N] /\ IsInjective(g)
    BY <1>8 DEF IsInjective
  <2>2. \A j \in N : \E k \in R : g[k] = j
    BY <1>8
  <2> QED BY <2>1, <2>2 DEF Bijection, Injection, Surjection
<1>11. Cardinality(N) = Cardinality(R)
  <2>1. ExistsBijection(R, N)
    BY <1>10 DEF ExistsBijection
  <2> QED BY <1>9, <2>1, FS_Bijection
<1> HIDE DEF A, B, R, N
<1> QED BY <1>5, <1>6, <1>7, <1>11, FS_EmptySet DEF Repeated, Shown, A, B, R, m

(* What output without a buffer is due, one round later.                     *)
LEMMA SingleNext ==
  ASSUME NEW ty, NEW n \in Nat, NEW c
  PROVE  /\ Single(ty, n, c) \in Nat /\ Single(ty, 0, c) = 0
         /\ Single(ty, n + 1, c)
              = Single(ty, n, c) + IF ShowsIn(ty, n + 1, c) THEN 1 ELSE 0
<1> DEFINE m == n + 1
           A == Singles(ty, n, c)
           B == Singles(ty, m, c)
           e == <<m, m>>
<1>1. /\ m \in Nat /\ m \notin 1..n /\ 1..m = (1..n) \cup {m}
  OBVIOUS
<1> HIDE DEF m
<1>2. IsFiniteSet(A) /\ Cardinality(A) \in Nat
  <2>1. IsFiniteSet(1..n)
    BY FS_Interval
  <2>2. IsFiniteSet((1..n) \X (1..n))
    BY <2>1, FS_Product
  <2>3. A \subseteq (1..n) \X (1..n)
    BY DEF Singles
  <2> QED BY <2>2, <2>3, FS_Subset, FS_CardinalityType
<1>3. Singles(ty, 0, c) = {}
  BY DEF Singles
<1>4. e \notin A
  BY <1>1 DEF Singles
<1>5. CASE ShowsIn(ty, m, c)
  <2>1. B = A \cup {e}
    <3>1. \A x \in A : x \in B
      BY <1>1 DEF Singles
    <3>2. e \in B
      BY <1>1, <1>5 DEF Singles
    <3>3. \A x \in B : x \in A \/ x = e
      BY <1>1 DEF Singles
    <3> HIDE DEF A, B, e
    <3> QED BY <3>1, <3>2, <3>3
  <2> HIDE DEF A, B, e
  <2>2. Cardinality(A \cup {e}) = Cardinality(A) + 1
    BY <1>2, <1>4, FS_AddElement
  <2> QED BY <1>2, <1>3, <1>5, <2>1, <2>2, FS_EmptySet DEF Single, A, B, m
<1>6. CASE ~ShowsIn(ty, m, c)
  <2>1. B = A
    BY <1>1, <1>6 DEF Singles
  <2> HIDE DEF A, B, e
  <2> QED BY <1>2, <1>3, <1>6, <2>1, FS_EmptySet DEF Single, A, B, m
<1> QED BY <1>5, <1>6

(* A new text does not change what the earlier ones show.                    *)
LEMMA ShownAppend ==
  ASSUME NEW ty \in Seq(Texts), NEW s \in Texts, NEW c,
         NEW n \in Int, n <= Len(ty)
  PROVE  /\ Shown(Append(ty, s), n, c) = Shown(ty, n, c)
         /\ Repeated(Append(ty, s), n, c) = Repeated(ty, n, c)
         /\ Single(Append(ty, s), n, c) = Single(ty, n, c)
<1>1. \A k \in 1..n : ShowsIn(Append(ty, s), k, c) <=> ShowsIn(ty, k, c)
  <2>1. \A k \in 1..n : k \in 1..Len(ty)
    OBVIOUS
  <2>2. \A k \in 1..Len(ty) : Append(ty, s)[k] = ty[k]
    OBVIOUS
  <2> QED BY <2>1, <2>2 DEF ShowsIn
<1>2. Rounds(Append(ty, s), n, c) = Rounds(ty, n, c)
  BY <1>1 DEF Rounds
<1>3. Repeats(Append(ty, s), n, c) = Repeats(ty, n, c)
  BY <1>1 DEF Repeats
<1>4. Singles(Append(ty, s), n, c) = Singles(ty, n, c)
  BY <1>1 DEF Singles
<1> QED BY <1>2, <1>3, <1>4 DEF Shown, Repeated, Single

(* What the child makes of a text, and what the parent makes of that.        *)
LEMMA ReplyFacts ==
  ASSUME NEW s \in Texts
  PROVE  /\ get_upper(s) = IF s = <<>> THEN <<>> ELSE <<upper[s[1]]>>
         /\ as_string(get_upper(s) \o <<"NUL">>) = get_upper(s)
         /\ s # <<>> => upper[s[1]] \in Chunks
         /\ get_upper(s) \o <<"NUL">> # <<>>
<1>1. \A k \in DOMAIN s : s[k] # "NUL"
  BY DEF Texts
<1>2. as_string(s) = s
  <2>1. {k \in DOMAIN s : s[k] = "NUL"} = {}
    BY <1>1
  <2> QED BY <2>1 DEF as_string
<1>3. get_upper(s) = [k \in DOMAIN s |-> toupper(s[k])]
  BY <1>2 DEF get_upper
<1>4. ASSUME NEW u, u # "NUL", u \in Chunks
      PROVE  as_string(<<u>> \o <<"NUL">>) = <<u>>
  <2> DEFINE w == <<u>> \o <<"NUL">>
             N == {k \in DOMAIN w : w[k] = "NUL"}
  <2>1. /\ <<u>> \in Seq(Chunks) /\ <<"NUL">> \in Seq(Chunks)
        /\ Len(<<u>>) = 1 /\ Len(<<"NUL">>) = 1
    BY <1>4 DEF Chunks
  <2>2. w \in Seq(Chunks) /\ Len(w) = 2 /\ w[1] = u /\ w[2] = "NUL"
    BY <2>1, ConcatProperties
  <2> HIDE DEF w
  <2>3. N = {2}
    BY <1>4, <2>2
  <2>4. Min({2}) = 2
    BY MinFacts
  <2>5. as_string(w) = SubSeq(w, 1, 1)
    BY <2>3, <2>4 DEF as_string
  <2>6. SubSeq(w, 1, 1) = <<u>>
    <3>1. /\ SubSeq(w, 1, 1) \in Seq(Chunks) /\ Len(SubSeq(w, 1, 1)) = 1
          /\ SubSeq(w, 1, 1)[1] = u
      BY <2>2
    <3>2. PICK x \in Seq(Chunks) : x = SubSeq(w, 1, 1)
      BY <3>1
    <3>3. Len(x) = 1 /\ \A i \in 1..Len(x) : x[i] = <<u>>[i]
      BY <3>1, <3>2
    <3>4. x = <<u>>
      BY <2>1, <3>3, SeqEqual
    <3> QED BY <3>2, <3>4
  <2> QED BY <2>5, <2>6 DEF w
<1>5. as_string(<<>> \o <<"NUL">>) = <<>>
  <2> DEFINE w == <<>> \o <<"NUL">>
             N == {k \in DOMAIN w : w[k] = "NUL"}
  <2>1. w = <<"NUL">> /\ DOMAIN w = {1} /\ w[1] = "NUL"
    OBVIOUS
  <2>2. N = {1}
    BY <2>1
  <2>3. Min({1}) = 1
    BY MinFacts
  <2>4. as_string(w) = SubSeq(w, 1, 0)
    BY <2>2, <2>3 DEF as_string
  <2> QED BY <2>1, <2>4
<1>6. CASE s = <<>>
  <2>1. get_upper(s) = <<>>
    BY <1>3, <1>6
  <2>2. <<>> \o <<"NUL">> # <<>>
    OBVIOUS
  <2> QED BY <1>5, <1>6, <2>1, <2>2
<1>7. CASE s # <<>>
  <2>1. PICK x \in {"hello", "bye"} : s = <<x>>
    BY <1>7 DEF Texts
  <2>2. PICK u \in {"HELLO", "BYE"} : u = upper[x] /\ toupper(x) = u
    BY DEF upper, toupper
  <2>3. get_upper(s) = <<u>> /\ s[1] = x
    BY <1>3, <2>1, <2>2
  <2>4. u # "NUL" /\ u \in Chunks
    BY DEF Chunks, upper
  <2>5. as_string(<<u>> \o <<"NUL">>) = <<u>>
    BY <1>4, <2>4
  <2>6. <<u>> \o <<"NUL">> # <<>>
    OBVIOUS
  <2>7. upper[s[1]] = u
    BY <2>2, <2>3
  <2> QED BY <1>7, <2>3, <2>4, <2>5, <2>6, <2>7
<1> QED BY <1>6, <1>7

(* What is pending after n rounds is printed in round n + 1 or at the end.   *)
LEMMA RepeatedStep ==
  ASSUME NEW ty, NEW n \in Nat, NEW c
  PROVE  Repeated(ty, n - 1, c) + Shown(ty, n, c) = Repeated(ty, n, c)
<1>1. CASE n = 0
  <2>1. Repeated(ty, 0, c) = 0 /\ Repeated(ty, 0 - 1, c) = 0
    BY RepeatedNext
  <2>2. Shown(ty, 0, c) = 0
    BY ShownNext
  <2> QED BY <1>1, <2>1, <2>2
<1>2. CASE n # 0
  <2>1. PICK m \in Nat : m = n - 1
    BY <1>2
  <2>2. m + 1 = n
    BY <2>1
  <2>3. Repeated(ty, m + 1, c) = Repeated(ty, m, c) + Shown(ty, m + 1, c)
    BY RepeatedNext
  <2> QED BY <2>1, <2>2, <2>3
<1> QED BY <1>1, <1>2

(* A step of p changes no other process, and keeps what it puts into pipes   *)
(* that are open afterwards.                                                 *)
LEMMA StepFacts ==
  ASSUME TypeInv, NEW p \in Procs, NEW r, NEW c, step(p, r, c)
  PROVE  /\ proc'[p] = r /\ \A x \in Procs \ {p} : proc'[x] = proc[x]
         /\ \A k \in PipeIds : content'[k] \in {c[k], <<>>}
         /\ \A k \in PipeIds, x \in Procs : \A f \in DOMAIN proc'[x].open :
              proc'[x].open[f] \in {End(k, "r"), End(k, "w")} => content'[k] = c[k]
<1>1. /\ proc' = [proc EXCEPT ![p] = r] /\ proc \in [Procs -> Processes]
      /\ \A k \in PipeIds : content'[k] =
           IF {End(k, "r"), End(k, "w")} \cap Ends' # {} THEN c[k] ELSE <<>>
  BY DEF step, holding, TypeInv
<1>2. ASSUME NEW k \in PipeIds, NEW x \in Procs, NEW f \in DOMAIN proc'[x].open,
             proc'[x].open[f] \in {End(k, "r"), End(k, "w")}
      PROVE  content'[k] = c[k]
  <2>1. proc'[x].open[f] \in Ends'
    BY DEF Ends, Range
  <2> QED BY <1>1, <1>2, <2>1
<1> QED BY <1>1, <1>2

(* Only a process that runs takes a step.                                    *)
LEMMA Actor ==
  ASSUME NEW p, Runs(p) \/ get_text(p) \/ \E sig \in Signals : handler(p, sig)
  PROVE  proc[p].pc \notin Ended
<1>1. CASE exit_flush(p) \/ answer(p) \/ while(p) \/ fork_coprocess(p)
  BY <1>1 DEF exit_flush, answer, while, fork_coprocess, Ended
<1>2. CASE \/ exit(p) \/ send(p) \/ wait(p) \/ broken_pipe(p)
           \/ child(p) \/ read_text(p) \/ reply(p)
  BY <1>2 DEF exit, send, wait, broken_pipe, child, read_text, reply, Ended
<1>3. CASE \/ setup(p) \/ read_argument(p) \/ close_unused(p)
           \/ filter_pos_nums(p) \/ calc_avg(p)
  BY <1>3 DEF setup, read_argument, close_unused, filter_pos_nums, calc_avg, Ended
<1>4. CASE get_text(p) \/ \E sig \in Signals : handler(p, sig)
  BY <1>4 DEF get_text, handler, Alive, Ended
<1> QED BY <1>1, <1>2, <1>3, <1>4 DEF Runs

(* A write to the terminal, or to a pipe with a reader, ends no process.     *)
LEMMA NotBroken ==
  ASSUME NEW p, NEW f,
         \/ proc[p].open[f] = Terminal
         \/ \E x \in Procs : \E g \in DOMAIN proc[x].open :
              proc[x].open[g] = End(PipeOf(p, f), "r")
  PROVE  ~SIGPIPE(p, f)
<1>1. CASE proc[p].open[f] = Terminal
  BY <1>1 DEF SIGPIPE, PipeOf, Terminal, End
<1>2. CASE \E x \in Procs : \E g \in DOMAIN proc[x].open :
              proc[x].open[g] = End(PipeOf(p, f), "r")
  BY <1>2, EndsFacts DEF SIGPIPE, HasReader
<1> QED BY <1>1, <1>2

(* The counts when the parent leaves the loop, when it writes a pending      *)
(* chunk, and when it forks.                                                 *)
LEMMA CountsLeave ==
  ASSUME NEW buf \in BOOLEAN, NEW mine, NEW scr, NEW ty \in Seq(Texts),
         IdleCounts(buf, "while", mine, scr, ty)
  PROVE  /\ IdleCounts(buf, "exit", mine, scr, ty)
         /\ RoundCounts(buf, Len(ty), mine, mine, scr, ty)
<1>1. Len(ty) \in Nat
  OBVIOUS
<1>2. \A c : Repeated(ty, Len(ty) - 1, c) + Shown(ty, Len(ty), c)
             = Repeated(ty, Len(ty), c)
  BY <1>1, RepeatedStep
<1> QED BY <1>2, Zenon DEF IdleCounts, RoundCounts

(* What leaves the pending output arrives on the screen.                     *)
LEMMA FlushCounts ==
  ASSUME NEW pend \in Seq(Chunks), pend # <<>>, NEW scr \in Seq(Chunks), NEW c
  PROVE  Count(scr \o SubSeq(pend, 1, 1), c) + Count(Tail(pend), c)
           = Count(scr, c) + Count(pend, c)
<1>1. /\ Tail(pend) \in Seq(Chunks) /\ pend[1] \in Chunks
      /\ Count(pend, c) = Count(Tail(pend), c) + IF pend[1] = c THEN 1 ELSE 0
  BY CountTail
<1>2. scr \o SubSeq(pend, 1, 1) = Append(scr, pend[1])
  OBVIOUS
<1>3. Count(Append(scr, pend[1]), c) = Count(scr, c) + IF pend[1] = c THEN 1 ELSE 0
  BY <1>1, CountAppend
<1>4. Count(scr, c) \in Nat /\ Count(Tail(pend), c) \in Nat
  BY <1>1, CountNat
<1>5. PICK n \in Nat, m \in Nat, d \in Nat :
        /\ n = Count(scr, c) /\ m = Count(Tail(pend), c)
        /\ d = IF pend[1] = c THEN 1 ELSE 0
  BY <1>4
<1>6. Count(pend, c) = m + d
  BY <1>1, <1>5
<1>7. Count(scr \o SubSeq(pend, 1, 1), c) = n + d
  BY <1>2, <1>3, <1>5
<1>8. (n + d) + m = n + (m + d)
  OBVIOUS
<1> QED BY <1>5, <1>6, <1>7, <1>8

(* Printing what is pending does not change what is pending and printed      *)
(* together.                                                                 *)
LEMMA CountsFlush ==
  ASSUME NEW buf \in BOOLEAN, buf,
         NEW pend \in Seq(Chunks), pend # <<>>, NEW scr \in Seq(Chunks), NEW ty
  PROVE  /\ IdleCounts(buf, "exit", pend, scr, ty) =>
              IdleCounts(buf, "exit", Tail(pend), scr \o SubSeq(pend, 1, 1), ty)
         /\ \A n, mine : RoundCounts(buf, n, mine, pend, scr, ty) =>
              RoundCounts(buf, n, mine, Tail(pend), scr \o SubSeq(pend, 1, 1), ty)
<1>1. \A c : Count(scr \o SubSeq(pend, 1, 1), c) + Count(Tail(pend), c)
             = Count(scr, c) + Count(pend, c)
  BY FlushCounts
<1>2. "exit" # "while"
  OBVIOUS
<1> QED BY <1>1, <1>2, Zenon DEF IdleCounts, RoundCounts

(* A new text does not change the counts.                                    *)
LEMMA CountsText ==
  ASSUME NEW buf \in BOOLEAN, NEW mine, NEW its, NEW scr, NEW ty \in Seq(Texts),
         NEW s \in Texts, RoundCounts(buf, Len(ty), mine, its, scr, ty)
  PROVE  RoundCounts(buf, Len(ty), mine, its, scr, Append(ty, s))
<1>1. Len(ty) \in Int /\ Len(ty) <= Len(ty)
  OBVIOUS
<1>2. \A c :
        /\ Shown(Append(ty, s), Len(ty), c) = Shown(ty, Len(ty), c)
        /\ Repeated(Append(ty, s), Len(ty), c) = Repeated(ty, Len(ty), c)
        /\ Single(Append(ty, s), Len(ty), c) = Single(ty, Len(ty), c)
  BY <1>1, ShownAppend
<1> QED BY <1>2, Zenon DEF RoundCounts

(* The answer of the last round is printed, or becomes pending.              *)
LEMMA CountsAnswer ==
  ASSUME NEW buf \in BOOLEAN, NEW mine \in Seq(Chunks), NEW scr \in Seq(Chunks),
         NEW ty \in Seq(Texts), ty # <<>>,
         NEW u, u = get_upper(ty[Len(ty)]),
         RoundCounts(buf, Len(ty) - 1, mine, <<>>, scr, ty)
  PROVE  /\ buf => IdleCounts(buf, "while", mine \o u, scr, ty)
         /\ ~buf => IdleCounts(buf, "while", mine, scr \o u, ty)
<1>1. PICK n \in Nat : n = Len(ty) - 1 /\ n + 1 = Len(ty) /\ ty[n + 1] \in Texts
  <2>1. Len(ty) \in Nat \ {0}
    OBVIOUS
  <2>2. PICK n \in Nat : n = Len(ty) - 1
    BY <2>1
  <2> QED BY <2>1, <2>2
<1>2. \A c : ShowsIn(ty, n + 1, c) <=> u # <<>> /\ u[1] = c
  <2>1. u = IF ty[n + 1] = <<>> THEN <<>> ELSE <<upper[ty[n + 1][1]]>>
    BY <1>1, ReplyFacts
  <2>2. CASE ty[n + 1] = <<>>
    BY <2>1, <2>2 DEF ShowsIn
  <2>3. CASE ty[n + 1] # <<>>
    <3>1. u = <<upper[ty[n + 1][1]]>>
      BY <2>1, <2>3
    <3>2. u # <<>> /\ u[1] = upper[ty[n + 1][1]]
      BY <3>1
    <3> QED BY <2>3, <3>2 DEF ShowsIn
  <2> QED BY <2>2, <2>3
<1>3. u = <<>> \/ \E x \in Chunks : u = <<x>>
  BY <1>1, ReplyFacts
<1>4. ASSUME NEW c, NEW t \in Seq(Chunks)
      PROVE  Count(t \o u, c) = Count(t, c) + IF ShowsIn(ty, n + 1, c) THEN 1 ELSE 0
  <2>0. Count(t, c) \in Nat
    BY CountNat
  <2>1. CASE u = <<>>
    <3>1. t \o u = t
      BY <2>1
    <3> QED BY <1>2, <2>0, <2>1, <3>1
  <2>2. ASSUME NEW x \in Chunks, u = <<x>>
        PROVE  Count(t \o u, c) = Count(t, c) + IF ShowsIn(ty, n + 1, c) THEN 1 ELSE 0
    <3>1. t \o u = Append(t, x) /\ u # <<>> /\ u[1] = x
      BY <2>2
    <3>2. Count(Append(t, x), c) = Count(t, c) + IF x = c THEN 1 ELSE 0
      BY CountAppend
    <3> QED BY <1>2, <3>1, <3>2
  <2> QED BY <1>3, <2>1, <2>2
<1>5. ASSUME buf, NEW c \in DOMAIN upper
      PROVE  /\ Count(mine \o u, c) = Shown(ty, Len(ty), c)
             /\ Count(scr, c) = Repeated(ty, Len(ty) - 1, c)
  <2>1. /\ Count(mine, c) = Shown(ty, n, c)
        /\ Count(scr, c) + Count(<<>>, c) = Repeated(ty, n, c)
    BY <1>1, <1>5 DEF RoundCounts
  <2>2. Count(<<>>, c) = 0 /\ Count(scr, c) \in Nat
    BY CountEmpty, CountNat
  <2>3. Shown(ty, n + 1, c) = Shown(ty, n, c) + IF ShowsIn(ty, n + 1, c) THEN 1 ELSE 0
    BY ShownNext
  <2>4. Count(mine \o u, c) = Count(mine, c) + IF ShowsIn(ty, n + 1, c) THEN 1 ELSE 0
    BY <1>4
  <2> QED BY <1>1, <2>1, <2>2, <2>3, <2>4
<1>6. ASSUME ~buf, NEW c \in DOMAIN upper
      PROVE  Count(scr \o u, c) = Single(ty, Len(ty), c)
  <2>1. Count(scr, c) = Single(ty, n, c)
    BY <1>1, <1>6 DEF RoundCounts
  <2>2. Single(ty, n + 1, c)
          = Single(ty, n, c) + IF ShowsIn(ty, n + 1, c) THEN 1 ELSE 0
    BY SingleNext
  <2>3. Count(scr \o u, c) = Count(scr, c) + IF ShowsIn(ty, n + 1, c) THEN 1 ELSE 0
    BY <1>4
  <2> QED BY <1>1, <2>1, <2>2, <2>3
<1> QED BY <1>5, <1>6, Zenon DEF IdleCounts

(* The facts about a process of the echo chamber that its steps need.        *)
LEMMA EchoFacts ==
  ASSUME TypeInv, program = "echo"
  PROVE  /\ Main \in Procs /\ proc \in [Procs -> Processes]
         /\ content \in [PipeIds -> Seq(Chunks)] /\ screen \in Seq(Chunks)
         /\ typed \in Seq(Texts) /\ buffered \in BOOLEAN
         /\ \A p \in Procs :
              /\ proc[p] \in Processes /\ EchoTable(proc[p])
              /\ proc[p].pc \notin PipelinePoints
              /\ proc[p].pc \notin Ended => 0..2 \subseteq DOMAIN proc[p].open
              /\ proc[p].pc \in Ended => proc[p].parent = 0 /\ DOMAIN proc[p].open = {}
<1>1. Main \in Procs
  BY SizesAssumption DEF Main, Procs
<1>2. DOMAIN Free.open = {}
  BY FreeFacts DEF Ended
<1>3. program # "pipeline"
  OBVIOUS
<1> QED BY <1>1, <1>2, <1>3 DEF TypeInv, TableOK

(* The parent leaves the loop, or begins a round with a new child.           *)
LEMMA IdleWhile ==
  ASSUME TypeInv, program = "echo", Idle, while(Main), UNCHANGED world,
         failures = 0, failures' = 0
  PROVE  Idle' \/ \E q \in Procs, a, b \in PipeIds : Round(q, a, b)'
<1>1. /\ proc[Main] \in Processes /\ proc[Main].pc = "while" /\ Main \in Procs
      /\ DOMAIN proc[Main].open = 0..2 /\ proc \in [Procs -> Processes]
      /\ UNCHANGED <<buffered, content, screen, typed, eintr>>
      /\ typed \in Seq(Texts) /\ buffered \in BOOLEAN
  BY EchoFacts DEF while, EchoTable, world
<1>2. /\ IdleCounts(buffered, "while", proc[Main].pending, screen, typed)
      /\ proc[Main].open[1] = Terminal /\ (~buffered => proc[Main].pending = <<>>)
      /\ \A x \in Procs \ {Main} : proc[x].pc = "free"
  BY <1>1 DEF Idle, Others
<1>3. /\ IdleCounts(buffered, "exit", proc[Main].pending, screen, typed)
      /\ RoundCounts(buffered, Len(typed), proc[Main].pending, proc[Main].pending,
                     screen, typed)
  <2>1. PICK m : m = proc[Main].pending
    OBVIOUS
  <2> QED BY <1>1, <1>2, <2>1, CountsLeave
<1>4. CASE proc' = [proc EXCEPT ![Main].pc = "exit"]
  <2>1. /\ proc'[Main].pc = "exit" /\ proc'[Main].open = proc[Main].open
        /\ proc'[Main].pending = proc[Main].pending
        /\ \A x \in Procs \ {Main} : proc'[x].pc = "free"
    BY <1>1, <1>2, <1>4 DEF Processes
  <2> QED BY <1>1, <1>2, <1>3, <2>1 DEF Idle, Others
<1>5. CASE /\ Cardinality(Unused) >= 2
           /\ fork(Main, two_pipes(proc[Main]), "get_text", "child", "exit")
  <2>1. PICK r \in Processes : r = two_pipes(proc[Main])
    BY <1>1, <1>5, TwoPipesFacts
  <2>2. PICK a, b \in Unused :
         /\ a # b /\ r.pending = proc[Main].pending
         /\ DOMAIN r.open = 0..6 /\ \A f \in 0..2 : r.open[f] = proc[Main].open[f]
         /\ r.open[3] = End(a, "r") /\ r.open[4] = End(a, "w")
         /\ r.open[5] = End(b, "r") /\ r.open[6] = End(b, "w")
    BY <1>1, <1>5, <2>1, TwoPipesFacts
  <2>3. PICK q \in Procs : Forked(Main, q, r, "get_text", "child")
    <3>1. fork(Main, r, "get_text", "child", "exit")
      BY <1>5, <2>1
    <3>2. \/ \E q \in Procs : Forked(Main, q, r, "get_text", "child")
          \/ ForkFailed(Main, r, "exit")
      BY <3>1, ForkFacts
    <3>3. ~ForkFailed(Main, r, "exit")
      BY DEF ForkFailed
    <3> QED BY <3>2, <3>3
  <2>4. q # Main
    BY <1>1, <2>3 DEF Forked
  <2>5. /\ proc'[Main] = [r EXCEPT !.pc = "get_text"]
        /\ proc'[q] = [r EXCEPT !.pc = "child", !.parent = Main]
        /\ \A x \in Procs \ {Main, q} : proc'[x] = proc[x]
    BY <1>1, <2>3, <2>4 DEF Forked
  <2>6. /\ proc'[Main].pc = "get_text" /\ proc'[Main].open = r.open
        /\ proc'[Main].pending = r.pending
        /\ proc'[q].pc = "child" /\ proc'[q].open = r.open
        /\ proc'[q].pending = r.pending /\ proc'[q].parent = Main
    BY <2>5 DEF Processes
  <2>7. /\ a \in PipeIds /\ b \in PipeIds /\ content[a] = <<>> /\ content[b] = <<>>
    BY DEF Unused, TypeInv, Held, HasReader, HasWriter
  <2>8. \A x \in Procs \ {Main, q} : proc'[x].pc = "free"
    BY <1>2, <2>5
  <2>9. RoundCounts(buffered, Len(typed), r.pending, r.pending, screen, typed)
    BY <1>3, <2>2
  <2>10. r.open[1] = Terminal /\ (~buffered => r.pending = <<>>)
    BY <1>2, <2>2
  <2>11. Done' = Len(typed)
    BY <1>1, <2>6 DEF Done
  <2>12. Round(q, a, b)'
    BY <1>1, <2>2, <2>4, <2>6, <2>7, <2>8, <2>9, <2>10, <2>11 DEF Round, Others
  <2> QED BY <2>7, <2>12
<1> QED BY <1>4, <1>5, WhileCases

(* The parent writes what is pending, and exits.                             *)
LEMMA IdleExit ==
  ASSUME TypeInv, program = "echo", Idle, exit_flush(Main) \/ exit(Main),
         UNCHANGED world, UNCHANGED typed, exit(Main) => UNCHANGED screen
  PROVE  Idle'
<1> DEFINE pend == proc[Main].pending
<1>1. /\ proc[Main] \in Processes /\ proc[Main].pc = "exit" /\ Main \in Procs
      /\ proc \in [Procs -> Processes] /\ pend \in Seq(Chunks)
      /\ UNCHANGED <<buffered, typed>> /\ screen \in Seq(Chunks)
      /\ buffered \in BOOLEAN
  BY EchoFacts DEF exit_flush, exit, world, Processes
<1>2. /\ IdleCounts(buffered, "exit", pend, screen, typed)
      /\ proc[Main].open[1] = Terminal /\ (~buffered => pend = <<>>)
      /\ \A x \in Procs \ {Main} : proc[x].pc = "free"
  BY <1>1 DEF Idle, Others
<1>3. PipeOf(Main, STDOUT) = 0
  BY <1>2 DEF PipeOf, STDOUT, Terminal, End
<1>4. CASE exit_flush(Main)
  <2> DEFINE r == [proc[Main] EXCEPT !.pending = Tail(@)]
  <2>1. /\ pend # <<>> /\ screen' = screen \o SubSeq(pend, 1, 1)
        /\ step(Main, r, content)
    BY <1>3, <1>4 DEF exit_flush
  <2>2. proc'[Main] = r /\ \A x \in Procs \ {Main} : proc'[x] = proc[x]
    BY <1>1, <2>1, StepFacts
  <2>3. /\ proc'[Main].pc = "exit" /\ proc'[Main].open = proc[Main].open
        /\ proc'[Main].pending = Tail(pend)
    BY <1>1, <2>2 DEF Processes
  <2>4. buffered
    BY <1>2, <2>1
  <2>5. IdleCounts(buffered, "exit", Tail(pend), screen \o SubSeq(pend, 1, 1), typed)
    <3> HIDE DEF pend
    <3> QED BY <1>1, <1>2, <2>1, <2>4, CountsFlush
  <2>6. \A x \in Procs \ {Main} : proc'[x].pc = "free"
    BY <1>2, <2>2
  <2> HIDE DEF pend
  <2> QED BY <1>1, <1>2, <2>1, <2>3, <2>4, <2>5, <2>6 DEF Idle, Others
<1>5. CASE exit(Main)
  <2>1. ends(Main, "exited") /\ pend = <<>> /\ UNCHANGED screen
    BY <1>5 DEF exit
  <2>2. /\ proc'[Main] = [Free EXCEPT !.pc = "exited"]
        /\ \A x \in Procs \ {Main} : proc'[x].pc = proc[x].pc
    <3>1. \A x \in Procs : [proc[x] EXCEPT !.parent = 0].pc = proc[x].pc
      BY <1>1 DEF Processes
    <3> QED BY <1>1, <2>1, <3>1 DEF ends
  <2>3. proc'[Main].pc = "exited" /\ proc'[Main].pending = <<>>
    BY <2>2 DEF Free
  <2>4. \A x \in Procs \ {Main} : proc'[x].pc = "free"
    BY <1>2, <2>2
  <2>5. IdleCounts(buffered, "exited", <<>>, screen, typed)
    BY <1>2, <2>1, Zenon DEF IdleCounts
  <2> QED BY <1>1, <2>1, <2>3, <2>4, <2>5 DEF Idle, Others
<1> QED BY <1>4, <1>5

(* What the invariant reads of a state.                                      *)
Noticed(p) ==
  /\ proc'[p].pc = proc[p].pc /\ proc'[p].open = proc[p].open
  /\ proc'[p].buffer = proc[p].buffer /\ proc'[p].pending = proc[p].pending
  /\ proc'[p].parent = proc[p].parent

(* A handler that interrupts no call changes nothing the invariant reads.    *)
LEMMA EchoHandler ==
  ASSUME TypeInv, program = "echo", NEW p \in Procs, NEW sig, handler(p, sig),
         ~eintr', UNCHANGED world
  PROVE  /\ Idle => Idle'
         /\ \A q \in Procs, a, b \in PipeIds : Round(q, a, b) => Round(q, a, b)'
         /\ \A b \in PipeIds : Back(b) => Back(b)'
<1> DEFINE r == [proc[p] EXCEPT !.ignored = @ \cup {sig}]
<1>1. /\ step(p, r, content) /\ UNCHANGED <<screen, typed>>
      /\ UNCHANGED buffered
  BY DEF handler, world
<1>2. /\ proc \in [Procs -> Processes] /\ content \in [PipeIds -> Seq(Chunks)]
      /\ Main \in Procs
  BY EchoFacts
<1>3. proc'[p] = r /\ \A x \in Procs \ {p} : proc'[x] = proc[x]
  BY <1>1, StepFacts
<1>4. \A x \in Procs : Noticed(x)
  <2>1. Noticed(p)
    BY <1>2, <1>3 DEF Noticed, Processes
  <2> QED BY <1>3, <2>1 DEF Noticed
<1>5. Ends' = Ends
  BY <1>4 DEF Ends, Range, Noticed
<1>6. content' = content
  <2>1. \A k \in PipeIds : content'[k] = content[k]
    BY <1>1, <1>5 DEF step, holding, TypeInv, Held
  <2> QED BY <1>1, <1>2, <2>1 DEF step, holding
<1>7. Done' = Done
  BY <1>1, <1>2, <1>4 DEF Done, Noticed
<1>8. \A Q \in SUBSET Procs : Others(Q) => Others(Q)'
  BY <1>4 DEF Others, Noticed
<1> HIDE DEF r
<1>9. Idle => Idle'
  BY <1>1, <1>2, <1>4, <1>8 DEF Idle, Noticed
<1>10. \A q \in Procs, a, b \in PipeIds : Round(q, a, b) => Round(q, a, b)'
  <2> SUFFICES ASSUME NEW q \in Procs, NEW a \in PipeIds, NEW b \in PipeIds,
                      Round(q, a, b)
               PROVE  Round(q, a, b)'
    OBVIOUS
  <2>1. Noticed(Main) /\ Noticed(q)
    BY <1>2, <1>4
  <2>2. Others({Main, q})'
    BY <1>2, <1>8 DEF Round
  <2> QED BY <1>1, <1>6, <1>7, <2>1, <2>2 DEF Round, Noticed
<1>11. \A b \in PipeIds : Back(b) => Back(b)'
  BY <1>1, <1>2, <1>4, <1>6, <1>7, <1>8 DEF Back, Noticed
<1> QED BY <1>9, <1>10, <1>11

(* The descriptors D that a process keeps when it closes others.             *)
Keeps(t, u, D) ==
  t \in Table /\ DOMAIN t = D /\ \A f \in D : t[f] = u[f]

(* A process that closes the descriptors in F keeps the others.              *)
LEMMA Closed ==
  ASSUME NEW r \in Processes, NEW F, NEW D, DOMAIN r.open \ F = D
  PROVE  Keeps(close(r.open, F), r.open, D)
<1>1. PICK u \in Table : u = r.open
  BY ProcessFacts
<1>2. /\ close(u, F) \in Table /\ DOMAIN close(u, F) = DOMAIN u \ F
      /\ \A f \in DOMAIN u \ F : close(u, F)[f] = u[f]
  BY CloseFacts
<1> QED BY <1>1, <1>2 DEF Keeps

(* The parent reads a text.                                                  *)
LEMMA RoundText ==
  ASSUME TypeInv, program = "echo", NEW q \in Procs, NEW a \in PipeIds,
         NEW b \in PipeIds, Round(q, a, b), get_text(Main), UNCHANGED world
  PROVE  Round(q, a, b)'
<1>1. /\ proc[Main] \in Processes /\ proc[Main].pc = "get_text" /\ Main \in Procs
      /\ proc[Main].fd[0] = <<3, 4>> /\ proc[Main].fd[1] = <<5, 6>>
      /\ DOMAIN proc[Main].open = 0..6 /\ proc[Main].open \in Table
      /\ typed \in Seq(Texts) /\ buffered \in BOOLEAN
      /\ UNCHANGED <<screen, buffered>> /\ q # Main
  BY EchoFacts, ProcessFacts DEF get_text, EchoTable, world, Round
<1> DEFINE F == {proc[Main].fd[0][1], proc[Main].fd[1][2]}
           t == close(proc[Main].open, F)
<1>2. PICK s \in Texts :
        /\ step(Main, [proc[Main] EXCEPT !.pc = "send", !.buffer = s, !.open = t],
                content)
        /\ typed' = Append(typed, s)
  BY Zenon DEF get_text
<1>3. F = {3, 6} /\ 0..6 \ {3, 6} = {0, 1, 2, 4, 5}
  BY <1>1
<1> HIDE DEF F
<1>4. t \in Table /\ \A f \in {0, 1, 2, 4, 5} : t[f] = proc[Main].open[f]
  <2>1. DOMAIN proc[Main].open \ F = {0, 1, 2, 4, 5}
    BY <1>1, <1>3
  <2>2. Keeps(t, proc[Main].open, {0, 1, 2, 4, 5})
    BY <1>1, <2>1, Closed
  <2> HIDE DEF t
  <2> QED BY <2>2 DEF Keeps
<1> HIDE DEF t
<1>5. /\ proc'[Main] = [proc[Main] EXCEPT !.pc = "send", !.buffer = s, !.open = t]
      /\ \A x \in Procs \ {Main} : proc'[x] = proc[x]
      /\ \A k \in PipeIds : content'[k] \in {content[k], <<>>}
  BY <1>1, <1>2, StepFacts
<1>6. /\ proc'[Main].pc = "send" /\ proc'[Main].buffer = s /\ proc'[Main].open = t
      /\ proc'[Main].pending = proc[Main].pending
  BY <1>1, <1>4, <1>5 DEF Processes
<1>7. proc'[q] = proc[q] /\ proc[q].pc \in {"child", "read_text"}
  BY <1>1, <1>5 DEF Round
<1>8. content'[a] = <<>> /\ content'[b] = <<>>
  BY <1>1, <1>5, <1>7 DEF Round
<1>9. /\ typed' # <<>> /\ typed'[Len(typed')] = s /\ Len(typed') = Len(typed) + 1
  BY <1>1, <1>2
<1>10. Done' = Len(typed) /\ Done = Len(typed)
  BY <1>1, <1>6, <1>9 DEF Done
<1>11. RoundCounts(buffered, Len(typed), proc[Main].pending, proc[q].pending,
                   screen, Append(typed, s))
  <2>1. RoundCounts(buffered, Len(typed), proc[Main].pending, proc[q].pending,
                    screen, typed)
    BY <1>10 DEF Round
  <2>2. PICK m, i : m = proc[Main].pending /\ i = proc[q].pending
    OBVIOUS
  <2> QED BY <1>1, <2>1, <2>2, CountsText
<1>12. Others({Main, q})'
  BY <1>5 DEF Round, Others
<1>13. RoundCounts(buffered, Done, proc[Main].pending, proc[q].pending, screen, typed)'
  BY <1>1, <1>2, <1>6, <1>7, <1>10, <1>11
<1> QED BY <1>1, <1>4, <1>6, <1>7, <1>8, <1>9, <1>12, <1>13 DEF Round

(* The parent sends the text to the child, which has its pipe open.          *)
LEMMA RoundSend ==
  ASSUME TypeInv, program = "echo", NEW q \in Procs, NEW a \in PipeIds,
         NEW b \in PipeIds, Round(q, a, b), send(Main),
         UNCHANGED <<world, screen, typed>>
  PROVE  Round(q, a, b)'
<1>1. /\ proc[Main] \in Processes /\ proc[Main].pc = "send" /\ Main \in Procs
      /\ proc[Main].fd[0] = <<3, 4>> /\ proc[Main].fd[1] = <<5, 6>>
      /\ DOMAIN proc[Main].open = {0, 1, 2, 4, 5} /\ proc[Main].open \in Table
      /\ typed \in Seq(Texts) /\ content \in [PipeIds -> Seq(Chunks)]
      /\ UNCHANGED <<screen, buffered, typed>> /\ q # Main
  <2>1. /\ proc[Main] \in Processes /\ proc[Main].pc = "send" /\ Main \in Procs
        /\ EchoTable(proc[Main])
    BY EchoFacts DEF send
  <2>2. DOMAIN proc[Main].open = {0, 1, 2, 4, 5}
    BY <2>1 DEF EchoTable
  <2> QED BY <2>1, <2>2, EchoFacts, ProcessFacts DEF EchoTable, world, Round
<1> DEFINE t == close(proc[Main].open, {4})
<1>3. t \in Table /\ \A f \in {0, 1, 2, 5} : t[f] = proc[Main].open[f]
  <2>1. DOMAIN proc[Main].open \ {4} = {0, 1, 2, 5}
    BY <1>1
  <2>2. Keeps(t, proc[Main].open, {0, 1, 2, 5})
    BY <1>1, <2>1, Closed
  <2> HIDE DEF t
  <2> QED BY <2>2 DEF Keeps
<1> HIDE DEF t
<1>4. /\ proc[Main].open[4] = End(a, "w") /\ content[a] = <<>>
      /\ proc[q].pc \in {"child", "read_text"} /\ content[b] = <<>> /\ a # b
      /\ proc[q].open[3] = End(a, "r") /\ typed # <<>>
      /\ proc[Main].buffer = typed[Len(typed)]
  BY <1>1 DEF Round
<1> DEFINE r == [proc[Main] EXCEPT !.pc = "wait", !.open = t]
<1>5. PICK c : /\ step(Main, r, c) /\ c[a] = proc[Main].buffer /\ c[b] = <<>>
  <2>1. PipeOf(Main, 4) = a
    BY <1>4 DEF PipeOf, End
  <2>2. PICK f : f = proc[Main].fd[0][2] /\ f = 4
    BY <1>1
  <2>3. CASE step(Main, r, content) /\ proc[Main].buffer = <<>>
    BY <1>4, <2>3
  <2>4. CASE step(Main, r, sent(content, Main, f, proc[Main].buffer))
    <3>1. proc[Main].buffer \in Seq(Chunks)
      BY <1>1, ProcessFacts
    <3>2. <<>> \o proc[Main].buffer = proc[Main].buffer
      BY <3>1
    <3>3. /\ sent(content, Main, f, proc[Main].buffer)[a] = proc[Main].buffer
          /\ sent(content, Main, f, proc[Main].buffer)[b] = <<>>
      BY <1>1, <1>4, <2>1, <2>2, <3>2 DEF sent
    <3> QED BY <2>4, <3>3
  <2>5. IsOpen(Main, f)
    BY <1>1, <2>2 DEF IsOpen
  <2> QED BY <2>2, <2>3, <2>4, <2>5 DEF send, t
<1>6. /\ proc'[Main] = r /\ \A x \in Procs \ {Main} : proc'[x] = proc[x]
      /\ \A k \in PipeIds : content'[k] \in {c[k], <<>>}
      /\ \A k \in PipeIds, x \in Procs : \A f \in DOMAIN proc'[x].open :
              proc'[x].open[f] \in {End(k, "r"), End(k, "w")} => content'[k] = c[k]
  BY <1>1, <1>5, StepFacts
<1>7. /\ proc'[Main].pc = "wait" /\ proc'[Main].open = t
      /\ proc'[Main].pending = proc[Main].pending
  BY <1>1, <1>3, <1>6 DEF Processes
<1>8. proc'[q] = proc[q]
  BY <1>1, <1>6
<1>9. content'[a] = typed[Len(typed)] /\ content'[b] = <<>>
  <2>1. 3 \in DOMAIN proc'[q].open
    <3>1. EchoTable(proc[q])
      BY EchoFacts
    <3> QED BY <1>4, <1>8, <3>1 DEF EchoTable
  <2>2. content'[a] = c[a]
    BY <1>4, <1>6, <1>8, <2>1
  <2> QED BY <1>4, <1>5, <1>6, <2>2
<1>10. Done' = Done
  BY <1>1, <1>7 DEF Done
<1>11. Others({Main, q})'
  BY <1>6 DEF Round, Others
<1> QED BY <1>1, <1>3, <1>4, <1>7, <1>8, <1>9, <1>10, <1>11 DEF Round

(* The child closes the ends of the pipes that belong to the parent.         *)
LEMMA RoundChild ==
  ASSUME TypeInv, program = "echo", NEW q \in Procs, NEW a \in PipeIds,
         NEW b \in PipeIds, Round(q, a, b), child(q),
         UNCHANGED <<world, screen, typed>>
  PROVE  Round(q, a, b)'
<1>1. /\ proc[q] \in Processes /\ proc[q].pc = "child" /\ Main \in Procs
      /\ proc[q].fd[0] = <<3, 4>> /\ proc[q].fd[1] = <<5, 6>>
      /\ DOMAIN proc[q].open = 0..6 /\ q # Main
      /\ UNCHANGED <<screen, buffered, typed>>
  BY EchoFacts DEF child, EchoTable, world, Round
<1> DEFINE F == {proc[q].fd[0][2], proc[q].fd[1][1]}
           t == close(proc[q].open, F)
<1>2. step(q, [proc[q] EXCEPT !.pc = "read_text", !.open = t], content)
  BY Zenon DEF child
<1>3. F = {4, 5} /\ 0..6 \ {4, 5} = {0, 1, 2, 3, 6}
  BY <1>1
<1> HIDE DEF F
<1>4. Keeps(t, proc[q].open, {0, 1, 2, 3, 6})
  <2>1. DOMAIN proc[q].open \ F = {0, 1, 2, 3, 6}
    BY <1>1, <1>3
  <2> QED BY <1>1, <2>1, Closed
<1> HIDE DEF t
<1>5. /\ proc'[q] = [proc[q] EXCEPT !.pc = "read_text", !.open = t]
      /\ \A x \in Procs \ {q} : proc'[x] = proc[x]
      /\ \A k \in PipeIds : content'[k] \in {content[k], <<>>}
      /\ \A k \in PipeIds, x \in Procs : \A f \in DOMAIN proc'[x].open :
           proc'[x].open[f] \in {End(k, "r"), End(k, "w")} => content'[k] = content[k]
  BY <1>2, StepFacts
<1>6. /\ proc'[q].pc = "read_text" /\ proc'[q].open = t
      /\ proc'[q].pending = proc[q].pending /\ proc'[q].parent = proc[q].parent
  BY <1>1, <1>4, <1>5 DEF Processes, Keeps
<1>7. proc'[Main] = proc[Main]
  BY <1>1, <1>5
<1>8. /\ 3 \in DOMAIN t /\ t[1] = Terminal /\ t[3] = End(a, "r")
      /\ t[6] = End(b, "w")
  BY <1>1, <1>4 DEF Keeps, Round
<1>9. content'[a] = content[a] /\ content'[b] = <<>>
  <2>1. content'[a] = content[a]
    BY <1>5, <1>6, <1>8
  <2> QED BY <1>1, <1>5, <2>1 DEF Round
<1>10. Done' = Done
  BY <1>1, <1>7 DEF Done
<1>11. Others({Main, q})'
  BY <1>5 DEF Round, Others
<1> QED BY <1>1, <1>6, <1>7, <1>8, <1>9, <1>10, <1>11 DEF Round

(* It reads the text after the parent has sent it, and not before.           *)
LEMMA RoundRead ==
  ASSUME TypeInv, program = "echo", NEW q \in Procs, NEW a \in PipeIds,
         NEW b \in PipeIds, Round(q, a, b), read_text(q),
         UNCHANGED <<world, screen, typed>>
  PROVE  Round(q, a, b)'
<1>1. /\ proc[q] \in Processes /\ proc[q].pc = "read_text" /\ Main \in Procs
      /\ proc[q].fd[0] = <<3, 4>> /\ proc[q].fd[1] = <<5, 6>>
      /\ DOMAIN proc[q].open = 0..2 \cup {3, 6} /\ q # Main
      /\ UNCHANGED <<screen, buffered, typed>>
      /\ content \in [PipeIds -> Seq(Chunks)] /\ 0 \notin PipeIds
  <2>1. 0 \notin PipeIds
    BY SizesAssumption DEF PipeIds
  <2> QED BY <2>1, EchoFacts DEF read_text, EchoTable, world, Round
<1>2. PICK f : f = proc[q].fd[0][1] /\ f = 3
  BY <1>1
<1>3. /\ proc[q].open[1] = Terminal /\ proc[q].open[3] = End(a, "r")
      /\ proc[q].open[6] = End(b, "w") /\ content[b] = <<>> /\ a # b
  BY <1>1 DEF Round
<1>4. PipeOf(q, f) = a
  BY <1>2, <1>3 DEF PipeOf, End
<1>5. Ready(q, f) /\ step(q, convert(proc[q], received(q, f)), emptied(q, f))
  BY <1>2 DEF read_text
<1>6. proc[Main].pc = "wait"
  <2>1. SUFFICES ASSUME proc[Main].pc # "wait" PROVE FALSE
    OBVIOUS
  <2>2. /\ proc[Main].open[4] = End(a, "w") /\ content[a] = <<>>
        /\ proc[Main].pc \in {"get_text", "send"}
    BY <2>1 DEF Round
  <2>3. 4 \in DOMAIN proc[Main].open
    <3>1. EchoTable(proc[Main])
      BY EchoFacts
    <3> QED BY <2>2, <3>1 DEF EchoTable
  <2>4. HasWriter(a)
    BY <1>1, <2>2, <2>3, EndsFacts DEF HasWriter
  <2> QED BY <1>1, <1>4, <1>5, <2>2, <2>4 DEF Ready
<1>7. received(q, f) = typed[Len(typed)] /\ typed # <<>>
  BY <1>1, <1>4, <1>6 DEF received, Round
<1> DEFINE u == get_upper(typed[Len(typed)])
           r == [proc[q] EXCEPT !.pc = "reply", !.buffer = u]
<1>8. step(q, r, emptied(q, f))
  BY <1>5, <1>7 DEF convert
<1> HIDE DEF u
<1>9. /\ proc'[q] = r /\ \A x \in Procs \ {q} : proc'[x] = proc[x]
      /\ \A k \in PipeIds : content'[k] \in {emptied(q, f)[k], <<>>}
  BY <1>8, StepFacts
<1>10. content'[b] = <<>>
  BY <1>1, <1>3, <1>4, <1>9 DEF emptied
<1>11. /\ proc'[q].pc = "reply" /\ proc'[q].open = proc[q].open
       /\ proc'[q].buffer = u /\ proc'[q].pending = proc[q].pending
       /\ proc'[q].parent = proc[q].parent
  BY <1>1, <1>9 DEF Processes
<1>12. proc'[Main] = proc[Main] /\ Done' = Done
  BY <1>1, <1>9 DEF Done
<1>13. Others({Main, q})'
  BY <1>9 DEF Round, Others
<1> HIDE DEF r
<1> QED BY <1>1, <1>3, <1>6, <1>7, <1>10, <1>11, <1>12, <1>13 DEF Round, u

(* It replies into a pipe that the parent has open.                          *)
LEMMA RoundReply ==
  ASSUME TypeInv, program = "echo", NEW q \in Procs, NEW a \in PipeIds,
         NEW b \in PipeIds, Round(q, a, b), reply(q),
         UNCHANGED <<world, screen, typed>>
  PROVE  Round(q, a, b)'
<1>1. /\ proc[q] \in Processes /\ proc[q].pc = "reply" /\ Main \in Procs
      /\ proc[q].fd[0] = <<3, 4>> /\ proc[q].fd[1] = <<5, 6>>
      /\ DOMAIN proc[q].open = 0..2 \cup {3, 6} /\ q # Main
      /\ UNCHANGED <<screen, buffered, typed>>
      /\ content \in [PipeIds -> Seq(Chunks)]
  BY EchoFacts DEF reply, EchoTable, world, Round
<1>2. /\ proc[q].open[1] = Terminal /\ proc[q].open[6] = End(b, "w")
      /\ content[b] = <<>> /\ proc[Main].pc = "wait" /\ typed # <<>>
      /\ proc[Main].open[5] = End(b, "r")
      /\ proc[q].buffer = get_upper(typed[Len(typed)])
  BY <1>1 DEF Round
<1> DEFINE t == close(proc[q].open, {6})
           s == proc[q].buffer \o <<"NUL">>
           c == sent(content, q, 6, s)
<1>3. step(q, [proc[q] EXCEPT !.pc = "exit", !.open = t], c)
  <2>1. PICK f : f = proc[q].fd[1][2] /\ f = 6
    BY <1>1
  <2>2. step(q, [proc[q] EXCEPT !.pc = "exit", !.open = close(proc[q].open, {f})],
             sent(content, q, f, s))
    BY <2>1, Zenon DEF reply
  <2> QED BY <2>1, <2>2
<1>4. s = Reply(typed) /\ s \in Seq(Chunks) /\ <<>> \o s = s
  <2>1. s \in Seq(Chunks)
    <3>1. <<"NUL">> \in Seq(Chunks) /\ proc[q].buffer \in Seq(Chunks)
      BY <1>1, ProcessFacts DEF Chunks
    <3> QED BY <3>1
  <2>2. s = Reply(typed)
    BY <1>2 DEF Reply
  <2> HIDE DEF s
  <2> QED BY <2>1, <2>2
<1> HIDE DEF s
<1>5. c[b] = Reply(typed)
  <2>1. PipeOf(q, 6) = b
    BY <1>2 DEF PipeOf, End
  <2> QED BY <1>1, <1>2, <1>4, <2>1 DEF sent
<1>6. Keeps(t, proc[q].open, {0, 1, 2, 3})
  <2>1. DOMAIN proc[q].open \ {6} = {0, 1, 2, 3}
    BY <1>1
  <2> QED BY <1>1, <2>1, Closed
<1> HIDE DEF t, c
<1>7. /\ proc'[q] = [proc[q] EXCEPT !.pc = "exit", !.open = t]
      /\ \A x \in Procs \ {q} : proc'[x] = proc[x]
      /\ \A k \in PipeIds, x \in Procs : \A f \in DOMAIN proc'[x].open :
           proc'[x].open[f] \in {End(k, "r"), End(k, "w")} => content'[k] = c[k]
  BY <1>3, StepFacts
<1>8. /\ proc'[q].pc = "exit" /\ proc'[q].open = t
      /\ proc'[q].pending = proc[q].pending /\ proc'[q].parent = proc[q].parent
  BY <1>1, <1>6, <1>7 DEF Processes, Keeps
<1>9. proc'[Main] = proc[Main] /\ Done' = Done
  BY <1>1, <1>7 DEF Done
<1>10. t[1] = Terminal
  BY <1>2, <1>6 DEF Keeps
<1>11. content'[b] = Reply(typed)
  <2>1. 5 \in DOMAIN proc'[Main].open
    <3>1. EchoTable(proc[Main])
      BY EchoFacts
    <3> QED BY <1>2, <1>9, <3>1 DEF EchoTable
  <2> QED BY <1>1, <1>2, <1>5, <1>7, <1>9, <2>1
<1>12. Others({Main, q})'
  BY <1>7 DEF Round, Others
<1>13. Reply(typed)' = Reply(typed)
  BY <1>1 DEF Reply
<1> QED BY <1>1, <1>2, <1>8, <1>9, <1>10, <1>11, <1>12, <1>13 DEF Round

(* It exits: the pending output it has a copy of goes to the terminal.       *)
LEMMA RoundExit ==
  ASSUME TypeInv, program = "echo", NEW q \in Procs, NEW a \in PipeIds,
         NEW b \in PipeIds, Round(q, a, b), exit_flush(q) \/ exit(q),
         UNCHANGED world, UNCHANGED typed, exit(q) => UNCHANGED screen
  PROVE  Round(q, a, b)' \/ Back(b)'
<1> DEFINE pend == proc[q].pending
<1>1. /\ proc[q] \in Processes /\ proc[q].pc = "exit" /\ Main \in Procs
      /\ proc \in [Procs -> Processes] /\ pend \in Seq(Chunks) /\ q # Main
      /\ UNCHANGED <<buffered, typed>> /\ screen \in Seq(Chunks)
      /\ buffered \in BOOLEAN
  BY EchoFacts DEF exit_flush, exit, world, Processes, Round
<1>2. /\ RoundCounts(buffered, Done, proc[Main].pending, pend, screen, typed)
      /\ proc[q].open[1] = Terminal /\ proc[Main].pc = "wait"
      /\ proc[Main].open[5] = End(b, "r") /\ proc[Main].open[1] = Terminal
      /\ content[b] = Reply(typed) /\ typed # <<>> /\ proc[q].parent = Main
      /\ (~buffered => pend = <<>> /\ proc[Main].pending = <<>>)
      /\ \A x \in Procs \ {Main, q} : proc[x].pc = "free"
  BY <1>1 DEF Round, Others
<1>3. PipeOf(q, STDOUT) = 0
  BY <1>2 DEF PipeOf, STDOUT, Terminal, End
<1>4. 5 \in DOMAIN proc[Main].open
  <2>1. EchoTable(proc[Main])
    BY EchoFacts
  <2> QED BY <1>2, <2>1 DEF EchoTable
<1>5. Reply(typed)' = Reply(typed)
  BY <1>1 DEF Reply
<1>6. CASE exit_flush(q)
  <2> DEFINE r == [proc[q] EXCEPT !.pending = Tail(@)]
  <2>1. /\ pend # <<>> /\ screen' = screen \o SubSeq(pend, 1, 1)
        /\ step(q, r, content)
    BY <1>3, <1>6 DEF exit_flush
  <2>2. /\ proc'[q] = r /\ \A x \in Procs \ {q} : proc'[x] = proc[x]
        /\ \A k \in PipeIds, x \in Procs : \A f \in DOMAIN proc'[x].open :
             proc'[x].open[f] \in {End(k, "r"), End(k, "w")}
               => content'[k] = content[k]
    BY <1>1, <2>1, StepFacts
  <2>3. /\ proc'[q].pc = "exit" /\ proc'[q].open = proc[q].open
        /\ proc'[q].pending = Tail(pend) /\ proc'[q].parent = proc[q].parent
    BY <1>1, <2>2 DEF Processes
  <2>4. buffered
    BY <1>2, <2>1
  <2>5. proc'[Main] = proc[Main] /\ Done' = Done /\ content'[b] = content[b]
    <3>1. proc'[Main] = proc[Main]
      BY <1>1, <2>2
    <3> QED BY <1>1, <1>2, <1>4, <2>2, <3>1 DEF Done
  <2>6. RoundCounts(buffered, Done, proc[Main].pending, Tail(pend),
                    screen \o SubSeq(pend, 1, 1), typed)
    <3> HIDE DEF pend
    <3>1. PICK n, m : n = Done /\ m = proc[Main].pending
      OBVIOUS
    <3>2. RoundCounts(buffered, n, m, Tail(pend), screen \o SubSeq(pend, 1, 1), typed)
      BY <1>1, <1>2, <2>1, <2>4, <3>1, CountsFlush
    <3> QED BY <3>1, <3>2
  <2>7. Others({Main, q})'
    BY <1>2, <2>2 DEF Others
  <2> HIDE DEF pend, r
  <2>8. Round(q, a, b)'
    BY <1>1, <1>2, <1>5, <2>1, <2>3, <2>4, <2>5, <2>6, <2>7 DEF Round
  <2> QED BY <2>8
<1>7. CASE exit(q)
  <2>1. ends(q, "exited") /\ pend = <<>> /\ UNCHANGED screen
    BY <1>7 DEF exit
  <2>2. \A x \in Procs :
          /\ [proc[x] EXCEPT !.parent = 0].pc = proc[x].pc
          /\ [proc[x] EXCEPT !.parent = 0].open = proc[x].open
          /\ [proc[x] EXCEPT !.parent = 0].pending = proc[x].pending
    BY <1>1 DEF Processes
  <2>3. /\ proc'[q] = [Free EXCEPT !.pc = "free"]
        /\ proc'[Main].pc = "wait" /\ proc'[Main].open = proc[Main].open
        /\ proc'[Main].pending = proc[Main].pending
        /\ \A x \in Procs \ {Main, q} : proc'[x].pc = proc[x].pc
    BY <1>1, <1>2, <2>1, <2>2 DEF ends
  <2>4. content'[b] = content[b]
    <3>1. End(b, "r") \in Ends'
      BY <1>1, <1>2, <1>4, <2>3 DEF Ends, Range
    <3> QED BY <2>1, <3>1 DEF ends, holding
  <2>5. Others({Main})'
    BY <1>2, <2>3 DEF Others, Free
  <2>6. Done' = Done
    BY <1>1, <1>2, <2>3 DEF Done
  <2>7. Back(b)'
    BY <1>1, <1>2, <1>5, <2>1, <2>3, <2>4, <2>5, <2>6 DEF Back
  <2> QED BY <2>7
<1> QED BY <1>6, <1>7

(* The parent finds that its child has ended.                                *)
LEMMA BackWait ==
  ASSUME TypeInv, program = "echo", NEW b \in PipeIds, Back(b), wait(Main),
         UNCHANGED <<world, screen, typed>>
  PROVE  Back(b)'
<1>1. /\ proc[Main] \in Processes /\ proc[Main].pc = "wait" /\ Main \in Procs
      /\ EchoTable(proc[Main]) /\ UNCHANGED <<screen, buffered, typed>>
  BY EchoFacts DEF wait, world
<1> DEFINE r == [proc[Main] EXCEPT !.pc = "answer"]
<1>2. step(Main, r, content)
  BY DEF wait
<1>3. /\ proc'[Main] = r /\ \A x \in Procs \ {Main} : proc'[x] = proc[x]
      /\ \A k \in PipeIds, x \in Procs : \A f \in DOMAIN proc'[x].open :
           proc'[x].open[f] \in {End(k, "r"), End(k, "w")} => content'[k] = content[k]
  BY <1>1, <1>2, StepFacts
<1>4. /\ proc'[Main].pc = "answer" /\ proc'[Main].open = proc[Main].open
      /\ proc'[Main].pending = proc[Main].pending
  BY <1>1, <1>3 DEF Processes
<1>5. content'[b] = content[b]
  <2>1. 5 \in DOMAIN proc[Main].open /\ proc[Main].open[5] = End(b, "r")
    BY <1>1 DEF EchoTable, Back
  <2>2. 5 \in DOMAIN proc'[Main].open /\ proc'[Main].open[5] = End(b, "r")
    BY <1>4, <2>1
  <2> HIDE DEF r
  <2> QED BY <1>1, <1>3, <2>2
<1>6. Done' = Done /\ Reply(typed)' = Reply(typed)
  BY <1>1, <1>4 DEF Done, Reply
<1>7. Others({Main})'
  BY <1>3 DEF Back, Others
<1> HIDE DEF r
<1> QED BY <1>1, <1>4, <1>5, <1>6, <1>7 DEF Back

(* It reads the answer, and prints it or keeps it pending.                   *)
LEMMA BackAnswer ==
  ASSUME TypeInv, program = "echo", NEW b \in PipeIds, Back(b), answer(Main),
         UNCHANGED world
  PROVE  Idle'
<1>1. /\ proc[Main] \in Processes /\ proc[Main].pc = "answer" /\ Main \in Procs
      /\ EchoTable(proc[Main]) /\ UNCHANGED <<buffered, typed>>
      /\ content \in [PipeIds -> Seq(Chunks)] /\ screen \in Seq(Chunks)
      /\ typed \in Seq(Texts) /\ buffered \in BOOLEAN
      /\ proc[Main].pending \in Seq(Chunks)
  BY EchoFacts, ProcessFacts DEF answer, world
<1>2. /\ typed # <<>> /\ proc[Main].open[1] = Terminal
      /\ proc[Main].open[5] = End(b, "r") /\ content[b] = Reply(typed)
      /\ (~buffered => proc[Main].pending = <<>>)
      /\ \A x \in Procs \ {Main} : proc[x].pc = "free"
  BY DEF Back, Others
<1>3. /\ Result(Main) = 5 /\ IsOpen(Main, 5) /\ PipeOf(Main, 5) = b
      /\ DOMAIN proc[Main].open = 0..2 \cup {5}
  BY <1>1, <1>2 DEF Result, EchoTable, IsOpen, PipeOf, End
<1>4. PICK u : u = get_upper(typed[Len(typed)])
  OBVIOUS
<1>5. as_string(Reply(typed)) = u
  <2>1. PICK s \in Texts : s = typed[Len(typed)]
    BY <1>1, <1>2
  <2>2. as_string(get_upper(s) \o <<"NUL">>) = get_upper(s)
    BY ReplyFacts
  <2> QED BY <1>4, <2>1, <2>2 DEF Reply
<1> DEFINE t == close(proc[Main].open, {5})
           end == [proc[Main] EXCEPT !.pc = "while", !.buffer = u, !.open = t]
           full == [end EXCEPT !.pending = proc[Main].pending \o u]
<1>6. \/ buffered /\ step(Main, full, content) /\ UNCHANGED screen
      \/ ~buffered /\ step(Main, end, content) /\ screen' = screen \o u
  <2>1. received(Main, 5) = Reply(typed)
    <3>1. b # 0
      BY SizesAssumption DEF PipeIds
    <3> QED BY <1>2, <1>3, <3>1 DEF received
  <2>2. PICK r, s, f : /\ r = proc[Main] /\ s = Reply(typed) /\ f = 5
                       /\ print_answer(Main, r, s) /\ Result(Main) = f
    BY <1>3, <2>1 DEF answer
  <2>3. PICK x : x = as_string(s)
    OBVIOUS
  <2> DEFINE e == [r EXCEPT !.pc = "while", !.buffer = x, !.open = close(r.open, {f})]
             g == [e EXCEPT !.pending = e.pending \o x]
  <2>4. \/ buffered /\ step(Main, g, content) /\ UNCHANGED screen
        \/ ~buffered /\ step(Main, e, content) /\ screen' = screen \o x
    BY <2>2, <2>3 DEF print_answer, answer_closes
  <2>5. x = u /\ e = end
    BY <1>5, <2>2, <2>3
  <2>6. g = full
    <3>1. end.pending = proc[Main].pending
      BY <1>1 DEF Processes
    <3> HIDE DEF end, e
    <3> QED BY <2>5, <3>1
  <2> HIDE DEF e, g, full, end
  <2> QED BY <2>4, <2>5, <2>6
<1>7. Keeps(t, proc[Main].open, {0, 1, 2})
  <2>1. DOMAIN proc[Main].open \ {5} = {0, 1, 2}
    BY <1>3
  <2> QED BY <1>1, <2>1, Closed
<1> HIDE DEF t
<1>8. /\ buffered => IdleCounts(buffered, "while", proc[Main].pending \o u, screen, typed)
      /\ ~buffered => IdleCounts(buffered, "while", proc[Main].pending, screen \o u, typed)
  <2>1. PICK m \in Seq(Chunks) : m = proc[Main].pending
    BY <1>1
  <2>2. RoundCounts(buffered, Len(typed) - 1, m, <<>>, screen, typed)
    BY <1>1, <2>1 DEF Back, Done
  <2>3. /\ buffered => IdleCounts(buffered, "while", m \o u, screen, typed)
        /\ ~buffered => IdleCounts(buffered, "while", m, screen \o u, typed)
    BY <1>1, <1>2, <1>4, <2>2, CountsAnswer
  <2> QED BY <2>1, <2>3
<1>9. t[1] = Terminal
  BY <1>2, <1>7 DEF Keeps
<1>10. /\ end.pc = "while" /\ end.open = t /\ end.pending = proc[Main].pending
       /\ full.pc = "while" /\ full.open = t /\ full.pending = proc[Main].pending \o u
  BY <1>1 DEF Processes
<1> HIDE DEF end, full
<1>11. CASE buffered /\ step(Main, full, content) /\ UNCHANGED screen
  <2>1. proc'[Main] = full /\ \A x \in Procs \ {Main} : proc'[x] = proc[x]
    BY <1>1, <1>11, StepFacts
  <2>2. Others({Main})'
    BY <1>2, <2>1 DEF Others
  <2> QED BY <1>1, <1>8, <1>9, <1>10, <1>11, <2>1, <2>2 DEF Idle
<1>12. CASE ~buffered /\ step(Main, end, content) /\ screen' = screen \o u
  <2>1. proc'[Main] = end /\ \A x \in Procs \ {Main} : proc'[x] = proc[x]
    BY <1>1, <1>12, StepFacts
  <2>2. Others({Main})'
    BY <1>2, <2>1 DEF Others
  <2> QED BY <1>1, <1>2, <1>8, <1>9, <1>10, <1>12, <2>1, <2>2 DEF Idle
<1> QED BY <1>6, <1>11, <1>12

(* The actions that a process of the echo chamber can take at a point.       *)
LEMMA EchoActions ==
  ASSUME TypeInv, program = "echo", NEW p \in Procs, Runs(p)
  PROVE  \/ exit_flush(p) /\ proc[p].pc = "exit"
         \/ answer(p) /\ proc[p].pc = "answer"
         \/ while(p) /\ proc[p].pc = "while"
         \/ /\ UNCHANGED <<screen, typed>>
            /\ \/ exit(p) /\ proc[p].pc = "exit"
               \/ send(p) /\ proc[p].pc = "send"
               \/ wait(p) /\ proc[p].pc = "wait"
               \/ child(p) /\ proc[p].pc = "child"
               \/ read_text(p) /\ proc[p].pc = "read_text"
               \/ reply(p) /\ proc[p].pc = "reply"
               \/ broken_pipe(p) /\ proc[p].pc \in {"send", "reply", "exit"}
<1>1. proc[p].pc \notin PipelinePoints
  BY EchoFacts
<1>2. ~fork_coprocess(p) /\ ~setup(p) /\ ~read_argument(p) /\ ~close_unused(p)
  BY <1>1 DEF fork_coprocess, setup, read_argument, close_unused, PipelinePoints
<1>3. ~filter_pos_nums(p) /\ ~calc_avg(p)
  BY <1>1 DEF filter_pos_nums, calc_avg, PipelinePoints
<1>4. broken_pipe(p) => proc[p].pc \in {"send", "reply", "exit"}
  BY <1>1 DEF broken_pipe, PipelinePoints
<1>5. /\ exit_flush(p) => proc[p].pc = "exit"
      /\ answer(p) => proc[p].pc = "answer"
      /\ while(p) => proc[p].pc = "while"
      /\ exit(p) => proc[p].pc = "exit"
      /\ send(p) => proc[p].pc = "send"
      /\ wait(p) => proc[p].pc = "wait"
      /\ child(p) => proc[p].pc = "child"
      /\ read_text(p) => proc[p].pc = "read_text"
      /\ reply(p) => proc[p].pc = "reply"
  BY DEF exit_flush, answer, while, exit, send, wait, child, read_text, reply
<1> QED BY <1>2, <1>3, <1>4, <1>5 DEF Runs

(* The parent reads a text only at this point.                               *)
LEMMA TextPoint ==
  ASSUME NEW p, get_text(p) PROVE proc[p].pc = "get_text"
BY Zenon DEF get_text

(* Between two rounds.                                                       *)
LEMMA IdleNext ==
  ASSUME TypeInv, program = "echo", failures = 0, failures' = 0, ~eintr',
         UNCHANGED world, Idle, NEW p \in Procs,
         Runs(p) \/ get_text(p) \/ \E sig \in Signals : handler(p, sig)
  PROVE  Idle' \/ \E q \in Procs, a, b \in PipeIds : Round(q, a, b)'
<1>1. p = Main /\ Main \in Procs /\ proc[Main].pc \in {"while", "exit"}
  <2>1. proc[p].pc \notin Ended /\ Main \in Procs
    BY Actor, EchoFacts
  <2> QED BY <2>1 DEF Ended, Idle, Others
<1>2. CASE \E sig \in Signals : handler(p, sig)
  BY <1>2, EchoHandler
<1>3. ~get_text(Main)
  BY <1>1, TextPoint
<1>4. CASE Runs(Main)
  <2>1. CASE while(Main)
    BY <2>1, IdleWhile
  <2>2. CASE exit_flush(Main)
    <3>1. UNCHANGED typed /\ ~exit(Main)
      BY <2>2 DEF exit_flush, exit
    <3> QED BY <2>2, <3>1, IdleExit
  <2>3. CASE exit(Main) /\ UNCHANGED <<screen, typed>>
    BY <2>3, IdleExit
  <2>4. ~broken_pipe(Main)
    <3>1. proc[Main].open[STDOUT] = Terminal
      BY <1>1 DEF Idle, STDOUT
    <3>2. ~SIGPIPE(Main, STDOUT)
      BY <3>1, NotBroken
    <3> QED BY <1>1, <3>2 DEF broken_pipe
  <2> QED BY <1>1, <1>4, <2>1, <2>2, <2>3, <2>4, EchoActions
<1> QED BY <1>1, <1>2, <1>3, <1>4

(* In a round, nobody writes to a pipe without a reader, and the parent      *)
(* waits until the child has ended.                                          *)
LEMMA RoundNext ==
  ASSUME TypeInv, program = "echo", ~eintr', UNCHANGED world,
         NEW q \in Procs, NEW a \in PipeIds, NEW b \in PipeIds, Round(q, a, b),
         NEW p \in Procs,
         Runs(p) \/ get_text(p) \/ \E sig \in Signals : handler(p, sig)
  PROVE  Round(q, a, b)' \/ Back(b)'
<1>1. /\ p \in {Main, q} /\ Main \in Procs /\ q # Main
      /\ proc[Main].pc \in {"get_text", "send", "wait"}
      /\ proc[q].pc \in {"child", "read_text", "reply", "exit"}
  <2>1. proc[p].pc \notin Ended /\ Main \in Procs
    BY Actor, EchoFacts
  <2> QED BY <2>1 DEF Ended, Round, Others
<1>2. /\ proc[Main].open[5] = End(b, "r") /\ 5 \in DOMAIN proc[Main].open
      /\ proc[Main].fd[0][2] = 4 /\ proc[q].open[STDOUT] = Terminal
      /\ proc[q].pc = "reply" => /\ proc[q].fd[1][2] = 6
                                 /\ proc[q].open[6] = End(b, "w")
      /\ proc[Main].pc = "send" => /\ proc[Main].open[4] = End(a, "w")
                                   /\ proc[q].open[3] = End(a, "r")
                                   /\ 3 \in DOMAIN proc[q].open
  <2>1. EchoTable(proc[Main]) /\ EchoTable(proc[q])
    BY <1>1, EchoFacts
  <2>2. 5 \in DOMAIN proc[Main].open /\ proc[Main].fd[0][2] = 4
    BY <1>1, <2>1 DEF EchoTable
  <2>3. proc[q].pc = "reply" => proc[q].fd[1][2] = 6
    BY <2>1 DEF EchoTable
  <2>4. proc[q].pc \in {"child", "read_text"} => 3 \in DOMAIN proc[q].open
    BY <2>1 DEF EchoTable
  <2> QED BY <1>1, <2>2, <2>3, <2>4 DEF Round, STDOUT
<1>3. CASE \E sig \in Signals : handler(p, sig)
  BY <1>3, EchoHandler
<1>4. CASE p = Main /\ get_text(Main)
  BY <1>4, RoundText
<1>5. CASE p = Main /\ Runs(Main)
  <2>1. CASE send(Main) /\ UNCHANGED <<screen, typed>>
    BY <2>1, RoundSend
  <2>2. ~wait(Main)
    <3>1. q \in Children(Main)
      BY <1>1 DEF Children, Alive, Round
    <3> QED BY <3>1 DEF wait
  <2>3. ~broken_pipe(Main)
    <3>1. SUFFICES ASSUME broken_pipe(Main) PROVE FALSE
      OBVIOUS
    <3>2. proc[Main].pc = "send" /\ SIGPIPE(Main, 4)
      BY <1>1, <1>2, <3>1 DEF broken_pipe
    <3>3. PipeOf(Main, 4) = a
      BY <1>2, <3>2 DEF PipeOf, End
    <3>4. ~SIGPIPE(Main, 4)
      BY <1>2, <3>2, <3>3, NotBroken
    <3> QED BY <3>2, <3>4
  <2> QED BY <1>1, <1>5, <2>1, <2>2, <2>3, EchoActions
<1>6. CASE p = q /\ Runs(q)
  <2>1. CASE child(q) /\ UNCHANGED <<screen, typed>>
    BY <2>1, RoundChild
  <2>2. CASE read_text(q) /\ UNCHANGED <<screen, typed>>
    BY <2>2, RoundRead
  <2>3. CASE reply(q) /\ UNCHANGED <<screen, typed>>
    BY <2>3, RoundReply
  <2>4. CASE exit_flush(q)
    <3>1. UNCHANGED typed /\ ~exit(q)
      BY <2>4 DEF exit_flush, exit
    <3> QED BY <2>4, <3>1, RoundExit
  <2>5. CASE exit(q) /\ UNCHANGED <<screen, typed>>
    BY <2>5, RoundExit
  <2>6. ~broken_pipe(q)
    <3>1. ~SIGPIPE(q, STDOUT)
      BY <1>2, NotBroken
    <3>2. proc[q].pc = "reply" => ~SIGPIPE(q, 6)
      <4>1. proc[q].pc = "reply" => PipeOf(q, 6) = b
        BY <1>2 DEF PipeOf, End
      <4> QED BY <1>1, <1>2, <4>1, NotBroken
    <3> QED BY <1>1, <1>2, <3>1, <3>2 DEF broken_pipe
  <2> QED BY <1>1, <1>6, <2>1, <2>2, <2>3, <2>4, <2>5, <2>6, EchoActions
<1>7. ~get_text(q)
  BY <1>1, TextPoint
<1> QED BY <1>1, <1>3, <1>4, <1>5, <1>6, <1>7

(* After the child has ended.                                                *)
LEMMA BackNext ==
  ASSUME TypeInv, program = "echo", ~eintr', UNCHANGED world,
         NEW b \in PipeIds, Back(b), NEW p \in Procs,
         Runs(p) \/ get_text(p) \/ \E sig \in Signals : handler(p, sig)
  PROVE  Back(b)' \/ Idle'
<1>1. p = Main /\ Main \in Procs /\ proc[Main].pc \in {"wait", "answer"}
  <2>1. proc[p].pc \notin Ended /\ Main \in Procs
    BY Actor, EchoFacts
  <2> QED BY <2>1 DEF Ended, Back, Others
<1>2. CASE \E sig \in Signals : handler(p, sig)
  BY <1>2, EchoHandler
<1>3. ~get_text(Main)
  BY <1>1, TextPoint
<1>4. CASE Runs(Main)
  <2>1. CASE wait(Main) /\ UNCHANGED <<screen, typed>>
    BY <2>1, BackWait
  <2>2. CASE answer(Main)
    BY <2>2, BackAnswer
  <2> QED BY <1>1, <1>4, <2>1, <2>2, EchoActions
<1> QED BY <1>1, <1>2, <1>3, <1>4

(* Signals and failures are remembered.                                      *)
LEMMA Remembered ==
  ASSUME TypeInv, Next
  PROVE  /\ failures' = 0 => failures = 0
         /\ ~eintr' => ~eintr
<1>1. failures \in Nat
  BY DEF TypeInv
<1>2. PICK p \in Procs : Runs(p) \/ get_text(p) \/ \E sig \in Signals : handler(p, sig)
  BY DEF Next
<1>3. CASE get_text(p) \/ \E sig \in Signals : handler(p, sig)
  <2>1. CASE get_text(p)
    <3>1. UNCHANGED <<screen, failures, eintr>>
      BY <2>1, Zenon DEF get_text
    <3> QED BY <3>1
  <2>2. ASSUME NEW sig \in Signals, handler(p, sig)
        PROVE  /\ failures' = 0 => failures = 0
               /\ ~eintr' => ~eintr
    <3>1. UNCHANGED <<failures, typed>>
      BY <2>2, Zenon DEF handler
    <3>2. UNCHANGED <<screen, eintr>> \/ eintr' = TRUE
      BY <2>2, Zenon DEF handler
    <3> QED BY <3>1, <3>2
  <2> QED BY <1>3, <2>1, <2>2
<1>4. CASE exit_flush(p) \/ answer(p) \/ UNCHANGED <<screen, failures, typed, eintr>>
  BY <1>4 DEF exit_flush, answer
<1>5. ASSUME NEW r, NEW here, NEW childs, NEW failed, fork(p, r, here, childs, failed)
      PROVE  failures' = 0 => failures = 0
  BY <1>1, <1>5 DEF fork
<1>6. CASE while(p)
  <2>1. UNCHANGED failures \/ fork(p, two_pipes(proc[p]), "get_text", "child", "exit")
    BY <1>6, WhileCases
  <2>2. UNCHANGED eintr
    BY <1>6 DEF while
  <2> QED BY <1>5, <2>1, <2>2
<1>7. CASE fork_coprocess(p)
  <2>1. \/ fork(p, two_pipes(proc[p]), "fork_2", "setup_1", "fork_2")
        \/ fork(p, with_pipe(proc[p], 2, NewPipe), "fork_3", "setup_2", "fork_3")
        \/ fork(p, with_pipe(proc[p], 3, NewPipe), "close", "setup_3", "close")
    BY <1>7, ForkCases
  <2>2. UNCHANGED eintr
    BY <1>7 DEF fork_coprocess
  <2> QED BY <1>5, <2>1, <2>2
<1> QED BY <1>2, <1>3, <1>4, <1>6, <1>7 DEF Runs

(* The invariant of the echo chamber holds at the beginning: nothing was     *)
(* typed, and nothing is due.                                                *)
LEMMA InitEcho == Init => EchoInv
<1> SUFFICES ASSUME Init, program = "echo" PROVE Idle
  BY DEF EchoInv
<1>1. Main \in Procs
  BY SizesAssumption DEF Main, Procs
<1>2. /\ proc[Main] = [Free EXCEPT !.pc = "while", !.open = [f \in 0..2 |-> Terminal]]
      /\ \A x \in Procs \ {Main} : proc[x] = Free
      /\ screen = <<>> /\ typed = <<>> /\ buffered \in BOOLEAN
  BY <1>1 DEF Init
<1>3. /\ proc[Main].pc = "while" /\ proc[Main].open[1] = Terminal
      /\ proc[Main].pending = <<>> /\ \A x \in Procs \ {Main} : proc[x].pc = "free"
  BY <1>2 DEF Free
<1>4. IdleCounts(buffered, "while", <<>>, <<>>, <<>>)
  <2>1. \A c : Count(<<>>, c) = 0
    BY CountEmpty
  <2>2. \A c : Shown(<<>>, 0, c) = 0
    BY ShownNext
  <2>3. \A c : Repeated(<<>>, 0 - 1, c) = 0
    BY RepeatedNext
  <2>4. \A c : Single(<<>>, 0, c) = 0
    BY SingleNext
  <2>5. Len(<<>>) = 0
    OBVIOUS
  <2>6. PICK n, m : n = Len(<<>>) /\ n = 0 /\ m = n - 1 /\ m = 0 - 1
    BY <2>5
  <2> QED BY <1>2, <2>1, <2>2, <2>3, <2>4, <2>6, Zenon DEF IdleCounts
<1> QED BY <1>2, <1>3, <1>4 DEF Idle, Others

(* Every step keeps it.                                                      *)
LEMMA NextEcho == TypeInv /\ EchoInv /\ [Next]_vars => EchoInv'
<1> SUFFICES ASSUME TypeInv, EchoInv, [Next]_vars, program' = "echo",
                    failures' = 0, ~eintr'
             PROVE  \/ Idle'
                    \/ \E q \in Procs, a, b \in PipeIds : Round(q, a, b)'
                    \/ \E b \in PipeIds : Back(b)'
  BY DEF EchoInv
<1>1. CASE UNCHANGED vars
  <2>1. UNCHANGED <<program, buffered, proc, content, screen, failures, typed, eintr>>
    BY <1>1 DEF vars, world
  <2>2. Done' = Done /\ Reply(typed)' = Reply(typed)
    BY <2>1 DEF Done, Reply
  <2>3. \A Q : Others(Q)' <=> Others(Q)
    BY <2>1 DEF Others
  <2>4. Idle => Idle'
    BY <2>1, <2>3 DEF Idle
  <2>5. \A q \in Procs, a, b \in PipeIds : Round(q, a, b) => Round(q, a, b)'
    BY <2>1, <2>2, <2>3 DEF Round
  <2>6. \A b \in PipeIds : Back(b) => Back(b)'
    BY <2>1, <2>2, <2>3 DEF Back
  <2> QED BY <2>1, <2>4, <2>5, <2>6 DEF EchoInv
<1>2. CASE Next
  <2>1. program = "echo" /\ failures = 0 /\ ~eintr /\ UNCHANGED world
    BY <1>2, Remembered DEF Next, world
  <2>2. PICK p \in Procs :
          Runs(p) \/ get_text(p) \/ \E sig \in Signals : handler(p, sig)
    BY <1>2 DEF Next
  <2>3. CASE Idle
    BY <2>1, <2>2, <2>3, IdleNext
  <2>4. CASE \E q \in Procs, a, b \in PipeIds : Round(q, a, b)
    <3>1. PICK q \in Procs, a \in PipeIds, b \in PipeIds : Round(q, a, b)
      BY <2>4
    <3>2. Round(q, a, b)' \/ Back(b)'
      BY <2>1, <2>2, <3>1, RoundNext
    <3> QED BY <3>2
  <2>5. CASE \E b \in PipeIds : Back(b)
    <3>1. PICK b \in PipeIds : Back(b)
      BY <2>5
    <3>2. Back(b)' \/ Idle'
      BY <2>1, <2>2, <3>1, BackNext
    <3> QED BY <3>2
  <2> QED BY <2>1, <2>3, <2>4, <2>5 DEF EchoInv
<1> QED BY <1>1, <1>2

(* The invariant of the echo chamber holds in every state.                   *)
LEMMA EchoInvariant == Spec => []EchoInv
BY InitEcho, NextEcho, TypeInvariant, PTL DEF Spec

(* EchoShown: for any number of rounds, when no fork() failed and no call    *)
(* was interrupted, the echo chamber ends with every text shown as often as  *)
(* the state of stdio says: once if stdout is not buffered, and once more    *)
(* for every later round if it is; and it is never killed, because the child *)
(* reads what the parent writes and the parent keeps the pipe open in which  *)
(* the child replies.                                                        *)
THEOREM EchoShownCorrect == Spec => []EchoShown
<1>1. TypeInv /\ EchoInv => EchoShown
  <2> SUFFICES ASSUME TypeInv, EchoInv, program = "echo", failures = 0, ~eintr
               PROVE  /\ proc[Main].pc = "exited" => \A c \in DOMAIN upper :
                           Cardinality({k \in DOMAIN screen : screen[k] = c}) = Due(c)
                      /\ proc[Main].pc # "killed"
    BY DEF EchoShown
  <2>1. /\ proc[Main].pc # "killed"
        /\ proc[Main].pc = "exited" => Idle
    BY DEF EchoInv, Idle, Round, Back
  <2>2. ASSUME proc[Main].pc = "exited", NEW c \in DOMAIN upper
        PROVE  Count(screen, c) = Due(c)
    <3>1. /\ IdleCounts(buffered, "exited", <<>>, screen, typed)
          /\ typed \in Seq(Texts) /\ screen \in Seq(Chunks)
      BY <2>1, <2>2, EchoFacts DEF Idle
    <3>2. Count(<<>>, c) = 0 /\ Count(screen, c) \in Nat
      BY <3>1, CountEmpty, CountNat
    <3>3. CASE buffered
      <4>1. Count(screen, c) + Count(<<>>, c) = Repeated(typed, Len(typed), c)
        BY <2>2, <3>1, <3>3 DEF IdleCounts
      <4>2. Due(c) = Repeated(typed, Len(typed), c)
        BY <3>3 DEF Due, Shows, Repeated, Repeats, ShowsIn
      <4> QED BY <3>2, <4>1, <4>2
    <3>4. CASE ~buffered
      <4>1. Count(screen, c) = Single(typed, Len(typed), c)
        BY <2>2, <3>1, <3>4 DEF IdleCounts
      <4>2. Due(c) = Single(typed, Len(typed), c)
        BY <3>4 DEF Due, Shows, Single, Singles, ShowsIn
      <4> QED BY <4>1, <4>2
    <3> QED BY <3>3, <3>4
  <2> QED BY <2>1, <2>2 DEF Count
<1> QED BY <1>1, TypeInvariant, EchoInvariant, PTL

-------------------------------------------------------------------------------
(* The pipeline.  Main creates the pipes a, b, c and d, and the coprocesses  *)
(* it starts have a and b, b and c, or c and d as standard input and output; *)
(* so has every process that a coprocess whose program is missing forks.     *)
(* c and d are 0 as long as there are no such pipes.                         *)

Pair(t, f, k)   == t[f] = End(k, "r") /\ t[f + 1] = End(k, "w")
Linked(t, k, m) == t[0] = End(k, "r") /\ t[1] = End(m, "w")

(* The pipes, for Main at a point.                                           *)
Made(pc, a, b, c, d) ==
  /\ a \in PipeIds /\ b \in PipeIds
  /\ c \in PipeIds \cup {0} /\ d \in PipeIds \cup {0}
  /\ a # b /\ c \notin {a, b} /\ d \notin {a, b} /\ (c = d => c = 0)
  /\ (c = 0 <=> pc = "fork_2") /\ (d = 0 <=> pc \in {"fork_2", "fork_3"})

(* The descriptors of Main, after fork_1.                                    *)
MainTable(r, a, b, c, d) ==
  /\ r.pc \in {"fork_2", "fork_3", "close", "send", "wait", "answer", "exit",
               "exited", "killed"}
  /\ r.pc \notin Ended => /\ r.open[0] = Terminal /\ r.open[1] = Terminal
                          /\ r.fd[0] = <<3, 4>> /\ r.fd[1] = <<5, 6>>
  /\ r.pc = "fork_2" => DOMAIN r.open = 0..6
  /\ r.pc = "fork_3" => DOMAIN r.open = 0..8 /\ r.fd[2] = <<7, 8>>
  /\ r.pc = "close"  => DOMAIN r.open = 0..10 /\ r.fd[2] = <<7, 8>>
  /\ r.pc \in {"fork_2", "fork_3", "close"} =>
       Pair(r.open, 3, a) /\ Pair(r.open, 5, b)
  /\ r.pc \in {"fork_3", "close"} => Pair(r.open, 7, c)
  /\ r.pc = "close" => Pair(r.open, 9, d)
  /\ r.pc \in {"close", "send", "wait", "answer"} => r.fd[3] = <<9, 10>>
  /\ r.pc = "send" => /\ DOMAIN r.open = {0, 1, 2, 4, 9} /\ r.open[4] = End(a, "w")
                      /\ r.buffer = <<"arg">>
  /\ r.pc \in {"wait", "answer"} => DOMAIN r.open = {0, 1, 2, 9}
  /\ r.pc \in {"send", "wait", "answer"} => r.open[9] = End(d, "r")

(* A child of Main that has not yet changed its descriptors.                 *)
Raw(r, a, b, c, d) ==
  /\ r.pc \in {"setup_1", "setup_2", "setup_3"}
  /\ r.open[0] = Terminal /\ r.open[1] = Terminal
  /\ r.fd[0] = <<3, 4>> /\ r.fd[1] = <<5, 6>>
  /\ Pair(r.open, 3, a) /\ Pair(r.open, 5, b)
  /\ r.pc = "setup_1" => DOMAIN r.open = 0..6
  /\ r.pc = "setup_2" => DOMAIN r.open = 0..8 /\ r.fd[2] = <<7, 8>>
  /\ r.pc = "setup_3" => DOMAIN r.open = 0..10 /\ r.fd[2] = <<7, 8>>
                           /\ r.fd[3] = <<9, 10>> /\ Pair(r.open, 9, d)
  /\ r.pc # "setup_1" => Pair(r.open, 7, c)

(* The descriptors of a coprocess beyond the standard ones, which come from  *)
(* pipes that nobody reads or writes.                                        *)
Extra0(r) == DOMAIN r.open = 0..2
Extra2(r) == DOMAIN r.open = 0..4 /\ r.fd[2] = <<3, 4>>
Extra3(r) == DOMAIN r.open = 0..4 /\ r.fd[3] = <<3, 4>>
ExtraB(r) == DOMAIN r.open = 0..6 /\ r.fd[2] = <<3, 4>> /\ r.fd[3] = <<5, 6>>

(* A coprocess, or a process that one of them has forked.                    *)
Worker(r, miss, a, b, c, d) ==
  /\ r.fd[0] = <<3, 4>> /\ r.fd[1] = <<5, 6>>
  /\ Linked(r.open, a, b) \/ Linked(r.open, b, c) \/ Linked(r.open, c, d)
  /\ r.pc \in {"read_argument", "filter", "calc", "fork_2", "setup_2", "fork_3",
               "setup_3", "close", "send", "wait", "answer", "exit"}
  /\ r.pc \in {"read_argument", "filter", "calc", "fork_2", "send", "wait",
               "answer", "exit"} => Extra0(r)
  /\ r.pc = "setup_2" => Extra2(r)
  /\ r.pc = "fork_3"  => Extra0(r) \/ Extra2(r)
  /\ r.pc = "setup_3" => Extra3(r) \/ ExtraB(r)
  /\ r.pc = "close"   => Extra0(r) \/ Extra3(r) \/ ExtraB(r)
  /\ r.pc = "read_argument" => Linked(r.open, a, b)
  /\ r.pc = "filter" => "filter_pos_nums" \notin miss
  /\ r.pc = "calc"   => "calc_avg" \notin miss
  /\ miss = {} => /\ r.pc \in {"read_argument", "filter", "calc", "exit"}
                  /\ r.pc = "filter" => Linked(r.open, b, c)
                  /\ r.pc = "calc" => Linked(r.open, c, d)

Proper(r, miss, a, b, c, d) ==
  r.pc = "free" \/ Raw(r, a, b, c, d) \/ Worker(r, miss, a, b, c, d)

Shape(a, b, c, d) ==
  /\ Made(proc[Main].pc, a, b, c, d) /\ MainTable(proc[Main], a, b, c, d)
  /\ \A x \in Procs \ {Main} : Proper(proc[x], missing, a, b, c, d)

(* Before the first fork().                                                  *)
Start ==
  /\ proc[Main].pc = "fork_1" /\ proc[Main].pending = <<>>
  /\ proc[Main].buffer = <<>> /\ Others({Main})
  /\ proc[Main].open[0] = Terminal /\ proc[Main].open[1] = Terminal
  /\ \A k \in PipeIds : content[k] = <<>>
  /\ screen = <<>> /\ failures = 0

(* The facts about a process of the pipeline that its steps need.            *)
LEMMA PipelineFacts ==
  ASSUME TypeInv, program = "pipeline"
  PROVE  /\ Main \in Procs /\ proc \in [Procs -> Processes] /\ 0 \notin PipeIds
         /\ content \in Contents /\ screen \in Seq(Chunks) /\ buffered
         /\ \A p \in Procs :
              /\ proc[p] \in Processes /\ proc[p].open \in Table
              /\ proc[p].pc \notin EchoPoints
              /\ proc[p].pc \notin Ended => 0..2 \subseteq DOMAIN proc[p].open
              /\ proc[p].pc \in Ended => DOMAIN proc[p].open = {}
              /\ \A f \in DOMAIN proc[p].open : proc[p].open[f] \in Descriptors
<1>1. Main \in Procs /\ 0 \notin PipeIds
  BY SizesAssumption DEF Main, Procs, PipeIds
<1>2. DOMAIN Free.open = {}
  BY FreeFacts DEF Ended
<1>3. program # "echo"
  OBVIOUS
<1>4. ASSUME NEW p \in Procs
      PROVE  proc[p] \in Processes /\ proc[p].open \in Table
             /\ \A f \in DOMAIN proc[p].open : proc[p].open[f] \in Descriptors
  <2>1. proc[p] \in Processes
    BY DEF TypeInv
  <2>2. PICK t \in Table : t = proc[p].open
    BY <2>1, ProcessFacts
  <2>3. \A f \in DOMAIN t : t[f] \in Descriptors
    BY TableFacts
  <2> QED BY <2>1, <2>2, <2>3
<1> QED BY <1>1, <1>2, <1>3, <1>4 DEF TypeInv, TableOK, Contents

(* The pipes k and m that a coprocess reads and writes.                      *)
Link(k, m, a, b, c, d) ==
  /\ k \in PipeIds /\ m \in PipeIds /\ k # m
  /\ a # b /\ c \notin {a, b} /\ d \notin {a, b} /\ (c = d => c = 0)
  /\ \/ k = a /\ m = b
     \/ k = b /\ m = c
     \/ k = c /\ m = d

(* A coprocess x that reads pipe k and writes pipe m.                        *)
Stands(x, k, m, a, b, c, d) ==
  /\ x \in Procs /\ x # Main /\ Worker(proc[x], missing, a, b, c, d)
  /\ Link(k, m, a, b, c, d) /\ k \in PipeIds /\ m \in PipeIds /\ k # m
  /\ proc[x].open[0] = End(k, "r") /\ proc[x].open[1] = End(m, "w")
  /\ PipeOf(x, STDIN) = k /\ PipeOf(x, STDOUT) = m
  /\ 0 \in DOMAIN proc[x].open /\ 1 \in DOMAIN proc[x].open
  /\ proc[x].pc \notin Ended

(* Every coprocess that has its descriptors in place does.                   *)
LEMMA LinkFacts ==
  ASSUME TypeInv, program = "pipeline", NEW a, NEW b, NEW c, NEW d,
         Shape(a, b, c, d), NEW x \in Procs, x # Main,
         Worker(proc[x], missing, a, b, c, d)
  PROVE  \E k, m \in PipeIds : Stands(x, k, m, a, b, c, d)
<1>1. proc[x].pc \notin Ended
  BY DEF Worker, Ended
<1>2. 0 \in DOMAIN proc[x].open /\ 1 \in DOMAIN proc[x].open /\ 0 \notin PipeIds
  <2>1. 0..2 \subseteq DOMAIN proc[x].open /\ 0 \notin PipeIds
    BY <1>1, PipelineFacts
  <2> QED BY <2>1
<1>3. ASSUME NEW k, NEW m, Linked(proc[x].open, k, m)
      PROVE  /\ k \in PipeIds /\ m \in PipeIds
             /\ PipeOf(x, STDIN) = k /\ PipeOf(x, STDOUT) = m
  <2>1. proc[x].open[0] \in Descriptors /\ proc[x].open[1] \in Descriptors
    BY <1>2, PipelineFacts
  <2>2. ASSUME NEW n, NEW e \in {"r", "w"}, NEW u \in Descriptors, u = End(n, e)
        PROVE  n \in PipeIds /\ u.pipe = n
    <3>1. u.pipe = n /\ u.end = e /\ e # "tty" /\ Terminal.end = "tty"
      BY <2>2 DEF End, Terminal
    <3>2. u.pipe \in PipeIds \cup {0} /\ (u.pipe = 0 <=> u = Terminal)
      BY DescriptorFacts
    <3> QED BY <3>1, <3>2
  <2>3. proc[x].open[0] = End(k, "r") /\ proc[x].open[1] = End(m, "w")
    BY <1>3 DEF Linked
  <2>4. k \in PipeIds /\ proc[x].open[0].pipe = k
    BY <2>1, <2>2, <2>3
  <2>5. m \in PipeIds /\ proc[x].open[1].pipe = m
    BY <2>1, <2>2, <2>3
  <2> QED BY <2>4, <2>5 DEF PipeOf, STDIN, STDOUT
<1>4. /\ a # b /\ c \notin {a, b} /\ d \notin {a, b} /\ (c = d => c = 0)
  BY DEF Shape, Made
<1>5. PICK k, m : /\ Linked(proc[x].open, k, m)
                  /\ \/ k = a /\ m = b
                     \/ k = b /\ m = c
                     \/ k = c /\ m = d
  BY DEF Worker
<1>6. /\ k \in PipeIds /\ m \in PipeIds
      /\ PipeOf(x, STDIN) = k /\ PipeOf(x, STDOUT) = m
  BY <1>3, <1>5
<1>7. Link(k, m, a, b, c, d) /\ k # m
  BY <1>2, <1>4, <1>5, <1>6 DEF Link
<1>8. Stands(x, k, m, a, b, c, d)
  BY <1>1, <1>2, <1>5, <1>6, <1>7 DEF Stands, Linked
<1> QED BY <1>6, <1>8

(* Process x becomes s, and the pipes that are open afterwards hold C.       *)
Steps(x, s, C) ==
  /\ proc'[x] = s /\ \A y \in Procs \ {x} : proc'[y] = proc[y]
  /\ \A k \in PipeIds : content'[k] \in {C[k], <<>>}
  /\ \A k \in PipeIds, y \in Procs : \A f \in DOMAIN proc'[y].open :
       proc'[y].open[f] \in {End(k, "r"), End(k, "w")} => content'[k] = C[k]

(* A coprocess takes a step to s, in which it reads k and writes m.          *)
Effect(x, s, C, k, m, a, b, c, d) ==
  /\ Steps(x, s, C) /\ s \in Processes /\ s.parent = proc[x].parent
  /\ Link(k, m, a, b, c, d) /\ Worker(s, missing, a, b, c, d)
  /\ s.open[0] = End(k, "r") /\ s.open[1] = End(m, "w")
  /\ DOMAIN s.open = 0..2 /\ UNCHANGED <<screen, failures>>

Becomes(s, pc, buffer, pending) ==
  s.pc = pc /\ s.buffer = buffer /\ s.pending = pending

(* What a coprocess can do, apart from fork() and its end.                   *)
FlushMove(x, s, C, m) ==
  LET r == proc[x] IN
  /\ r.pc = "exit" /\ r.pending # <<>> /\ Becomes(s, "exit", r.buffer, Tail(r.pending))
  /\ C = [content EXCEPT ![m] = Append(@, r.pending[1])] /\ HasReader(m)
QuietMove(x, s, C) ==
  LET r == proc[x] IN
  /\ C = content
  /\ \/ r.pc = "send" /\ Becomes(s, "wait", r.buffer, r.pending)
     \/ r.pc = "wait" /\ Becomes(s, "answer", r.buffer, r.pending)
     \/ r.pc = "close" /\ Becomes(s, "send", <<"arg">>, r.pending)
     \/ r.pc = "answer" /\ LET text == as_string(r.buffer) IN
                           Becomes(s, "exit", text, r.pending \o text)
ExecMove(s, r, name, pc, pending, next) ==
  /\ name \in missing => Becomes(s, next, r.buffer, Append(r.pending, "noise"))
  /\ name \notin missing => Becomes(s, pc, <<>>, pending)
SetupMove(x, s, C) ==
  LET r == proc[x] IN
  /\ C = content
  /\ \/ r.pc = "setup_1" /\ Becomes(s, "read_argument", r.buffer, r.pending)
     \/ /\ r.pc = "setup_2"
        /\ ExecMove(s, r, "filter_pos_nums", "filter", <<>>, "fork_3")
     \/ r.pc = "setup_3" /\ ExecMove(s, r, "calc_avg", "calc", <<>>, "close")
ArgumentMove(x, s, C, k) ==
  LET r == proc[x] IN
  /\ r.pc = "read_argument" /\ (content[k] # <<>> \/ ~HasWriter(k))
  /\ C = [content EXCEPT ![k] = <<>>]
  /\ "gen_numbers" \in missing =>
       Becomes(s, "fork_2", content[k], Append(r.pending, "noise"))
  /\ "gen_numbers" \notin missing =>
       Becomes(s, "exit", <<>>, IF content[k] = <<>> THEN <<>> ELSE NUMBERS)
FilterMove(x, s, C, k, m) ==
  LET r == proc[x] IN
  /\ r.pc = "filter"
  /\ \/ /\ content[k] = <<>> /\ ~HasWriter(k) /\ C = content
        /\ Becomes(s, "exit", r.buffer, r.pending)
     \/ /\ content[k] # <<>> /\ Head(content[k]) = "neg"
        /\ C = [content EXCEPT ![k] = Tail(@)]
        /\ Becomes(s, "filter", r.buffer, r.pending)
     \/ /\ content[k] # <<>> /\ Head(content[k]) # "neg" /\ HasReader(m)
        /\ C = [content EXCEPT ![k] = Tail(@), ![m] = Append(@, Head(content[k]))]
        /\ Becomes(s, "filter", r.buffer, r.pending)
CalcMove(x, s, C, k) ==
  LET r == proc[x] IN
  /\ r.pc = "calc"
  /\ \/ /\ content[k] = <<>> /\ ~HasWriter(k) /\ C = content
        /\ Becomes(s, "exit", <<>>,
                   <<IF r.buffer = <<"pos">> THEN "avg" ELSE "noise">>)
     \/ /\ content[k] # <<>> /\ C = [content EXCEPT ![k] = Tail(@)]
        /\ Becomes(s, "calc",
             IF Head(content[k]) = "pos" /\ r.buffer \in {<<>>, <<"pos">>}
             THEN <<"pos">> ELSE <<"noise">>, r.pending)

(* A process with only its standard descriptors is a coprocess.              *)
LEMMA WorkerNext ==
  ASSUME NEW s, NEW a, NEW b, NEW c, NEW d, NEW k, NEW m,
         Link(k, m, a, b, c, d), s.fd[0] = <<3, 4>>, s.fd[1] = <<5, 6>>,
         s.open[0] = End(k, "r"), s.open[1] = End(m, "w"), DOMAIN s.open = 0..2,
         s.pc \in {"read_argument", "filter", "calc", "fork_2", "fork_3", "close",
                   "send", "wait", "answer", "exit"},
         s.pc = "read_argument" => k = a,
         s.pc = "filter" =>
           "filter_pos_nums" \notin missing /\ (missing = {} => k = b),
         s.pc = "calc" => "calc_avg" \notin missing /\ (missing = {} => k = c),
         missing = {} => s.pc \in {"read_argument", "filter", "calc", "exit"}
  PROVE  Worker(s, missing, a, b, c, d)
<1>1. Linked(s.open, k, m)
  BY DEF Linked
<1>2. (k = a => m = b) /\ (k = b => m = c) /\ (k = c => m = d)
  BY DEF Link
<1>3. Linked(s.open, a, b) \/ Linked(s.open, b, c) \/ Linked(s.open, c, d)
  BY <1>1 DEF Link
<1>4. /\ s.pc = "read_argument" => Linked(s.open, a, b)
      /\ missing = {} /\ s.pc = "filter" => Linked(s.open, b, c)
      /\ missing = {} /\ s.pc = "calc" => Linked(s.open, c, d)
  BY <1>1, <1>2
<1>5. Extra0(s)
  BY DEF Extra0
<1> QED BY <1>3, <1>4, <1>5 DEF Worker

(* The effect of a step.                                                     *)
LEMMA EffectFacts ==
  ASSUME TypeInv, NEW x \in Procs, NEW s \in Processes, NEW C, step(x, s, C),
         NEW a, NEW b, NEW c, NEW d, NEW k, NEW m, Link(k, m, a, b, c, d),
         s.parent = proc[x].parent, Worker(s, missing, a, b, c, d),
         s.open[0] = End(k, "r"), s.open[1] = End(m, "w"), DOMAIN s.open = 0..2,
         UNCHANGED <<screen, failures>>
  PROVE  Effect(x, s, C, k, m, a, b, c, d)
<1>1. /\ proc'[x] = s /\ \A y \in Procs \ {x} : proc'[y] = proc[y]
      /\ \A n \in PipeIds : content'[n] \in {C[n], <<>>}
      /\ \A n \in PipeIds, y \in Procs : \A f \in DOMAIN proc'[y].open :
           proc'[y].open[f] \in {End(n, "r"), End(n, "w")} => content'[n] = C[n]
  BY StepFacts
<1>2. Steps(x, s, C)
  BY <1>1, Zenon DEF Steps
<1> QED BY <1>2 DEF Effect

(* The steps of a coprocess one by one.  At its exit() it writes what is     *)
(* pending to the pipe m.                                                    *)
LEMMA WorkerFlush ==
  ASSUME TypeInv, program = "pipeline", NEW a, NEW b, NEW c, NEW d, NEW k, NEW m,
         NEW x, Stands(x, k, m, a, b, c, d), exit_flush(x)
  PROVE  \E s, C : Effect(x, s, C, k, m, a, b, c, d) /\ FlushMove(x, s, C, m)
<1> DEFINE r == proc[x]
           s == [r EXCEPT !.pending = Tail(@)]
           C == sent(content, x, STDOUT, SubSeq(r.pending, 1, 1))
<1>1. /\ x \in Procs /\ r \in Processes /\ m \in PipeIds /\ 0 \notin PipeIds
      /\ content \in Contents /\ PipeOf(x, STDOUT) = m /\ r.pc = "exit"
      /\ r.pending # <<>> /\ r.pending \in Seq(Chunks)
      /\ Link(k, m, a, b, c, d) /\ Worker(r, missing, a, b, c, d)
      /\ r.open[0] = End(k, "r") /\ r.open[1] = End(m, "w")
  BY PipelineFacts, ProcessFacts DEF Stands, exit_flush
<1>2. CanWrite(x, STDOUT) /\ step(x, s, C) /\ UNCHANGED <<screen, failures>>
  BY <1>1 DEF exit_flush
<1>3. /\ s \in Processes /\ s.fd = r.fd /\ s.parent = r.parent /\ s.open = r.open
      /\ Becomes(s, "exit", r.buffer, Tail(r.pending))
  <2>1. Tail(r.pending) \in Seq(Chunks)
    BY <1>1
  <2> QED BY <1>1, <2>1 DEF Processes, Becomes
<1>4. DOMAIN r.open = 0..2 /\ r.fd[0] = <<3, 4>> /\ r.fd[1] = <<5, 6>>
  BY <1>1 DEF Worker, Extra0
<1>5. C = [content EXCEPT ![m] = Append(@, r.pending[1])]
  <2>1. content[m] \in Seq(Chunks)
    BY <1>1 DEF Contents
  <2>2. content[m] \o SubSeq(r.pending, 1, 1) = Append(content[m], r.pending[1])
    <3>1. PICK q \in Seq(Chunks), w \in Seq(Chunks) :
            q = content[m] /\ w = r.pending /\ w # <<>>
      BY <1>1, <2>1
    <3>2. q \o SubSeq(w, 1, 1) = Append(q, w[1])
      BY <3>1
    <3> QED BY <3>1, <3>2
  <2> QED BY <1>1, <2>2 DEF sent, Contents
<1>6. HasReader(m)
  BY <1>1, <1>2 DEF CanWrite
<1> HIDE DEF s, C
<1>7. Worker(s, missing, a, b, c, d)
  <2>1. s.pc = "exit" /\ s.open = r.open
    BY <1>3 DEF Becomes
  <2> QED BY <1>1, <1>3, <1>4, <2>1, WorkerNext
<1>8. Effect(x, s, C, k, m, a, b, c, d)
  BY <1>1, <1>2, <1>3, <1>4, <1>7, EffectFacts
<1>9. FlushMove(x, s, C, m)
  BY <1>1, <1>3, <1>5, <1>6 DEF FlushMove
<1> QED BY <1>8, <1>9

(* A coprocess of which the program is missing: send, wait, close_unused and *)
(* answer find none of the descriptors that they use, and print its buffer.  *)
LEMMA WorkerQuiet ==
  ASSUME TypeInv, program = "pipeline", NEW a, NEW b, NEW c, NEW d, NEW k, NEW m,
         NEW x, Stands(x, k, m, a, b, c, d), NEW s \in Processes, NEW t,
         s.fd = proc[x].fd, s.parent = proc[x].parent, s.open = t,
         Keeps(t, proc[x].open, 0..2), step(x, s, content),
         QuietMove(x, s, content), UNCHANGED <<screen, failures>>
  PROVE  \E u, C : Effect(x, u, C, k, m, a, b, c, d) /\ QuietMove(x, u, C)
<1>1. /\ x \in Procs /\ Link(k, m, a, b, c, d) /\ Worker(proc[x], missing, a, b, c, d)
      /\ proc[x].open[0] = End(k, "r") /\ proc[x].open[1] = End(m, "w")
  BY DEF Stands
<1>2. t[0] = proc[x].open[0] /\ t[1] = proc[x].open[1] /\ DOMAIN t = 0..2
  BY DEF Keeps
<1>3. /\ s.pc \in {"send", "wait", "answer", "exit"}
      /\ proc[x].pc \in {"close", "send", "wait", "answer"}
  BY DEF QuietMove, Becomes
<1>4. missing # {} /\ s.fd[0] = <<3, 4>> /\ s.fd[1] = <<5, 6>>
  BY <1>1, <1>3 DEF Worker
<1>5. Worker(s, missing, a, b, c, d)
  BY <1>1, <1>2, <1>3, <1>4, WorkerNext
<1>6. Effect(x, s, content, k, m, a, b, c, d)
  BY <1>1, <1>2, <1>5, EffectFacts
<1> QED BY <1>6

(* A coprocess that goes on with the code of its parent writes its argument  *)
(* to a descriptor it does not have open.                                    *)
LEMMA WorkerSend ==
  ASSUME TypeInv, program = "pipeline", NEW a, NEW b, NEW c, NEW d, NEW k, NEW m,
         NEW x, Stands(x, k, m, a, b, c, d), send(x), UNCHANGED <<screen, failures>>
  PROVE  \E s, C : Effect(x, s, C, k, m, a, b, c, d) /\ QuietMove(x, s, C)
<1>1. /\ x \in Procs /\ proc[x] \in Processes /\ proc[x].pc = "send"
      /\ DOMAIN proc[x].open = 0..2 /\ proc[x].fd[0] = <<3, 4>>
  BY PipelineFacts DEF Stands, Worker, Extra0, send
<1> DEFINE t == close(proc[x].open, {4})
           s == [proc[x] EXCEPT !.pc = "wait", !.open = t]
<1>2. step(x, s, content)
  <2>1. PICK f : f = proc[x].fd[0][2] /\ f = 4
    BY <1>1
  <2>2. ~IsOpen(x, f)
    BY <1>1, <2>1 DEF IsOpen
  <2>3. step(x, [proc[x] EXCEPT !.pc = "wait", !.open = close(proc[x].open, {f})], content)
    BY <2>1, <2>2, Zenon DEF send
  <2> QED BY <2>1, <2>3
<1>3. Keeps(t, proc[x].open, 0..2)
  <2>1. DOMAIN proc[x].open \ {4} = 0..2
    BY <1>1
  <2> QED BY <1>1, <2>1, Closed
<1> HIDE DEF t
<1>4. /\ s \in Processes /\ s.fd = proc[x].fd /\ s.parent = proc[x].parent
      /\ s.open = t /\ Becomes(s, "wait", proc[x].buffer, proc[x].pending)
  BY <1>1, <1>3 DEF Processes, Points, Keeps, Becomes
<1> HIDE DEF s
<1>5. QuietMove(x, s, content)
  BY <1>1, <1>4 DEF QuietMove
<1> QED BY <1>2, <1>3, <1>4, <1>5, WorkerQuiet

(* It waits for its children.                                                *)
LEMMA WorkerWait ==
  ASSUME TypeInv, program = "pipeline", NEW a, NEW b, NEW c, NEW d, NEW k, NEW m,
         NEW x, Stands(x, k, m, a, b, c, d), wait(x), UNCHANGED <<screen, failures>>
  PROVE  \E s, C : Effect(x, s, C, k, m, a, b, c, d) /\ QuietMove(x, s, C)
<1>1. /\ x \in Procs /\ proc[x] \in Processes /\ proc[x].pc = "wait"
      /\ DOMAIN proc[x].open = 0..2 /\ proc[x].open \in Table
  BY PipelineFacts DEF Stands, Worker, Extra0, wait
<1> DEFINE s == [proc[x] EXCEPT !.pc = "answer"]
<1>2. step(x, s, content)
  BY DEF wait
<1>3. /\ s \in Processes /\ s.fd = proc[x].fd /\ s.parent = proc[x].parent
      /\ s.open = proc[x].open /\ Becomes(s, "answer", proc[x].buffer, proc[x].pending)
  BY <1>1 DEF Processes, Points, Becomes
<1> HIDE DEF s
<1>4. Keeps(proc[x].open, proc[x].open, 0..2)
  BY <1>1 DEF Keeps
<1>5. QuietMove(x, s, content)
  BY <1>1, <1>3 DEF QuietMove
<1> QED BY <1>2, <1>3, <1>4, <1>5, WorkerQuiet

(* It closes the ends of the pipes that it does not use.                     *)
LEMMA WorkerClose ==
  ASSUME TypeInv, program = "pipeline", NEW a, NEW b, NEW c, NEW d, NEW k, NEW m,
         NEW x, Stands(x, k, m, a, b, c, d), close_unused(x),
         UNCHANGED <<screen, failures>>
  PROVE  \E s, C : Effect(x, s, C, k, m, a, b, c, d) /\ QuietMove(x, s, C)
<1>1. /\ x \in Procs /\ proc[x] \in Processes /\ proc[x].pc = "close"
      /\ proc[x].fd[0] = <<3, 4>> /\ proc[x].fd[1] = <<5, 6>>
      /\ Extra0(proc[x]) \/ Extra3(proc[x]) \/ ExtraB(proc[x])
      /\ proc[x].fd \in [0..3 -> Fds \X Fds]
  BY PipelineFacts, ProcessFacts DEF Stands, Worker, close_unused, Processes
<1> DEFINE F == parent_closes(proc[x])
           t == close(proc[x].open, F)
           s == [proc[x] EXCEPT !.pc = "send", !.buffer = <<"arg">>, !.open = t]
<1>2. step(x, s, content)
  BY Zenon DEF close_unused
<1>3. DOMAIN proc[x].open \ F = 0..2
  <2>1. PICK e, f, g, h \in Fds : proc[x].fd[2] = <<e, f>> /\ proc[x].fd[3] = <<g, h>>
    BY <1>1
  <2>2. F = {5, 6, e, f, 3, h}
    BY <1>1, <2>1 DEF parent_closes, Both
  <2>3. CASE Extra0(proc[x])
    BY <2>2, <2>3 DEF Extra0, Fds
  <2>4. CASE Extra3(proc[x])
    <3>1. h = 4 /\ DOMAIN proc[x].open = 0..4
      BY <2>1, <2>4 DEF Extra3
    <3> QED BY <2>2, <3>1 DEF Fds
  <2>5. CASE ExtraB(proc[x])
    <3>1. e = 3 /\ f = 4 /\ h = 6 /\ DOMAIN proc[x].open = 0..6
      BY <2>1, <2>5 DEF ExtraB
    <3> QED BY <2>2, <3>1 DEF Fds
  <2> QED BY <1>1, <2>3, <2>4, <2>5
<1> HIDE DEF F
<1>4. Keeps(t, proc[x].open, 0..2)
  BY <1>1, <1>3, Closed
<1> HIDE DEF t
<1>5. /\ s \in Processes /\ s.fd = proc[x].fd /\ s.parent = proc[x].parent
      /\ s.open = t /\ Becomes(s, "send", <<"arg">>, proc[x].pending)
  <2>1. <<"arg">> \in Seq(Chunks)
    BY DEF Chunks
  <2> QED BY <1>1, <1>4, <2>1 DEF Processes, Points, Keeps, Becomes
<1> HIDE DEF s
<1>6. QuietMove(x, s, content)
  BY <1>1, <1>5 DEF QuietMove
<1> QED BY <1>2, <1>4, <1>5, <1>6, WorkerQuiet

(* What print_answer does in the pipeline, for any of its processes.         *)
LEMMA PrintFacts ==
  ASSUME TypeInv, program = "pipeline", NEW p \in Procs, NEW s \in Seq(Chunks),
         print_answer(p, proc[p], s)
  PROVE  \E u \in Processes :
           /\ step(p, u, content) /\ UNCHANGED screen
           /\ Becomes(u, "exit", as_string(s), proc[p].pending \o as_string(s))
           /\ u.fd = proc[p].fd /\ u.parent = proc[p].parent
           /\ Keeps(u.open, proc[p].open, DOMAIN proc[p].open \ {proc[p].fd[3][1]})
<1> DEFINE r == proc[p]
           text == as_string(s)
           f == r.fd[3][1]
           t == close(r.open, {f})
           e == [r EXCEPT !.pc = "exit", !.buffer = text, !.open = t]
           u == [e EXCEPT !.pending = @ \o text]
<1>1. r \in Processes /\ buffered
  BY PipelineFacts
<1>2. r.open \in Table /\ r.pending \in Seq(Chunks) /\ text \in Seq(Chunks)
  BY <1>1, ProcessFacts, AsStringFacts
<1>3. step(p, u, content) /\ UNCHANGED screen
  BY <1>1 DEF print_answer, answer_closes, Result
<1> HIDE DEF text
<1>4. Keeps(t, r.open, DOMAIN r.open \ {f})
  <2>1. PICK D : D = DOMAIN r.open \ {f}
    OBVIOUS
  <2> QED BY <1>1, <2>1, Closed
<1> HIDE DEF t
<1>5. e \in Processes /\ e.pc = "exit" /\ e.buffer = text /\ e.open = t
      /\ e.pending = r.pending /\ e.fd = r.fd /\ e.parent = r.parent
  BY <1>1, <1>2, <1>4 DEF Processes, Points, Keeps
<1> HIDE DEF e
<1>6. r.pending \o text \in Seq(Chunks)
  BY <1>2
<1>7. u \in Processes /\ u.pc = "exit" /\ u.buffer = text /\ u.open = t
      /\ u.pending = r.pending \o text /\ u.fd = r.fd /\ u.parent = r.parent
  BY <1>5, <1>6 DEF Processes
<1> HIDE DEF u
<1> QED BY <1>3, <1>4, <1>7 DEF text, Becomes

(* It reads from a descriptor that is not open, and prints its buffer again. *)
LEMMA WorkerAnswer ==
  ASSUME TypeInv, program = "pipeline", NEW a, NEW b, NEW c, NEW d, NEW k, NEW m,
         NEW x, Stands(x, k, m, a, b, c, d), answer(x)
  PROVE  \E s, C : Effect(x, s, C, k, m, a, b, c, d) /\ QuietMove(x, s, C)
<1>1. /\ x \in Procs /\ proc[x] \in Processes /\ proc[x].pc = "answer"
      /\ DOMAIN proc[x].open = 0..2 /\ UNCHANGED failures
  BY PipelineFacts DEF Stands, Worker, Extra0, answer
<1>2. PICK f \in Fds : f = proc[x].fd[3][1]
  BY <1>1, ProcessFacts
<1>3. ~IsOpen(x, Result(x))
  BY <1>1, <1>2 DEF IsOpen, Result, Fds
<1>4. print_answer(x, proc[x], proc[x].buffer)
  BY <1>3 DEF answer
<1>5. proc[x].buffer \in Seq(Chunks)
  BY <1>1, ProcessFacts
<1>6. PICK u \in Processes :
           /\ step(x, u, content) /\ UNCHANGED screen
           /\ Becomes(u, "exit", as_string(proc[x].buffer),
                      proc[x].pending \o as_string(proc[x].buffer))
           /\ u.fd = proc[x].fd /\ u.parent = proc[x].parent
           /\ Keeps(u.open, proc[x].open, DOMAIN proc[x].open \ {f})
  BY <1>1, <1>2, <1>4, <1>5, PrintFacts
<1>7. DOMAIN proc[x].open \ {f} = 0..2
  BY <1>1, <1>2 DEF Fds
<1>8. QuietMove(x, u, content)
  BY <1>1, <1>6 DEF QuietMove
<1>9. PICK t : t = u.open /\ Keeps(t, proc[x].open, 0..2)
  BY <1>6, <1>7
<1> QED BY <1>1, <1>6, <1>8, <1>9, WorkerQuiet

(* exec(), once the descriptors of a child are in place.                     *)
LEMMA SetupExec ==
  ASSUME TypeInv, program = "pipeline", NEW a, NEW b, NEW c, NEW d, NEW k, NEW m,
         NEW x \in Procs, Link(k, m, a, b, c, d),
         NEW F \in SUBSET Fds, NEW i \in 0..3, NEW j \in 0..3,
         NEW e, NEW f, e = proc[x].fd[i][1], f = proc[x].fd[j][2],
         NEW name, NEW point, NEW next,
         \/ /\ name = "filter_pos_nums" /\ point = "filter" /\ next = "fork_3"
            /\ (missing = {} => k = b)
         \/ /\ name = "calc_avg" /\ point = "calc" /\ next = "close"
            /\ (missing = {} => k = c),
         step(x, execl(plumb(proc[x], F, i, j), name, point, <<>>, next), content),
         0..2 \subseteq DOMAIN proc[x].open,
         DOMAIN proc[x].open \ (F \cup {e, f}) = 0..2,
         (IF e \in DOMAIN proc[x].open \ F THEN proc[x].open[e] ELSE proc[x].open[0])
           = End(k, "r"),
         (IF f \in DOMAIN proc[x].open \ F THEN proc[x].open[f] ELSE proc[x].open[1])
           = End(m, "w"),
         proc[x].fd[0] = <<3, 4>>, proc[x].fd[1] = <<5, 6>>,
         UNCHANGED <<screen, failures>>
  PROVE  \E s : /\ Effect(x, s, content, k, m, a, b, c, d)
                /\ ExecMove(s, proc[x], name, point, <<>>, next)
<1> DEFINE r == proc[x]
<1>1. r \in Processes
  BY PipelineFacts
<1>2. PICK w : w = plumb(r, F, i, j)
  OBVIOUS
<1>3. Plumbed(r, w, F, e, f)
  BY <1>1, <1>2, PlumbFacts
<1>4. /\ w \in Processes /\ DOMAIN w.open = 0..2 /\ w.open[0] = End(k, "r")
      /\ w.open[1] = End(m, "w") /\ w.fd = r.fd /\ w.parent = r.parent
      /\ w.buffer = r.buffer /\ w.pending = r.pending
  BY <1>3 DEF Plumbed
<1>5. PICK s : s = execl(w, name, point, <<>>, next)
  OBVIOUS
<1>6. Executed(w, s, name, point, <<>>, next)
  <2>1. point \in Points /\ next \in Points /\ <<>> \in Seq(Chunks)
    BY DEF Points
  <2> QED BY <1>4, <1>5, <2>1, ExeclFacts
<1>7. step(x, s, content)
  BY <1>2, <1>5
<1>8. ExecMove(s, r, name, point, <<>>, next)
  BY <1>4, <1>6 DEF Executed, ExecMove, Becomes
<1>9. /\ s \in Processes /\ s.open = w.open /\ s.fd = r.fd /\ s.parent = r.parent
      /\ (name \in missing => s.pc = next) /\ (name \notin missing => s.pc = point)
  BY <1>4, <1>6 DEF Executed
<1>10. Worker(s, missing, a, b, c, d)
  <2>1. missing = {} => name \notin missing
    OBVIOUS
  <2> QED BY <1>4, <1>9, <2>1, WorkerNext
<1>11. Effect(x, s, content, k, m, a, b, c, d)
  BY <1>4, <1>7, <1>9, <1>10, EffectFacts
<1> QED BY <1>8, <1>11

(* The sets of descriptors that the children close.                          *)
LEMMA SetupSets ==
  ASSUME NEW r \in Processes, r.fd[0] = <<3, 4>>, r.fd[1] = <<5, 6>>
  PROVE  \E e, f, g, h \in Fds :
           /\ r.fd[2] = <<e, f>> /\ r.fd[3] = <<g, h>>
           /\ {r.fd[0][2], r.fd[1][1]} = {4, 5}
           /\ Both(r, 0) \cup {r.fd[1][2], r.fd[2][1]} = {3, 4, 6, e}
           /\ Both(r, 0) \cup Both(r, 1) \cup {r.fd[2][2], r.fd[3][1]}
                = {3, 4, 5, 6, f, g}
           /\ {4, 5} \in SUBSET Fds /\ {3, 4, 6, e} \in SUBSET Fds
           /\ {3, 4, 5, 6, f, g} \in SUBSET Fds
<1>1. PICK e, f, g, h \in Fds : r.fd[2] = <<e, f>> /\ r.fd[3] = <<g, h>>
  BY DEF Processes
<1>2. /\ {r.fd[0][2], r.fd[1][1]} = {4, 5}
      /\ Both(r, 0) \cup {r.fd[1][2], r.fd[2][1]} = {3, 4, 6, e}
      /\ Both(r, 0) \cup Both(r, 1) \cup {r.fd[2][2], r.fd[3][1]} = {3, 4, 5, 6, f, g}
  BY <1>1 DEF Both
<1>3. /\ {4, 5} \in SUBSET Fds /\ {3, 4, 6, e} \in SUBSET Fds
      /\ {3, 4, 5, 6, f, g} \in SUBSET Fds
  BY DEF Fds
<1> QED BY <1>1, <1>2, <1>3

(* The child of such a coprocess moves its descriptors and runs its program. *)
LEMMA WorkerSetup ==
  ASSUME TypeInv, program = "pipeline", NEW a, NEW b, NEW c, NEW d, NEW k, NEW m,
         NEW x, Stands(x, k, m, a, b, c, d), setup(x), UNCHANGED <<screen, failures>>
  PROVE  \E s, C : Effect(x, s, C, k, m, a, b, c, d) /\ SetupMove(x, s, C)
<1> DEFINE r == proc[x]
<1>1. /\ x \in Procs /\ r \in Processes /\ r.pc \in {"setup_2", "setup_3"}
      /\ r.fd[0] = <<3, 4>> /\ r.fd[1] = <<5, 6>> /\ missing # {}
      /\ Link(k, m, a, b, c, d) /\ r.open[0] = End(k, "r") /\ r.open[1] = End(m, "w")
      /\ (r.pc = "setup_2" => Extra2(r)) /\ (r.pc = "setup_3" => Extra3(r) \/ ExtraB(r))
      /\ 0..2 \subseteq DOMAIN r.open
  BY PipelineFacts DEF Stands, Worker, setup
<1>2. PICK e, f, g, h \in Fds :
           /\ r.fd[2] = <<e, f>> /\ r.fd[3] = <<g, h>>
           /\ Both(r, 0) \cup {r.fd[1][2], r.fd[2][1]} = {3, 4, 6, e}
           /\ Both(r, 0) \cup Both(r, 1) \cup {r.fd[2][2], r.fd[3][1]}
                = {3, 4, 5, 6, f, g}
           /\ {3, 4, 6, e} \in SUBSET Fds /\ {3, 4, 5, 6, f, g} \in SUBSET Fds
  BY <1>1, SetupSets
<1>3. r.fd[1][1] = 5 /\ r.fd[2][2] = f /\ r.fd[2][1] = e /\ r.fd[3][2] = h
  BY <1>1, <1>2
<1>4. CASE r.pc = "setup_2"
  <2>1. step(x, execl(plumb(r, {3, 4, 6, e}, 1, 2), "filter_pos_nums", "filter",
                      <<>>, "fork_3"), content)
    <3>1. PICK F : F = Both(r, 0) \cup {r.fd[1][2], r.fd[2][1]}
      OBVIOUS
    <3>2. step(x, execl(plumb(r, F, 1, 2), "filter_pos_nums", "filter",
                        <<>>, "fork_3"), content)
      BY <1>4, <3>1 DEF setup
    <3> QED BY <1>2, <3>1, <3>2
  <2>2. e = 3 /\ f = 4 /\ DOMAIN r.open = 0..4
    BY <1>1, <1>2, <1>4 DEF Extra2
  <2>3. /\ DOMAIN r.open \ ({3, 4, 6, e} \cup {5, f}) = 0..2
        /\ 5 \notin DOMAIN r.open \ {3, 4, 6, e} /\ f \notin DOMAIN r.open \ {3, 4, 6, e}
    BY <2>2
  <2>4. PICK F \in SUBSET Fds : F = {3, 4, 6, e}
    BY <1>2
  <2>5. 1 \in 0..3 /\ 2 \in 0..3
    OBVIOUS
  <2>6. \E s : /\ Effect(x, s, content, k, m, a, b, c, d)
               /\ ExecMove(s, r, "filter_pos_nums", "filter", <<>>, "fork_3")
    BY <1>1, <1>3, <2>1, <2>3, <2>4, <2>5, SetupExec
  <2> QED BY <1>4, <2>6 DEF SetupMove
<1>5. CASE r.pc = "setup_3"
  <2>1. step(x, execl(plumb(r, {3, 4, 5, 6, f, g}, 2, 3), "calc_avg", "calc",
                      <<>>, "close"), content)
    <3>1. PICK F : F = Both(r, 0) \cup Both(r, 1) \cup {r.fd[2][2], r.fd[3][1]}
      OBVIOUS
    <3>2. step(x, execl(plumb(r, F, 2, 3), "calc_avg", "calc", <<>>, "close"), content)
      BY <1>5, <3>1 DEF setup
    <3> QED BY <1>2, <3>1, <3>2
  <2>2. DOMAIN r.open = 0..4 \/ DOMAIN r.open = 0..6
    BY <1>1, <1>5 DEF Extra3, ExtraB
  <2>3. e \notin 0..2 /\ f \notin 0..2 /\ g \notin 0..2 /\ h \notin 0..2
    BY DEF Fds
  <2>4. /\ DOMAIN r.open \ ({3, 4, 5, 6, f, g} \cup {e, h}) = 0..2
        /\ e \notin DOMAIN r.open \ {3, 4, 5, 6, f, g}
        /\ h \notin DOMAIN r.open \ {3, 4, 5, 6, f, g}
    BY <2>2, <2>3
  <2>5. PICK F \in SUBSET Fds : F = {3, 4, 5, 6, f, g}
    BY <1>2
  <2>6. 2 \in 0..3 /\ 3 \in 0..3
    OBVIOUS
  <2>7. \E s : /\ Effect(x, s, content, k, m, a, b, c, d)
               /\ ExecMove(s, r, "calc_avg", "calc", <<>>, "close")
    BY <1>1, <1>3, <2>1, <2>4, <2>5, <2>6, SetupExec
  <2> QED BY <1>5, <2>7 DEF SetupMove
<1> QED BY <1>1, <1>4, <1>5

(* A child of Main puts the pipes it was forked for in their places.         *)
LEMMA RawSetup ==
  ASSUME TypeInv, program = "pipeline", NEW a, NEW b, NEW c, NEW d,
         NEW x \in Procs, Shape(a, b, c, d), Raw(proc[x], a, b, c, d), setup(x),
         UNCHANGED <<screen, failures>>
  PROVE  \E s, C, k, m : Effect(x, s, C, k, m, a, b, c, d) /\ SetupMove(x, s, C)
<1> DEFINE r == proc[x]
<1>1. /\ r \in Processes /\ r.fd[0] = <<3, 4>> /\ r.fd[1] = <<5, 6>>
      /\ r.pc \in {"setup_1", "setup_2", "setup_3"}
      /\ 0..2 \subseteq DOMAIN r.open /\ 0 \notin PipeIds
  BY PipelineFacts DEF Raw, Ended
<1>2. PICK e, f, g, h \in Fds :
           /\ r.fd[2] = <<e, f>> /\ r.fd[3] = <<g, h>>
           /\ {r.fd[0][2], r.fd[1][1]} = {4, 5}
           /\ Both(r, 0) \cup {r.fd[1][2], r.fd[2][1]} = {3, 4, 6, e}
           /\ Both(r, 0) \cup Both(r, 1) \cup {r.fd[2][2], r.fd[3][1]}
                = {3, 4, 5, 6, f, g}
           /\ {4, 5} \in SUBSET Fds /\ {3, 4, 6, e} \in SUBSET Fds
           /\ {3, 4, 5, 6, f, g} \in SUBSET Fds
  BY <1>1, SetupSets
<1>3. /\ r.fd[0][1] = 3 /\ r.fd[1][2] = 6 /\ r.fd[1][1] = 5 /\ r.fd[2][2] = f
      /\ r.fd[2][1] = e /\ r.fd[3][2] = h
  BY <1>1, <1>2
<1>4. /\ r.open[3] = End(a, "r") /\ r.open[4] = End(a, "w")
      /\ r.open[5] = End(b, "r") /\ r.open[6] = End(b, "w")
      /\ r.pc # "setup_1" => r.open[7] = End(c, "r") /\ r.open[8] = End(c, "w")
      /\ r.pc = "setup_3" => r.open[9] = End(d, "r") /\ r.open[10] = End(d, "w")
  BY DEF Raw, Pair
<1>5. ASSUME NEW n, NEW y \in {"r", "w"}, NEW i \in DOMAIN r.open, r.open[i] = End(n, y)
      PROVE  n \in PipeIds
  <2>1. PICK u \in Descriptors : u = End(n, y)
    BY <1>5, PipelineFacts
  <2>2. u.pipe = n /\ u.end = y /\ y # "tty" /\ Terminal.end = "tty"
    BY <2>1 DEF End, Terminal
  <2>3. u.pipe \in PipeIds \cup {0} /\ (u.pipe = 0 <=> u = Terminal)
    BY DescriptorFacts
  <2> QED BY <2>2, <2>3
<1>6. /\ a # b /\ c \notin {a, b} /\ d \notin {a, b} /\ (c = d => c = 0)
  BY DEF Shape, Made
<1>7. CASE r.pc = "setup_1"
  <2>1. DOMAIN r.open = 0..6
    BY <1>7 DEF Raw
  <2>2. Link(a, b, a, b, c, d)
    <3>1. 3 \in DOMAIN r.open /\ 6 \in DOMAIN r.open
      BY <2>1
    <3>2. a \in PipeIds /\ b \in PipeIds
      BY <1>4, <1>5, <3>1
    <3> QED BY <1>6, <3>2 DEF Link
  <2>3. PICK w : w = plumb(r, {4, 5}, 0, 1)
    OBVIOUS
  <2>4. Plumbed(r, w, {4, 5}, 3, 6)
    <3>1. 0 \in 0..3 /\ 1 \in 0..3
      OBVIOUS
    <3> QED BY <1>1, <1>2, <1>3, <2>3, <3>1, PlumbFacts
  <2>5. /\ w \in Processes /\ DOMAIN w.open = 0..2 /\ w.open[0] = End(a, "r")
        /\ w.open[1] = End(b, "w") /\ w.fd = r.fd /\ w.parent = r.parent
        /\ w.buffer = r.buffer /\ w.pending = r.pending
    BY <1>4, <2>1, <2>4 DEF Plumbed
  <2> DEFINE s == [w EXCEPT !.pc = "read_argument"]
  <2>6. step(x, s, content)
    <3>1. PICK F : F = {r.fd[0][2], r.fd[1][1]}
      OBVIOUS
    <3>2. step(x, [plumb(r, F, 0, 1) EXCEPT !.pc = "read_argument"], content)
      BY <1>7, <3>1 DEF setup
    <3> QED BY <1>2, <2>3, <3>1, <3>2
  <2>7. /\ s \in Processes /\ s.open = w.open /\ s.fd = r.fd /\ s.parent = r.parent
        /\ s.pc = "read_argument" /\ s.buffer = r.buffer /\ s.pending = r.pending
    BY <2>5 DEF Processes, Points
  <2> HIDE DEF s
  <2>8. Worker(s, missing, a, b, c, d)
    BY <1>1, <2>2, <2>5, <2>7, WorkerNext
  <2>9. Effect(x, s, content, a, b, a, b, c, d)
    BY <2>2, <2>5, <2>6, <2>7, <2>8, EffectFacts
  <2>10. SetupMove(x, s, content)
    BY <1>7, <2>7 DEF SetupMove, Becomes
  <2> QED BY <2>9, <2>10
<1>8. CASE r.pc = "setup_2"
  <2>1. DOMAIN r.open = 0..8 /\ e = 7 /\ f = 8
    BY <1>2, <1>8 DEF Raw
  <2>2. Link(b, c, a, b, c, d)
    <3>1. 5 \in DOMAIN r.open /\ 8 \in DOMAIN r.open
      BY <2>1
    <3>2. b \in PipeIds /\ c \in PipeIds
      BY <1>4, <1>5, <1>8, <3>1
    <3> QED BY <1>6, <3>2 DEF Link
  <2>3. step(x, execl(plumb(r, {3, 4, 6, e}, 1, 2), "filter_pos_nums", "filter",
                      <<>>, "fork_3"), content)
    <3>1. PICK F : F = Both(r, 0) \cup {r.fd[1][2], r.fd[2][1]}
      OBVIOUS
    <3>2. step(x, execl(plumb(r, F, 1, 2), "filter_pos_nums", "filter",
                        <<>>, "fork_3"), content)
      BY <1>8, <3>1 DEF setup
    <3> QED BY <1>2, <3>1, <3>2
  <2>4. /\ DOMAIN r.open \ ({3, 4, 6, e} \cup {5, f}) = 0..2
        /\ 5 \in DOMAIN r.open \ {3, 4, 6, e} /\ f \in DOMAIN r.open \ {3, 4, 6, e}
        /\ r.open[f] = End(c, "w")
    BY <1>4, <1>8, <2>1
  <2>5. PICK F \in SUBSET Fds : F = {3, 4, 6, e}
    BY <1>2
  <2>6. 1 \in 0..3 /\ 2 \in 0..3
    OBVIOUS
  <2>7. \E s : /\ Effect(x, s, content, b, c, a, b, c, d)
               /\ ExecMove(s, r, "filter_pos_nums", "filter", <<>>, "fork_3")
    <3>1. PICK z : /\ z = r.fd[1][1] /\ z \in DOMAIN r.open \ F /\ r.open[z] = End(b, "r")
                   /\ DOMAIN r.open \ (F \cup {z, f}) = 0..2
      BY <1>3, <1>4, <2>4, <2>5
    <3>2. f \in DOMAIN r.open \ F /\ r.open[f] = End(c, "w") /\ f = r.fd[2][2]
      BY <1>3, <2>4, <2>5
    <3>3. step(x, execl(plumb(r, F, 1, 2), "filter_pos_nums", "filter",
                        <<>>, "fork_3"), content)
      BY <2>3, <2>5
    <3> QED BY <1>1, <2>2, <2>6, <3>1, <3>2, <3>3, SetupExec
  <2> QED BY <1>8, <2>7 DEF SetupMove
<1>9. CASE r.pc = "setup_3"
  <2>1. DOMAIN r.open = 0..10 /\ e = 7 /\ f = 8 /\ g = 9 /\ h = 10
    BY <1>2, <1>9 DEF Raw
  <2>2. Link(c, d, a, b, c, d)
    <3>1. 7 \in DOMAIN r.open /\ 10 \in DOMAIN r.open
      BY <2>1
    <3>2. c \in PipeIds /\ d \in PipeIds
      BY <1>4, <1>5, <1>9, <3>1
    <3> QED BY <1>1, <1>6, <3>2 DEF Link
  <2>3. step(x, execl(plumb(r, {3, 4, 5, 6, f, g}, 2, 3), "calc_avg", "calc",
                      <<>>, "close"), content)
    <3>1. PICK F : F = Both(r, 0) \cup Both(r, 1) \cup {r.fd[2][2], r.fd[3][1]}
      OBVIOUS
    <3>2. step(x, execl(plumb(r, F, 2, 3), "calc_avg", "calc", <<>>, "close"), content)
      BY <1>9, <3>1 DEF setup
    <3> QED BY <1>2, <3>1, <3>2
  <2>4. /\ DOMAIN r.open \ ({3, 4, 5, 6, f, g} \cup {e, h}) = 0..2
        /\ e \in DOMAIN r.open \ {3, 4, 5, 6, f, g}
        /\ h \in DOMAIN r.open \ {3, 4, 5, 6, f, g}
        /\ r.open[e] = End(c, "r") /\ r.open[h] = End(d, "w")
    BY <1>4, <1>9, <2>1
  <2>5. PICK F \in SUBSET Fds : F = {3, 4, 5, 6, f, g}
    BY <1>2
  <2>6. 2 \in 0..3 /\ 3 \in 0..3
    OBVIOUS
  <2>7. \E s : /\ Effect(x, s, content, c, d, a, b, c, d)
               /\ ExecMove(s, r, "calc_avg", "calc", <<>>, "close")
    BY <1>1, <1>3, <2>2, <2>3, <2>4, <2>5, <2>6, SetupExec
  <2> QED BY <1>9, <2>7 DEF SetupMove
<1> QED BY <1>1, <1>7, <1>8, <1>9

(* The first coprocess gets its argument, and what it does with it.          *)
LEMMA WorkerArgument ==
  ASSUME TypeInv, program = "pipeline", NEW a, NEW b, NEW c, NEW d, NEW k, NEW m,
         NEW x, Stands(x, k, m, a, b, c, d), read_argument(x),
         UNCHANGED <<screen, failures>>
  PROVE  \E s, C : Effect(x, s, C, k, m, a, b, c, d) /\ ArgumentMove(x, s, C, k)
<1> DEFINE r == [proc[x] EXCEPT !.buffer = content[k]]
           out == IF content[k] = <<>> THEN <<>> ELSE NUMBERS
           s == execl(r, "gen_numbers", "exit", out, "fork_2")
           C == [content EXCEPT ![k] = <<>>]
<1>1. /\ x \in Procs /\ proc[x] \in Processes /\ proc[x].pc = "read_argument"
      /\ Link(k, m, a, b, c, d) /\ k \in PipeIds /\ PipeOf(x, STDIN) = k
      /\ proc[x].open[0] = End(k, "r") /\ proc[x].open[1] = End(m, "w")
      /\ DOMAIN proc[x].open = 0..2 /\ proc[x].fd[0] = <<3, 4>>
      /\ proc[x].fd[1] = <<5, 6>> /\ 0 \notin PipeIds /\ content \in Contents
  BY PipelineFacts DEF Stands, Worker, Extra0, read_argument
<1>2. k # 0 /\ content[k] \in Seq(Chunks)
  BY <1>1 DEF Contents
<1>3. step(x, s, C)
  <2>1. received(x, STDIN) = content[k] /\ emptied(x, STDIN) = C
    BY <1>1, <1>2 DEF received, emptied
  <2> QED BY <2>1 DEF read_argument
<1>4. content[k] # <<>> \/ ~HasWriter(k)
  BY <1>1, <1>2 DEF read_argument, Ready
<1>5. out \in Seq(Chunks)
  <2>1. NUMBERS \in Seq({"pos", "neg"}) /\ {"pos", "neg"} \subseteq Chunks
    BY ProgramsAssumption DEF Chunks
  <2>2. NUMBERS \in Seq(Chunks)
    BY <2>1
  <2> QED BY <2>2
<1> HIDE DEF out
<1>6. /\ r \in Processes /\ r.open = proc[x].open /\ r.fd = proc[x].fd
      /\ r.parent = proc[x].parent /\ r.buffer = content[k]
      /\ r.pending = proc[x].pending
  BY <1>1, <1>2 DEF Processes
<1> HIDE DEF r
<1>7. Executed(r, s, "gen_numbers", "exit", out, "fork_2")
  <2>1. "exit" \in Points /\ "fork_2" \in Points
    BY DEF Points
  <2> QED BY <1>5, <1>6, <2>1, ExeclFacts
<1> HIDE DEF s, C
<1>8. /\ s \in Processes /\ s.open = r.open /\ s.fd = r.fd /\ s.parent = r.parent
      /\ "gen_numbers" \in missing => s.pc = "fork_2"
      /\ "gen_numbers" \notin missing => s.pc = "exit"
  BY <1>7 DEF Executed
<1>9. Worker(s, missing, a, b, c, d)
  <2>1. missing = {} => s.pc = "exit"
    BY <1>8
  <2> QED BY <1>1, <1>6, <1>8, <2>1, WorkerNext
<1>10. Effect(x, s, C, k, m, a, b, c, d)
  BY <1>1, <1>3, <1>6, <1>8, <1>9, EffectFacts
<1>11. ArgumentMove(x, s, C, k)
  BY <1>1, <1>4, <1>6, <1>7 DEF ArgumentMove, Executed, Becomes, out, C
<1> QED BY <1>10, <1>11

(* filter_pos_nums and calc_avg.                                             *)
LEMMA WorkerFilter ==
  ASSUME TypeInv, program = "pipeline", NEW a, NEW b, NEW c, NEW d, NEW k, NEW m,
         NEW x, Stands(x, k, m, a, b, c, d), filter_pos_nums(x),
         UNCHANGED <<screen, failures>>
  PROVE  \E s, C : Effect(x, s, C, k, m, a, b, c, d) /\ FilterMove(x, s, C, k, m)
<1> DEFINE r == proc[x]
<1>1. /\ x \in Procs /\ r \in Processes /\ r.pc = "filter"
      /\ Worker(r, missing, a, b, c, d)
      /\ Link(k, m, a, b, c, d) /\ k \in PipeIds /\ PipeOf(x, STDIN) = k
      /\ m \in PipeIds /\ PipeOf(x, STDOUT) = m /\ k # m
      /\ r.open[0] = End(k, "r") /\ r.open[1] = End(m, "w")
      /\ 0 \notin PipeIds /\ content \in Contents
  BY PipelineFacts DEF Stands, filter_pos_nums
<1>2. DOMAIN r.open = 0..2 /\ r.fd[0] = <<3, 4>> /\ r.fd[1] = <<5, 6>>
  BY <1>1 DEF Worker, Extra0
<1>3. /\ k # 0 /\ content[k] \in Seq(Chunks) /\ content[m] \in Seq(Chunks)
      /\ Input(x) = content[k] /\ Rest(x) = [content EXCEPT ![k] = Tail(@)]
      /\ content[k] # <<>> \/ ~HasWriter(k)
  BY <1>1 DEF Contents, Input, received, Rest, filter_pos_nums, Ready
<1>4. CASE content[k] = <<>>
  <2> DEFINE s == [r EXCEPT !.pc = "exit"]
  <2>1. step(x, s, content)
    BY <1>3, <1>4 DEF filter_pos_nums
  <2>2. /\ s \in Processes /\ s.open = r.open /\ s.fd = r.fd /\ s.parent = r.parent
        /\ Becomes(s, "exit", r.buffer, r.pending)
    BY <1>1 DEF Processes, Points, Becomes
  <2> HIDE DEF s
  <2>3. Worker(s, missing, a, b, c, d)
    <3>1. s.pc = "exit"
      BY <2>2 DEF Becomes
    <3> QED BY <1>1, <1>2, <2>2, <3>1, WorkerNext
  <2>4. Effect(x, s, content, k, m, a, b, c, d)
    BY <1>1, <1>2, <2>1, <2>2, <2>3, EffectFacts
  <2>5. FilterMove(x, s, content, k, m)
    BY <1>1, <1>3, <1>4, <2>2 DEF FilterMove
  <2> QED BY <2>4, <2>5
<1>5. CASE content[k] # <<>> /\ Head(content[k]) = "neg"
  <2> DEFINE C == [content EXCEPT ![k] = Tail(@)]
  <2>1. step(x, r, C)
    BY <1>3, <1>5 DEF filter_pos_nums, Passed
  <2>2. Effect(x, r, C, k, m, a, b, c, d)
    BY <1>1, <1>2, <2>1, EffectFacts
  <2>3. FilterMove(x, r, C, k, m)
    BY <1>1, <1>5 DEF FilterMove, Becomes
  <2> QED BY <2>2, <2>3
<1>6. CASE content[k] # <<>> /\ Head(content[k]) # "neg"
  <2> DEFINE C == [content EXCEPT ![k] = Tail(@), ![m] = Append(@, Head(content[k]))]
             D == sent(Rest(x), x, STDOUT, <<Head(content[k])>>)
  <2>1. CanWrite(x, STDOUT) /\ step(x, r, D)
    BY <1>3, <1>6 DEF filter_pos_nums, Passed
  <2>2. HasReader(m)
    BY <1>1, <2>1 DEF CanWrite
  <2>3. D = C
    <3>1. PICK h : h = Head(content[k])
      OBVIOUS
    <3>2. Rest(x) = [content EXCEPT ![k] = Tail(@)] /\ Rest(x)[m] = content[m]
      BY <1>1, <1>3 DEF Contents
    <3>3. content[m] \o <<h>> = Append(content[m], h)
      BY <1>3
    <3>4. D = [Rest(x) EXCEPT ![m] = @ \o <<h>>]
      BY <1>1, <3>1 DEF sent
    <3>5. D = [Rest(x) EXCEPT ![m] = Append(content[m], h)]
      BY <1>1, <1>3, <3>2, <3>3, <3>4 DEF Contents
    <3>6. C = [[content EXCEPT ![k] = Tail(@)] EXCEPT ![m] = Append(content[m], h)]
      BY <1>1, <3>1 DEF Contents
    <3> QED BY <3>2, <3>5, <3>6
  <2>4. step(x, r, C)
    BY <2>1, <2>3
  <2>5. Effect(x, r, C, k, m, a, b, c, d)
    <3> HIDE DEF C
    <3> QED BY <1>1, <1>2, <2>4, EffectFacts
  <2>6. FilterMove(x, r, C, k, m)
    BY <1>1, <1>6, <2>2 DEF FilterMove, Becomes
  <2> QED BY <2>5, <2>6
<1> QED BY <1>4, <1>5, <1>6

(* calc_avg reads a number from k, or has the average to say.                *)
LEMMA WorkerCalc ==
  ASSUME TypeInv, program = "pipeline", NEW a, NEW b, NEW c, NEW d, NEW k, NEW m,
         NEW x, Stands(x, k, m, a, b, c, d), calc_avg(x),
         UNCHANGED <<screen, failures>>
  PROVE  \E s, C : Effect(x, s, C, k, m, a, b, c, d) /\ CalcMove(x, s, C, k)
<1> DEFINE r == proc[x]
           say == IF r.buffer = <<"pos">> THEN "avg" ELSE "noise"
           sum == IF Head(content[k]) = "pos" /\ r.buffer \in {<<>>, <<"pos">>}
                  THEN <<"pos">> ELSE <<"noise">>
<1>1. /\ x \in Procs /\ r \in Processes /\ r.pc = "calc"
      /\ Worker(r, missing, a, b, c, d)
      /\ Link(k, m, a, b, c, d) /\ k \in PipeIds /\ PipeOf(x, STDIN) = k
      /\ r.open[0] = End(k, "r") /\ r.open[1] = End(m, "w")
      /\ 0 \notin PipeIds /\ content \in Contents
  BY PipelineFacts DEF Stands, calc_avg
<1>2. DOMAIN r.open = 0..2 /\ r.fd[0] = <<3, 4>> /\ r.fd[1] = <<5, 6>>
  BY <1>1 DEF Worker, Extra0
<1>3. /\ k # 0 /\ content[k] \in Seq(Chunks)
      /\ Input(x) = content[k] /\ Rest(x) = [content EXCEPT ![k] = Tail(@)]
      /\ content[k] # <<>> \/ ~HasWriter(k)
  BY <1>1 DEF Contents, Input, received, Rest, calc_avg, Ready
<1>4. <<say>> \in Seq(Chunks) /\ sum \in Seq(Chunks) /\ <<>> \in Seq(Chunks)
  <2>1. say \in Chunks
    BY DEF Chunks
  <2>2. <<"pos">> \in Seq(Chunks) /\ <<"noise">> \in Seq(Chunks)
    BY DEF Chunks
  <2> HIDE DEF say
  <2> QED BY <2>1, <2>2
<1>5. CASE content[k] = <<>>
  <2> DEFINE s == [r EXCEPT !.pc = "exit", !.buffer = <<>>, !.pending = <<say>>]
  <2>1. step(x, s, content)
    BY <1>3, <1>5 DEF calc_avg
  <2> HIDE DEF say
  <2>2. /\ s \in Processes /\ s.open = r.open /\ s.fd = r.fd /\ s.parent = r.parent
        /\ Becomes(s, "exit", <<>>, <<say>>)
    BY <1>1, <1>4 DEF Processes, Points, Becomes
  <2> HIDE DEF s
  <2>3. Worker(s, missing, a, b, c, d)
    <3>1. s.pc = "exit"
      BY <2>2 DEF Becomes
    <3> QED BY <1>1, <1>2, <2>2, <3>1, WorkerNext
  <2>4. Effect(x, s, content, k, m, a, b, c, d)
    BY <1>1, <1>2, <2>1, <2>2, <2>3, EffectFacts
  <2>5. CalcMove(x, s, content, k)
    BY <1>1, <1>3, <1>5, <2>2 DEF CalcMove, say
  <2> QED BY <2>4, <2>5
<1>6. CASE content[k] # <<>>
  <2> DEFINE s == [r EXCEPT !.buffer = sum]
             C == [content EXCEPT ![k] = Tail(@)]
  <2>1. step(x, s, C)
    BY <1>3, <1>6 DEF calc_avg
  <2> HIDE DEF sum
  <2>2. /\ s \in Processes /\ s.open = r.open /\ s.fd = r.fd /\ s.parent = r.parent
        /\ Becomes(s, "calc", sum, r.pending)
    BY <1>1, <1>4 DEF Processes, Becomes
  <2> HIDE DEF s
  <2>3. Worker(s, missing, a, b, c, d)
    <3>1. s.pc = "calc"
      BY <2>2 DEF Becomes
    <3>2. Linked(r.open, k, m) /\ (missing = {} => Linked(r.open, c, d))
      BY <1>1 DEF Linked, Worker
    <3>3. missing = {} => k = c
      BY <1>1, <3>2 DEF Linked, End
    <3>4. "calc_avg" \notin missing
      BY <1>1 DEF Worker
    <3> QED BY <1>1, <1>2, <2>2, <3>1, <3>3, <3>4, WorkerNext
  <2>4. Effect(x, s, C, k, m, a, b, c, d)
    BY <1>1, <1>2, <2>1, <2>2, <2>3, EffectFacts
  <2>5. CalcMove(x, s, C, k)
    BY <1>1, <1>6, <2>2 DEF CalcMove, sum
  <2> QED BY <2>4, <2>5
<1> QED BY <1>5, <1>6

(* The same process, but for its parent.                                     *)
Alike(s, r) ==
  /\ s.pc = r.pc /\ s.open = r.open /\ s.fd = r.fd
  /\ s.buffer = r.buffer /\ s.pending = r.pending

(* What is in the pipes that are open is what was in them.                   *)
Holds(C) ==
  /\ \A k \in PipeIds : content'[k] \in {C[k], <<>>}
  /\ \A k \in PipeIds, y \in Procs : \A f \in DOMAIN proc'[y].open :
       proc'[y].open[f] \in {End(k, "r"), End(k, "w")} => content'[k] = C[k]

(* Process x ends.                                                           *)
EndStep(x, pc) ==
  /\ proc'[x] = [Free EXCEPT !.pc = pc] /\ Holds(content)
  /\ \A y \in Procs \ {x} :
       /\ Alike(proc'[y], proc[y])
       /\ proc'[y].parent = IF proc[y].parent = x THEN 0 ELSE proc[y].parent

(* The end of a process is what EndStep says.                                *)
LEMMA EndFacts ==
  ASSUME TypeInv, NEW x \in Procs, NEW how, ends(x, how)
  PROVE  EndStep(x, IF x = Main THEN how ELSE "free")
<1>1. /\ proc'[x] = [Free EXCEPT !.pc = IF x = Main THEN how ELSE "free"]
      /\ \A y \in Procs \ {x} :
           proc'[y] = IF proc[y].parent = x THEN [proc[y] EXCEPT !.parent = 0]
                      ELSE proc[y]
  BY DEF ends
<1>2. ASSUME NEW y \in Procs \ {x}
      PROVE  /\ Alike(proc'[y], proc[y])
             /\ proc'[y].parent = IF proc[y].parent = x THEN 0 ELSE proc[y].parent
  <2>1. proc[y] \in Processes
    BY DEF TypeInv
  <2>2. CASE proc[y].parent = x
    <3>1. proc'[y] = [proc[y] EXCEPT !.parent = 0]
      BY <1>1, <2>2
    <3> QED BY <2>1, <2>2, <3>1 DEF Alike, Processes
  <2>3. CASE proc[y].parent # x
    <3>1. proc'[y] = proc[y]
      BY <1>1, <2>3
    <3> QED BY <2>3, <3>1 DEF Alike
  <2> QED BY <2>2, <2>3
<1>3. Holds(content)
  <2>1. \A k \in PipeIds : content'[k] =
           IF {End(k, "r"), End(k, "w")} \cap Ends' # {} THEN content[k] ELSE <<>>
    BY DEF ends, holding
  <2>2. ASSUME NEW k \in PipeIds, NEW y \in Procs, NEW f \in DOMAIN proc'[y].open,
               proc'[y].open[f] \in {End(k, "r"), End(k, "w")}
        PROVE  content'[k] = content[k]
    <3>1. proc'[y].open[f] \in Ends'
      BY DEF Ends, Range
    <3> QED BY <2>1, <2>2, <3>1
  <2>3. \A k \in PipeIds : content'[k] \in {content[k], <<>>}
    BY <2>1
  <2> QED BY <2>2, <2>3 DEF Holds
<1> QED BY <1>1, <1>2, <1>3 DEF EndStep

(* A coprocess ends: it has written everything, or nobody reads it.          *)
WorkerEnds(x, k, m) ==
  /\ EndStep(x, "free") /\ UNCHANGED <<screen, failures>>
  /\ \/ proc[x].pc = "exit" /\ proc[x].pending = <<>>
     \/ proc[x].pc \in {"exit", "filter"} /\ ~HasReader(m)

(* The end of a coprocess, by exit() or by SIGPIPE.                          *)
LEMMA WorkerEnd ==
  ASSUME TypeInv, program = "pipeline", NEW a, NEW b, NEW c, NEW d, NEW k, NEW m,
         NEW x, Stands(x, k, m, a, b, c, d), exit(x) \/ broken_pipe(x),
         UNCHANGED <<screen, failures>>
  PROVE  WorkerEnds(x, k, m)
<1>1. /\ x \in Procs /\ x # Main /\ Worker(proc[x], missing, a, b, c, d)
      /\ PipeOf(x, STDOUT) = m
  BY DEF Stands
<1>2. CASE exit(x)
  <2>1. EndStep(x, "free")
    BY <1>1, <1>2, EndFacts DEF exit
  <2> QED BY <1>2, <2>1 DEF exit, WorkerEnds
<1>3. CASE broken_pipe(x)
  <2>1. EndStep(x, "free")
    BY <1>1, <1>3, EndFacts DEF broken_pipe
  <2>2. proc[x].pc \in {"exit", "filter"} /\ SIGPIPE(x, STDOUT)
    <3>1. proc[x].pc = "send" => DOMAIN proc[x].open = 0..2 /\ proc[x].fd[0] = <<3, 4>>
      BY <1>1 DEF Worker, Extra0
    <3>2. ~(proc[x].pc = "send" /\ SIGPIPE(x, proc[x].fd[0][2]))
      BY <3>1 DEF SIGPIPE, IsOpen
    <3>3. proc[x].pc # "reply"
      BY <1>1 DEF Worker
    <3> QED BY <1>3, <3>2, <3>3 DEF broken_pipe
  <2>3. ~HasReader(m)
    BY <1>1, <2>2 DEF SIGPIPE
  <2> QED BY <2>1, <2>2, <2>3 DEF WorkerEnds
<1> QED BY <1>2, <1>3

(* A coprocess of which the program is missing forks.                        *)
Same(s, r) ==
  /\ s \in Processes /\ s.buffer = r.buffer /\ s.pending = r.pending
  /\ s.open[0] = r.open[0] /\ s.open[1] = r.open[1]

WorkerForks(x, a, b, c, d) ==
  /\ missing # {} /\ content' = content /\ UNCHANGED screen
  /\ proc[x].pc \in {"fork_2", "fork_3"} /\ proc'[x].pc \in {"fork_3", "close"}
  /\ Same(proc'[x], proc[x]) /\ Worker(proc'[x], missing, a, b, c, d)
  /\ proc'[x].parent = proc[x].parent
  /\ \/ /\ failures' = failures + 1
        /\ \A y \in Procs \ {x} : proc'[y] = proc[y]
     \/ \E q \in Procs \ {x, Main} :
          /\ UNCHANGED failures /\ proc[q].pc = "free"
          /\ proc'[q].pc \in {"setup_2", "setup_3"} /\ Same(proc'[q], proc[x])
          /\ Worker(proc'[q], missing, a, b, c, d)
          /\ \A y \in Procs \ {x, q} : proc'[y] = proc[y]

(* The record r is that of a coprocess with a pipe n + 1, n + 2 as its fdj.   *)
Fits(r, j, n, here, childs, a, b, c, d) ==
  \A s \in Processes :
    /\ s.pc \in {here, childs} /\ s.fd = [r.fd EXCEPT ![j] = <<n + 1, n + 2>>]
    /\ DOMAIN s.open = 0..(n + 2) /\ s.open[0] = r.open[0] /\ s.open[1] = r.open[1]
    => Worker(s, missing, a, b, c, d)

(* The fork() of a coprocess whose program is missing.                       *)
LEMMA WorkerFork ==
  ASSUME TypeInv, program = "pipeline", NEW a, NEW b, NEW c, NEW d, NEW k, NEW m,
         Shape(a, b, c, d), NEW x, Stands(x, k, m, a, b, c, d), fork_coprocess(x)
  PROVE  WorkerForks(x, a, b, c, d)
<1> DEFINE r == proc[x]
<1>1. /\ x \in Procs /\ x # Main /\ r \in Processes /\ Worker(r, missing, a, b, c, d)
      /\ 0..2 \subseteq DOMAIN r.open /\ proc \in [Procs -> Processes] /\ Main \in Procs
      /\ r.fd \in [0..3 -> Fds \X Fds] /\ 0 \notin PipeIds
  BY PipelineFacts, ProcessFacts DEF Stands, Worker
<1>2. proc[Main].pc # "free"
  BY DEF Shape, MainTable
<1>3. ASSUME NEW n \in {2, 4}, NEW j \in {2, 3}, NEW here, NEW childs,
             here \in {"fork_3", "close"}, childs \in {"setup_2", "setup_3"},
             r.pc \in {"fork_2", "fork_3"},
             DOMAIN r.open = 0..n, Unused # {},
             fork(x, with_pipe(r, j, NewPipe), here, childs, here),
             Fits(r, j, n, here, childs, a, b, c, d)
      PROVE  WorkerForks(x, a, b, c, d)
  <2>1. PICK id \in PipeIds : id = NewPipe
    <3>1. Unused \in SUBSET Nat /\ Unused \subseteq PipeIds
      BY SizesAssumption DEF Unused, PipeIds
    <3> QED BY <1>3, <3>1, MinFacts DEF NewPipe
  <2>2. PICK w : w = with_pipe(r, j, id)
    OBVIOUS
  <2>3. Piped(r, w, j, id, n + 1, n + 2)
    <3>1. n \in 0..8 /\ j \in 0..3
      BY <1>3
    <3>2. \E e, f \in 3..(n + 2) :
            /\ e = n + 1 /\ f = n + 2 /\ Piped(r, w, j, id, e, f)
      BY <1>1, <1>3, <2>2, <3>1, WithPipeFacts
    <3> QED BY <3>2
  <2>4. /\ w \in Processes /\ w.fd = [r.fd EXCEPT ![j] = <<n + 1, n + 2>>]
        /\ DOMAIN w.open = 0..(n + 2) /\ w.open[0] = r.open[0] /\ w.open[1] = r.open[1]
        /\ w.buffer = r.buffer /\ w.pending = r.pending /\ w.parent = r.parent
    <3>1. 0..n \cup {n + 1, n + 2} = 0..(n + 2) /\ 0 \in 0..n /\ 1 \in 0..n
      BY <1>3
    <3> QED BY <1>3, <2>3, <3>1 DEF Piped
  <2>5. ASSUME NEW s, NEW pc \in {here, childs}, NEW p \in 0..MAX_PROCS,
               s = [w EXCEPT !.pc = pc, !.parent = p] \/ s = [w EXCEPT !.pc = pc]
        PROVE  /\ Same(s, r) /\ Worker(s, missing, a, b, c, d) /\ s.pc = pc
               /\ s = [w EXCEPT !.pc = pc] => s.parent = r.parent
    <3>1. pc \in Points
      BY <1>3 DEF Points
    <3>2. /\ s \in Processes /\ s.pc = pc /\ s.open = w.open /\ s.fd = w.fd
          /\ s.buffer = w.buffer /\ s.pending = w.pending
          /\ s = [w EXCEPT !.pc = pc] => s.parent = r.parent
      BY <2>4, <2>5, <3>1 DEF Processes
    <3>3. Same(s, r)
      BY <2>4, <3>2 DEF Same
    <3>4. Worker(s, missing, a, b, c, d)
      BY <1>3, <2>4, <3>2 DEF Fits
    <3> QED BY <3>2, <3>3, <3>4
  <2>6. missing # {}
    BY <1>1, <1>3 DEF Worker
  <2>7. content' = content /\ UNCHANGED screen
    BY DEF fork_coprocess
  <2>8. x \in 0..MAX_PROCS
    BY <1>1 DEF Procs
  <2>9. fork(x, w, here, childs, here)
    BY <1>3, <2>1, <2>2
  <2>10. CASE ForkFailed(x, w, here)
    <3>1. /\ proc'[x] = [w EXCEPT !.pc = here] /\ failures' = failures + 1
          /\ \A y \in Procs \ {x} : proc'[y] = proc[y]
      BY <1>1, <2>10 DEF ForkFailed
    <3>2. /\ Same(proc'[x], r) /\ Worker(proc'[x], missing, a, b, c, d)
          /\ proc'[x].pc = here /\ proc'[x].parent = r.parent
      BY <2>5, <2>8, <3>1
    <3>3. r.pc \in {"fork_2", "fork_3"} /\ proc'[x].pc \in {"fork_3", "close"}
      BY <1>3, <3>2
    <3> QED BY <2>6, <2>7, <3>1, <3>2, <3>3, Zenon DEF WorkerForks
  <2>11. CASE \E q \in Procs : Forked(x, q, w, here, childs)
    <3>1. PICK q \in Procs : Forked(x, q, w, here, childs)
      BY <2>11
    <3>2. q # x /\ q # Main
      BY <1>2, <1>3, <3>1 DEF Forked
    <3>3. /\ proc'[x] = [w EXCEPT !.pc = here] /\ UNCHANGED failures
          /\ proc'[q] = [w EXCEPT !.pc = childs, !.parent = x]
          /\ \A y \in Procs \ {x, q} : proc'[y] = proc[y]
          /\ proc[q].pc = "free"
      BY <1>1, <3>1, <3>2 DEF Forked
    <3>4. /\ Same(proc'[x], r) /\ Worker(proc'[x], missing, a, b, c, d)
          /\ proc'[x].pc = here /\ proc'[x].parent = r.parent
      BY <2>5, <2>8, <3>3
    <3>5. /\ Same(proc'[q], r) /\ Worker(proc'[q], missing, a, b, c, d)
          /\ proc'[q].pc = childs
      BY <2>5, <2>8, <3>3
    <3> QED BY <1>3, <2>6, <2>7, <3>2, <3>3, <3>4, <3>5 DEF WorkerForks
  <2> QED BY <2>9, <2>10, <2>11, ForkFacts
<1>4. ASSUME NEW s \in Processes, s.open[0] = r.open[0], s.open[1] = r.open[1],
             s.fd[0] = r.fd[0], s.fd[1] = r.fd[1], r.pc \in {"fork_2", "fork_3"},
             \/ s.pc \in {"setup_2", "fork_3"} /\ Extra2(s)
             \/ s.pc \in {"setup_3", "close"} /\ (Extra3(s) \/ ExtraB(s))
      PROVE  Worker(s, missing, a, b, c, d)
  <2>1. Linked(s.open, a, b) \/ Linked(s.open, b, c) \/ Linked(s.open, c, d)
    BY <1>1, <1>4 DEF Worker, Linked
  <2>2. missing # {} /\ s.fd[0] = <<3, 4>> /\ s.fd[1] = <<5, 6>>
    BY <1>1, <1>4 DEF Worker
  <2> QED BY <1>4, <2>1, <2>2 DEF Worker
<1>5. CASE /\ r.pc = "fork_2" /\ Unused # {}
           /\ fork(x, with_pipe(r, 2, NewPipe), "fork_3", "setup_2", "fork_3")
  <2>1. DOMAIN r.open = 0..2
    BY <1>1, <1>5 DEF Worker, Extra0
  <2>2. ASSUME NEW s \in Processes, s.pc \in {"fork_3", "setup_2"},
               s.fd = [r.fd EXCEPT ![2] = <<2 + 1, 2 + 2>>],
               DOMAIN s.open = 0..(2 + 2), s.open[0] = r.open[0], s.open[1] = r.open[1]
        PROVE  Worker(s, missing, a, b, c, d)
    <3>1. s.fd[0] = r.fd[0] /\ s.fd[1] = r.fd[1] /\ s.fd[2] = <<3, 4>>
      BY <1>1, <2>2
    <3>2. Extra2(s)
      BY <2>2, <3>1 DEF Extra2
    <3> QED BY <1>4, <1>5, <2>2, <3>1, <3>2
  <2>3. Fits(r, 2, 2, "fork_3", "setup_2", a, b, c, d)
    BY <2>2 DEF Fits
  <2> QED BY <1>3, <1>5, <2>1, <2>3
<1>6. CASE /\ r.pc = "fork_3" /\ Unused # {}
           /\ fork(x, with_pipe(r, 3, NewPipe), "close", "setup_3", "close")
  <2>1. CASE Extra0(r)
    <3>1. DOMAIN r.open = 0..2
      BY <2>1 DEF Extra0
    <3>2. ASSUME NEW s \in Processes, s.pc \in {"close", "setup_3"},
                 s.fd = [r.fd EXCEPT ![3] = <<2 + 1, 2 + 2>>],
                 DOMAIN s.open = 0..(2 + 2), s.open[0] = r.open[0],
                 s.open[1] = r.open[1]
          PROVE  Worker(s, missing, a, b, c, d)
      <4>1. s.fd[0] = r.fd[0] /\ s.fd[1] = r.fd[1] /\ s.fd[3] = <<3, 4>>
        BY <1>1, <3>2
      <4>2. Extra3(s)
        BY <3>2, <4>1 DEF Extra3
      <4> QED BY <1>4, <1>6, <3>2, <4>1, <4>2
    <3>3. Fits(r, 3, 2, "close", "setup_3", a, b, c, d)
      BY <3>2 DEF Fits
    <3> QED BY <1>3, <1>6, <3>1, <3>3
  <2>2. CASE Extra2(r)
    <3>1. DOMAIN r.open = 0..4 /\ r.fd[2] = <<3, 4>>
      BY <2>2 DEF Extra2
    <3>2. ASSUME NEW s \in Processes, s.pc \in {"close", "setup_3"},
                 s.fd = [r.fd EXCEPT ![3] = <<4 + 1, 4 + 2>>],
                 DOMAIN s.open = 0..(4 + 2), s.open[0] = r.open[0],
                 s.open[1] = r.open[1]
          PROVE  Worker(s, missing, a, b, c, d)
      <4>1. /\ s.fd[0] = r.fd[0] /\ s.fd[1] = r.fd[1] /\ s.fd[2] = <<3, 4>>
            /\ s.fd[3] = <<5, 6>>
        BY <1>1, <3>1, <3>2
      <4>2. ExtraB(s)
        BY <3>2, <4>1 DEF ExtraB
      <4> QED BY <1>4, <1>6, <3>2, <4>1, <4>2
    <3>3. Fits(r, 3, 4, "close", "setup_3", a, b, c, d)
      BY <3>2 DEF Fits
    <3> QED BY <1>3, <1>6, <3>1, <3>3
  <2> QED BY <1>1, <1>6, <2>1, <2>2 DEF Worker
<1>7. r.pc # "fork_1"
  BY <1>1 DEF Worker
<1> QED BY <1>5, <1>6, <1>7, ForkCases

(* A step of a coprocess, or of a child of Main on the way to be one.        *)
Move(x, s, C, k, m) ==
  \/ FlushMove(x, s, C, m) \/ QuietMove(x, s, C) \/ SetupMove(x, s, C)
  \/ ArgumentMove(x, s, C, k) \/ FilterMove(x, s, C, k, m) \/ CalcMove(x, s, C, k)

(* A process reads k and writes m with the move, or is about to.             *)
Moves(x, s, C, k, m, a, b, c, d) ==
  /\ Effect(x, s, C, k, m, a, b, c, d) /\ Move(x, s, C, k, m)
  /\ \/ Stands(x, k, m, a, b, c, d)
     \/ Raw(proc[x], a, b, c, d) /\ SetupMove(x, s, C)

(* All steps of a process that is not Main.                                  *)
LEMMA WorkerStep ==
  ASSUME TypeInv, program = "pipeline", NEW a, NEW b, NEW c, NEW d,
         Shape(a, b, c, d), NEW x \in Procs \ {Main}, Runs(x)
  PROVE  \/ \E s, C, k, m : Moves(x, s, C, k, m, a, b, c, d)
         \/ WorkerForks(x, a, b, c, d)
         \/ \E k, m : Stands(x, k, m, a, b, c, d) /\ WorkerEnds(x, k, m)
<1>1. proc[x].pc \notin EchoPoints
  BY PipelineFacts
<1>2. /\ ~while(x) /\ ~child(x) /\ ~read_text(x) /\ ~reply(x)
  BY <1>1 DEF while, child, read_text, reply, EchoPoints
<1>3. \/ exit_flush(x) \/ answer(x) \/ fork_coprocess(x)
      \/ /\ \/ exit(x) \/ send(x) \/ wait(x) \/ broken_pipe(x)
            \/ setup(x) \/ read_argument(x) \/ close_unused(x)
            \/ filter_pos_nums(x) \/ calc_avg(x)
         /\ UNCHANGED <<screen, failures>>
  BY <1>2 DEF Runs
<1>4. Proper(proc[x], missing, a, b, c, d)
  BY DEF Shape
<1>5. CASE proc[x].pc \in {"free", "setup_1"} \/ Raw(proc[x], a, b, c, d)
  <2>1. proc[x].pc \in {"free", "setup_1", "setup_2", "setup_3"}
    BY <1>5 DEF Raw
  <2>2. setup(x) /\ UNCHANGED <<screen, failures>>
    BY <1>3, <2>1 DEF exit_flush, answer, fork_coprocess, exit, send, wait,
       broken_pipe, read_argument, close_unused, filter_pos_nums, calc_avg
  <2>3. Raw(proc[x], a, b, c, d)
    <3>1. proc[x].pc # "free"
      BY <2>2 DEF setup
    <3>2. proc[x].pc = "setup_1" => ~Worker(proc[x], missing, a, b, c, d)
      BY DEF Worker
    <3> QED BY <1>4, <1>5, <3>1, <3>2 DEF Proper
  <2>4. PICK s, C, k, m : Effect(x, s, C, k, m, a, b, c, d) /\ SetupMove(x, s, C)
    BY <2>2, <2>3, RawSetup
  <2>5. Moves(x, s, C, k, m, a, b, c, d)
    BY <2>3, <2>4 DEF Moves, Move
  <2> QED BY <2>5
<1>6. CASE Worker(proc[x], missing, a, b, c, d)
  <2>1. PICK k, m \in PipeIds : Stands(x, k, m, a, b, c, d)
    BY <1>6, LinkFacts
  <2>2. ASSUME \E s, C : Effect(x, s, C, k, m, a, b, c, d) /\ Move(x, s, C, k, m)
        PROVE  \E s, C, e, f : Moves(x, s, C, e, f, a, b, c, d)
    <3>1. PICK s, C : Effect(x, s, C, k, m, a, b, c, d) /\ Move(x, s, C, k, m)
      BY <2>2
    <3>2. Moves(x, s, C, k, m, a, b, c, d)
      BY <2>1, <3>1 DEF Moves
    <3> QED BY <3>2
  <2>3. CASE exit_flush(x)
    <3>1. \E s, C : Effect(x, s, C, k, m, a, b, c, d) /\ FlushMove(x, s, C, m)
      BY <2>1, <2>3, WorkerFlush
    <3> QED BY <2>2, <3>1 DEF Move
  <2>4. CASE answer(x)
    <3>1. \E s, C : Effect(x, s, C, k, m, a, b, c, d) /\ QuietMove(x, s, C)
      BY <2>1, <2>4, WorkerAnswer
    <3> QED BY <2>2, <3>1 DEF Move
  <2>5. CASE (send(x) \/ wait(x) \/ close_unused(x)) /\ UNCHANGED <<screen, failures>>
    <3>1. \E s, C : Effect(x, s, C, k, m, a, b, c, d) /\ QuietMove(x, s, C)
      BY <2>1, <2>5, WorkerSend, WorkerWait, WorkerClose
    <3> QED BY <2>2, <3>1 DEF Move
  <2>6. CASE setup(x) /\ UNCHANGED <<screen, failures>>
    <3>1. \E s, C : Effect(x, s, C, k, m, a, b, c, d) /\ SetupMove(x, s, C)
      BY <2>1, <2>6, WorkerSetup
    <3> QED BY <2>2, <3>1 DEF Move
  <2>7. CASE read_argument(x) /\ UNCHANGED <<screen, failures>>
    <3>1. \E s, C : Effect(x, s, C, k, m, a, b, c, d) /\ ArgumentMove(x, s, C, k)
      BY <2>1, <2>7, WorkerArgument
    <3> QED BY <2>2, <3>1 DEF Move
  <2>8. CASE filter_pos_nums(x) /\ UNCHANGED <<screen, failures>>
    <3>1. \E s, C : Effect(x, s, C, k, m, a, b, c, d) /\ FilterMove(x, s, C, k, m)
      BY <2>1, <2>8, WorkerFilter
    <3> QED BY <2>2, <3>1 DEF Move
  <2>9. CASE calc_avg(x) /\ UNCHANGED <<screen, failures>>
    <3>1. \E s, C : Effect(x, s, C, k, m, a, b, c, d) /\ CalcMove(x, s, C, k)
      BY <2>1, <2>9, WorkerCalc
    <3> QED BY <2>2, <3>1 DEF Move
  <2>10. CASE (exit(x) \/ broken_pipe(x)) /\ UNCHANGED <<screen, failures>>
    BY <2>1, <2>10, WorkerEnd
  <2>11. CASE fork_coprocess(x)
    BY <2>1, <2>11, WorkerFork
  <2> QED BY <1>3, <2>3, <2>4, <2>5, <2>6, <2>7, <2>8, <2>9, <2>10, <2>11
<1> QED BY <1>4, <1>5, <1>6 DEF Proper

-------------------------------------------------------------------------------
(* The steps of Main.                                                        *)

(* Main makes the pipes of the next coprocess and forks it.                  *)
MainForks(here, childs, a, b, c, d) ==
  /\ content' = content /\ UNCHANGED screen
  /\ Same(proc'[Main], proc[Main]) /\ proc'[Main].pc = here
  /\ MainTable(proc'[Main], a, b, c, d) /\ Made(here, a, b, c, d)
  /\ \/ /\ failures' = failures + 1
        /\ \A y \in Procs \ {Main} : proc'[y] = proc[y]
     \/ \E q \in Procs \ {Main} :
          /\ UNCHANGED failures /\ proc[q].pc = "free"
          /\ proc'[q].pc = childs /\ proc'[q].parent = Main
          /\ Same(proc'[q], proc[Main]) /\ Raw(proc'[q], a, b, c, d)
          /\ \A y \in Procs \ {Main, q} : proc'[y] = proc[y]

(* What is common to the three forks.                                        *)
LEMMA MainFork ==
  ASSUME TypeInv, program = "pipeline", NEW w \in Processes, NEW here, NEW childs,
         here \in {"fork_2", "fork_3", "close"},
         childs \in {"setup_1", "setup_2", "setup_3"},
         proc[Main].pc \in {"fork_1", "fork_2", "fork_3"}, fork_coprocess(Main),
         fork(Main, w, here, childs, here), Same(w, proc[Main]),
         NEW a, NEW b, NEW c, NEW d, Made(here, a, b, c, d),
         \A s \in Processes : s.open = w.open /\ s.fd = w.fd =>
           /\ s.pc = here => MainTable(s, a, b, c, d)
           /\ s.pc = childs => Raw(s, a, b, c, d)
  PROVE  MainForks(here, childs, a, b, c, d)
<1>1. Main \in Procs /\ proc \in [Procs -> Processes] /\ Main \in 0..MAX_PROCS
  <2>1. Main \in Procs /\ proc \in [Procs -> Processes]
    BY PipelineFacts
  <2> QED BY <2>1 DEF Procs
<1>2. ASSUME NEW s, NEW pc \in {here, childs},
             s = [w EXCEPT !.pc = pc, !.parent = Main] \/ s = [w EXCEPT !.pc = pc]
      PROVE  /\ Same(s, proc[Main]) /\ s \in Processes /\ s.open = w.open
             /\ s.fd = w.fd /\ s.pc = pc
             /\ s = [w EXCEPT !.pc = pc, !.parent = Main] => s.parent = Main
  <2>1. pc \in Points
    BY DEF Points
  <2>2. /\ s \in Processes /\ s.open = w.open /\ s.fd = w.fd /\ s.pc = pc
        /\ s.buffer = w.buffer /\ s.pending = w.pending
        /\ s = [w EXCEPT !.pc = pc, !.parent = Main] => s.parent = Main
    BY <1>1, <1>2, <2>1 DEF Processes
  <2> QED BY <2>2 DEF Same
<1>3. content' = content /\ UNCHANGED screen
  BY DEF fork_coprocess
<1>4. CASE ForkFailed(Main, w, here)
  <2>1. /\ proc'[Main] = [w EXCEPT !.pc = here] /\ failures' = failures + 1
        /\ \A y \in Procs \ {Main} : proc'[y] = proc[y]
    BY <1>1, <1>4 DEF ForkFailed
  <2>2. /\ Same(proc'[Main], proc[Main]) /\ proc'[Main].pc = here
        /\ MainTable(proc'[Main], a, b, c, d)
    BY <1>2, <2>1
  <2> QED BY <1>3, <2>1, <2>2 DEF MainForks
<1>5. CASE \E q \in Procs : Forked(Main, q, w, here, childs)
  <2>1. PICK q \in Procs : Forked(Main, q, w, here, childs)
    BY <1>5
  <2>2. q # Main
    BY <2>1 DEF Forked
  <2>3. /\ proc'[Main] = [w EXCEPT !.pc = here] /\ UNCHANGED failures
        /\ proc'[q] = [w EXCEPT !.pc = childs, !.parent = Main]
        /\ \A y \in Procs \ {Main, q} : proc'[y] = proc[y]
        /\ proc[q].pc = "free"
    BY <1>1, <2>1, <2>2 DEF Forked
  <2>4. /\ Same(proc'[Main], proc[Main]) /\ proc'[Main].pc = here
        /\ MainTable(proc'[Main], a, b, c, d)
    BY <1>2, <2>3
  <2>5. /\ Same(proc'[q], proc[Main]) /\ proc'[q].pc = childs
        /\ proc'[q].parent = Main /\ Raw(proc'[q], a, b, c, d)
    BY <1>2, <2>3
  <2> QED BY <1>3, <2>2, <2>3, <2>4, <2>5 DEF MainForks
<1> QED BY <1>4, <1>5, ForkFacts

(* The end of an open descriptor is that of a pipe.                          *)
LEMMA PipeEnd ==
  ASSUME TypeInv, program = "pipeline", NEW p \in Procs, NEW f \in DOMAIN proc[p].open,
         NEW n, NEW y \in {"r", "w"}, proc[p].open[f] = End(n, y)
  PROVE  /\ n \in PipeIds /\ PipeOf(p, f) = n /\ n # 0 /\ n \notin Unused
         /\ y = "r" => HasReader(n)
         /\ y = "w" => HasWriter(n)
<1>1. PICK u \in Descriptors : u = proc[p].open[f]
  BY PipelineFacts
<1>2. u.pipe = n /\ u.end = y /\ y # "tty" /\ Terminal.end = "tty"
  BY <1>1 DEF End, Terminal
<1>3. u.pipe \in PipeIds \cup {0} /\ (u.pipe = 0 <=> u = Terminal) /\ 0 \notin PipeIds
  BY DescriptorFacts, PipelineFacts
<1>4. u \in Ends
  BY <1>1, EndsFacts
<1>5. n \in PipeIds /\ n # 0 /\ PipeOf(p, f) = n
  BY <1>1, <1>2, <1>3 DEF PipeOf
<1>6. /\ y = "r" => HasReader(n)
      /\ y = "w" => HasWriter(n)
  BY <1>1, <1>4 DEF HasReader, HasWriter
<1> QED BY <1>5, <1>6 DEF Unused

(* A pipe nobody has open is empty.                                          *)
LEMMA UnusedEmpty ==
  ASSUME TypeInv, NEW n \in Unused
  PROVE  n \in PipeIds /\ content[n] = <<>>
BY DEF Unused, TypeInv, Held, HasReader, HasWriter

(* The first fork of Main: it makes the pipes a and b.                       *)
LEMMA StartFork ==
  ASSUME TypeInv, program = "pipeline", Start, fork_coprocess(Main)
  PROVE  \E a, b \in PipeIds : MainForks("fork_2", "setup_1", a, b, 0, 0)
<1> DEFINE r == proc[Main]
<1>1. /\ r \in Processes /\ r.pc = "fork_1" /\ 0 \notin PipeIds /\ Main \in Procs
      /\ r.open[0] = Terminal /\ r.open[1] = Terminal
  BY PipelineFacts DEF Start
<1>2. DOMAIN r.open = 0..2
  <2>1. TableOK(r)
    BY <1>1 DEF TypeInv
  <2> QED BY <1>1, <2>1 DEF TableOK, Ended, Reach
<1>3. /\ Cardinality(Unused) >= 2
      /\ fork(Main, two_pipes(r), "fork_2", "setup_1", "fork_2")
  BY <1>1, ForkCases
<1>4. PICK a, b \in Unused :
           /\ a # b /\ two_pipes(r) \in Processes
           /\ two_pipes(r).buffer = r.buffer
           /\ two_pipes(r).pending = r.pending
           /\ two_pipes(r).fd[0] = <<3, 4>> /\ two_pipes(r).fd[1] = <<5, 6>>
           /\ DOMAIN two_pipes(r).open = 0..6
           /\ \A f \in 0..2 : two_pipes(r).open[f] = r.open[f]
           /\ two_pipes(r).open[3] = End(a, "r")
           /\ two_pipes(r).open[4] = End(a, "w")
           /\ two_pipes(r).open[5] = End(b, "r")
           /\ two_pipes(r).open[6] = End(b, "w")
  BY <1>1, <1>2, <1>3, TwoPipesFacts
<1>5. PICK w \in Processes : w = two_pipes(r)
  BY <1>4
<1>6. /\ w.fd[0] = <<3, 4>> /\ w.fd[1] = <<5, 6>> /\ DOMAIN w.open = 0..6
      /\ w.open[0] = Terminal /\ w.open[1] = Terminal
      /\ Pair(w.open, 3, a) /\ Pair(w.open, 5, b) /\ Same(w, r)
  <2>1. w.open[0] = r.open[0] /\ w.open[1] = r.open[1]
    BY <1>4, <1>5
  <2>2. Pair(w.open, 3, a) /\ Pair(w.open, 5, b)
    BY <1>4, <1>5 DEF Pair
  <2> QED BY <1>1, <1>4, <1>5, <2>1, <2>2 DEF Same
<1>7. a \in PipeIds /\ b \in PipeIds
  BY DEF Unused
<1>8. Made("fork_2", a, b, 0, 0)
  BY <1>1, <1>4, <1>7 DEF Made
<1>9. ASSUME NEW s \in Processes, s.open = w.open, s.fd = w.fd
      PROVE  /\ s.pc = "fork_2" => MainTable(s, a, b, 0, 0)
             /\ s.pc = "setup_1" => Raw(s, a, b, 0, 0)
  BY <1>6, <1>9 DEF MainTable, Raw
<1>10. MainForks("fork_2", "setup_1", a, b, 0, 0)
  <2>1. fork(Main, w, "fork_2", "setup_1", "fork_2")
    BY <1>3, <1>5
  <2> QED BY <1>1, <1>6, <1>8, <1>9, <2>1, MainFork
<1> QED BY <1>7, <1>10

(* The second: it makes a pipe that is not in use, which is empty.           *)
LEMMA SecondFork ==
  ASSUME TypeInv, program = "pipeline", NEW a, NEW b, NEW c, NEW d,
         Shape(a, b, c, d), proc[Main].pc = "fork_2", fork_coprocess(Main)
  PROVE  /\ c = 0 /\ d = 0
         /\ \E n \in PipeIds : /\ content[n] = <<>>
                               /\ MainForks("fork_3", "setup_2", a, b, n, 0)
<1> DEFINE r == proc[Main]
<1>1. /\ r \in Processes /\ 0 \notin PipeIds /\ Main \in Procs
  BY PipelineFacts
<1>2. MainTable(r, a, b, c, d) /\ Made("fork_2", a, b, c, d)
  BY DEF Shape
<1>3. /\ r.open[0] = Terminal /\ r.open[1] = Terminal
      /\ r.fd[0] = <<3, 4>> /\ r.fd[1] = <<5, 6>> /\ DOMAIN r.open = 0..6
      /\ r.open[3] = End(a, "r") /\ r.open[5] = End(b, "r")
      /\ Pair(r.open, 3, a) /\ Pair(r.open, 5, b)
  BY <1>2 DEF MainTable, Ended, Pair
<1>4. Unused # {} /\ fork(Main, with_pipe(r, 2, NewPipe), "fork_3", "setup_2", "fork_3")
  BY ForkCases
<1>5. PICK n \in Unused : n = NewPipe
  <2>1. Unused \in SUBSET Nat
    BY SizesAssumption DEF Unused, PipeIds
  <2> QED BY <1>4, <2>1, MinFacts DEF NewPipe
<1>6. n \in PipeIds /\ content[n] = <<>> /\ n # a /\ n # b /\ n # 0
  <2>1. 3 \in DOMAIN r.open /\ 5 \in DOMAIN r.open
    BY <1>3
  <2>2. a \notin Unused /\ b \notin Unused
    BY <1>1, <1>3, <2>1, PipeEnd
  <2> QED BY <1>1, <2>2, UnusedEmpty
<1>7. PICK w : w = with_pipe(r, 2, n)
  OBVIOUS
<1>8. Piped(r, w, 2, n, 7, 8)
  <2>1. 6 \in 0..8 /\ 2 \in 0..3 /\ 0..2 \subseteq 0..6
    OBVIOUS
  <2>2. \E e, f \in 3..(6 + 2) : e = 6 + 1 /\ f = 6 + 2 /\ Piped(r, w, 2, n, e, f)
    BY <1>1, <1>3, <1>6, <1>7, <2>1, WithPipeFacts
  <2> QED BY <2>2
<1>9. /\ w \in Processes /\ w.buffer = r.buffer /\ w.pending = r.pending
      /\ DOMAIN w.open = 0..8 /\ \A f \in 0..6 : w.open[f] = r.open[f]
      /\ w.fd = [r.fd EXCEPT ![2] = <<7, 8>>] /\ Pair(w.open, 7, n)
  <2>1. 0..6 \cup {7, 8} = 0..8
    OBVIOUS
  <2> QED BY <1>3, <1>8, <2>1 DEF Piped, Pair
<1>10. w.fd[0] = <<3, 4>> /\ w.fd[1] = <<5, 6>> /\ w.fd[2] = <<7, 8>>
  BY <1>1, <1>3, <1>9 DEF Processes
<1>11. /\ Pair(w.open, 3, a) /\ Pair(w.open, 5, b) /\ Same(w, r)
       /\ w.open[0] = Terminal /\ w.open[1] = Terminal
  BY <1>3, <1>9 DEF Same, Pair
<1>12. ASSUME NEW s \in Processes, s.open = w.open, s.fd = w.fd
       PROVE  /\ s.pc = "fork_3" => MainTable(s, a, b, n, 0)
              /\ s.pc = "setup_2" => Raw(s, a, b, n, 0)
  BY <1>9, <1>10, <1>11, <1>12 DEF MainTable, Raw
<1>13. c = 0 /\ d = 0 /\ Made("fork_3", a, b, n, 0)
  BY <1>2, <1>6 DEF Made
<1>14. MainForks("fork_3", "setup_2", a, b, n, 0)
  <2>1. fork(Main, w, "fork_3", "setup_2", "fork_3")
    BY <1>4, <1>5, <1>7
  <2> QED BY <1>1, <1>9, <1>11, <1>12, <1>13, <2>1, MainFork
<1> QED BY <1>6, <1>13, <1>14

(* The third likewise.                                                       *)
LEMMA ThirdFork ==
  ASSUME TypeInv, program = "pipeline", NEW a, NEW b, NEW c, NEW d,
         Shape(a, b, c, d), proc[Main].pc = "fork_3", fork_coprocess(Main)
  PROVE  /\ d = 0
         /\ \E n \in PipeIds : /\ content[n] = <<>>
                               /\ MainForks("close", "setup_3", a, b, c, n)
<1> DEFINE r == proc[Main]
<1>1. /\ r \in Processes /\ 0 \notin PipeIds /\ Main \in Procs
  BY PipelineFacts
<1>2. MainTable(r, a, b, c, d) /\ Made("fork_3", a, b, c, d)
  BY DEF Shape
<1>3. /\ r.open[0] = Terminal /\ r.open[1] = Terminal
      /\ r.fd[0] = <<3, 4>> /\ r.fd[1] = <<5, 6>> /\ r.fd[2] = <<7, 8>>
      /\ DOMAIN r.open = 0..8 /\ r.open[3] = End(a, "r") /\ r.open[5] = End(b, "r")
      /\ r.open[7] = End(c, "r")
      /\ Pair(r.open, 3, a) /\ Pair(r.open, 5, b) /\ Pair(r.open, 7, c)
  BY <1>2 DEF MainTable, Ended, Pair
<1>4. Unused # {} /\ fork(Main, with_pipe(r, 3, NewPipe), "close", "setup_3", "close")
  BY ForkCases
<1>5. PICK n \in Unused : n = NewPipe
  <2>1. Unused \in SUBSET Nat
    BY SizesAssumption DEF Unused, PipeIds
  <2> QED BY <1>4, <2>1, MinFacts DEF NewPipe
<1>6. n \in PipeIds /\ content[n] = <<>> /\ n # a /\ n # b /\ n # c /\ n # 0 /\ c # 0
  <2>1. 3 \in DOMAIN r.open /\ 5 \in DOMAIN r.open /\ 7 \in DOMAIN r.open
    BY <1>3
  <2>2. a \notin Unused /\ b \notin Unused /\ c \notin Unused /\ c # 0
    BY <1>1, <1>3, <2>1, PipeEnd
  <2> QED BY <1>1, <2>2, UnusedEmpty
<1>7. PICK w : w = with_pipe(r, 3, n)
  OBVIOUS
<1>8. Piped(r, w, 3, n, 9, 10)
  <2>1. 8 \in 0..8 /\ 3 \in 0..3 /\ 0..2 \subseteq 0..8
    OBVIOUS
  <2>2. \E e, f \in 3..(8 + 2) : e = 8 + 1 /\ f = 8 + 2 /\ Piped(r, w, 3, n, e, f)
    BY <1>1, <1>3, <1>6, <1>7, <2>1, WithPipeFacts
  <2> QED BY <2>2
<1>9. /\ w \in Processes /\ w.buffer = r.buffer /\ w.pending = r.pending
      /\ DOMAIN w.open = 0..10 /\ \A f \in 0..8 : w.open[f] = r.open[f]
      /\ w.fd = [r.fd EXCEPT ![3] = <<9, 10>>] /\ Pair(w.open, 9, n)
  <2>1. 0..8 \cup {9, 10} = 0..10
    OBVIOUS
  <2> QED BY <1>3, <1>8, <2>1 DEF Piped, Pair
<1>10. /\ w.fd[0] = <<3, 4>> /\ w.fd[1] = <<5, 6>> /\ w.fd[2] = <<7, 8>>
       /\ w.fd[3] = <<9, 10>>
  BY <1>1, <1>3, <1>9 DEF Processes
<1>11. /\ Pair(w.open, 3, a) /\ Pair(w.open, 5, b) /\ Pair(w.open, 7, c) /\ Same(w, r)
       /\ w.open[0] = Terminal /\ w.open[1] = Terminal
  BY <1>3, <1>9 DEF Same, Pair
<1>12. ASSUME NEW s \in Processes, s.open = w.open, s.fd = w.fd
       PROVE  /\ s.pc = "close" => MainTable(s, a, b, c, n)
              /\ s.pc = "setup_3" => Raw(s, a, b, c, n)
  BY <1>9, <1>10, <1>11, <1>12 DEF MainTable, Raw
<1>13. d = 0 /\ Made("close", a, b, c, n)
  BY <1>2, <1>6 DEF Made
<1>14. MainForks("close", "setup_3", a, b, c, n)
  <2>1. fork(Main, w, "close", "setup_3", "close")
    BY <1>4, <1>5, <1>7
  <2> QED BY <1>1, <1>9, <1>11, <1>12, <1>13, <2>1, MainFork
<1> QED BY <1>6, <1>13, <1>14

(* The other steps of Main: to s, with C in the pipes.                       *)
MainMove(s, C, a, d) ==
  LET r == proc[Main] IN
  \/ /\ r.pc = "close" /\ Becomes(s, "send", <<"arg">>, r.pending)
     /\ C = content /\ UNCHANGED screen
  \/ /\ r.pc = "send" /\ Becomes(s, "wait", r.buffer, r.pending) /\ HasReader(a)
     /\ C = [content EXCEPT ![a] = Append(@, "arg")] /\ UNCHANGED screen
  \/ /\ r.pc = "wait" /\ Becomes(s, "answer", r.buffer, r.pending)
     /\ Children(Main) = {} /\ C = content /\ UNCHANGED screen
  \/ /\ r.pc = "answer" /\ C = content /\ UNCHANGED screen
     /\ Becomes(s, "exit", as_string(content[d]), r.pending \o as_string(content[d]))
  \/ /\ r.pc = "exit" /\ r.pending # <<>> /\ C = content
     /\ Becomes(s, "exit", r.buffer, Tail(r.pending))
     /\ screen' = Append(screen, r.pending[1])

MainMoves(s, C, a, b, c, d) ==
  /\ Steps(Main, s, C) /\ s \in Processes /\ UNCHANGED failures
  /\ MainTable(s, a, b, c, d) /\ Made(s.pc, a, b, c, d) /\ MainMove(s, C, a, d)

(* Main ends, or is killed because nobody reads its argument.                *)
MainEnds(a) ==
  /\ UNCHANGED <<screen, failures>>
  /\ \/ EndStep(Main, "exited") /\ proc[Main].pc = "exit" /\ proc[Main].pending = <<>>
     \/ EndStep(Main, "killed") /\ proc[Main].pc = "send" /\ ~HasReader(a)

(* A step of Main to s with C in the pipes is one of MainMoves.              *)
LEMMA MainMoveFacts ==
  ASSUME TypeInv, program = "pipeline", NEW a, NEW b, NEW c, NEW d,
         Shape(a, b, c, d), NEW s \in Processes, NEW C, step(Main, s, C),
         MainTable(s, a, b, c, d), MainMove(s, C, a, d), UNCHANGED failures
  PROVE  \E w, X : MainMoves(w, X, a, b, c, d)
<1>1. Main \in Procs
  BY PipelineFacts
<1>2. /\ proc'[Main] = s /\ \A y \in Procs \ {Main} : proc'[y] = proc[y]
      /\ \A n \in PipeIds : content'[n] \in {C[n], <<>>}
      /\ \A n \in PipeIds, y \in Procs : \A f \in DOMAIN proc'[y].open :
           proc'[y].open[f] \in {End(n, "r"), End(n, "w")} => content'[n] = C[n]
  BY <1>1, StepFacts
<1>3. Steps(Main, s, C)
  BY <1>2, Zenon DEF Steps
<1>4. /\ proc[Main].pc \in {"close", "send", "wait", "answer", "exit"}
      /\ s.pc \in {"send", "wait", "answer", "exit"}
  BY DEF MainMove, Becomes
<1>5. Made(s.pc, a, b, c, d)
  BY <1>4 DEF Shape, Made
<1>6. MainMoves(s, C, a, b, c, d)
  BY <1>3, <1>5 DEF MainMoves
<1> QED BY <1>6

(* Main closes all ends but the one it writes the argument to and the one it *)
(* reads the answer from.                                                    *)
LEMMA MainClose ==
  ASSUME TypeInv, program = "pipeline", NEW a, NEW b, NEW c, NEW d,
         Shape(a, b, c, d), close_unused(Main), UNCHANGED <<screen, failures>>
  PROVE  \E s, C : MainMoves(s, C, a, b, c, d)
<1> DEFINE r == proc[Main]
           F == parent_closes(r)
           t == close(r.open, F)
           s == [r EXCEPT !.pc = "send", !.buffer = <<"arg">>, !.open = t]
<1>1. r \in Processes /\ r.pc = "close" /\ MainTable(r, a, b, c, d)
  BY PipelineFacts DEF Shape, close_unused
<1>2. /\ r.open[0] = Terminal /\ r.open[1] = Terminal
      /\ r.fd[0] = <<3, 4>> /\ r.fd[1] = <<5, 6>> /\ r.fd[2] = <<7, 8>>
      /\ r.fd[3] = <<9, 10>> /\ DOMAIN r.open = 0..10
      /\ r.open[4] = End(a, "w") /\ r.open[9] = End(d, "r")
  BY <1>1 DEF MainTable, Ended, Pair
<1>3. step(Main, s, content)
  BY Zenon DEF close_unused
<1>4. DOMAIN r.open \ F = {0, 1, 2, 4, 9}
  <2>1. F = {5, 6, 7, 8, 3, 10}
    BY <1>2 DEF parent_closes, Both
  <2> QED BY <1>2, <2>1
<1> HIDE DEF F
<1>5. Keeps(t, r.open, {0, 1, 2, 4, 9})
  BY <1>1, <1>4, Closed
<1> HIDE DEF t
<1>6. /\ s \in Processes /\ s.fd = r.fd /\ s.open = t /\ s.pc = "send"
      /\ s.buffer = <<"arg">> /\ s.pending = r.pending
  <2>1. <<"arg">> \in Seq(Chunks)
    BY DEF Chunks
  <2> QED BY <1>1, <1>5, <2>1 DEF Processes, Points, Keeps
<1> HIDE DEF s
<1>7. MainTable(s, a, b, c, d)
  <2>1. /\ t[0] = Terminal /\ t[1] = Terminal /\ t[4] = End(a, "w")
        /\ t[9] = End(d, "r") /\ DOMAIN t = {0, 1, 2, 4, 9}
    BY <1>2, <1>5 DEF Keeps
  <2> QED BY <1>2, <1>6, <2>1 DEF MainTable
<1>8. MainMove(s, content, a, d)
  BY <1>1, <1>6 DEF MainMove, Becomes
<1> QED BY <1>3, <1>6, <1>7, <1>8, MainMoveFacts

(* Main writes the argument to pipe a.                                       *)
LEMMA MainSend ==
  ASSUME TypeInv, program = "pipeline", NEW a, NEW b, NEW c, NEW d,
         Shape(a, b, c, d), send(Main), UNCHANGED <<screen, failures>>
  PROVE  \E s, C : MainMoves(s, C, a, b, c, d)
<1> DEFINE r == proc[Main]
           t == close(r.open, {4})
           s == [r EXCEPT !.pc = "wait", !.open = t]
           C == [content EXCEPT ![a] = Append(@, "arg")]
<1>1. /\ r \in Processes /\ r.pc = "send" /\ MainTable(r, a, b, c, d)
      /\ Main \in Procs /\ content \in Contents
  BY PipelineFacts DEF Shape, send
<1>2. /\ r.open[0] = Terminal /\ r.open[1] = Terminal
      /\ r.fd[0] = <<3, 4>> /\ r.fd[1] = <<5, 6>> /\ r.fd[3] = <<9, 10>>
      /\ DOMAIN r.open = {0, 1, 2, 4, 9} /\ r.open[4] = End(a, "w")
      /\ r.open[9] = End(d, "r") /\ r.buffer = <<"arg">>
  BY <1>1 DEF MainTable, Ended
<1>3. 4 \in DOMAIN r.open
  BY <1>2
<1>4. PipeOf(Main, 4) = a /\ a \in PipeIds
  BY <1>1, <1>2, <1>3, PipeEnd
<1>5. CanWrite(Main, 4) /\ step(Main, s, sent(content, Main, 4, <<"arg">>))
  <2>1. PICK f : f = r.fd[0][2] /\ f = 4
    BY <1>2
  <2>2. IsOpen(Main, f) /\ r.buffer # <<>>
    BY <1>2, <1>3, <2>1 DEF IsOpen
  <2>3. /\ CanWrite(Main, f)
        /\ step(Main, [r EXCEPT !.pc = "wait", !.open = close(r.open, {f})],
                sent(content, Main, f, r.buffer))
    BY <2>1, <2>2, Zenon DEF send
  <2> QED BY <1>2, <2>1, <2>3
<1>6. HasReader(a)
  BY <1>4, <1>5 DEF CanWrite
<1>7. sent(content, Main, 4, <<"arg">>) = C
  <2>1. content[a] \in Seq(Chunks)
    BY <1>1, <1>4 DEF Contents
  <2>2. content[a] \o <<"arg">> = Append(content[a], "arg")
    BY <2>1
  <2> QED BY <1>1, <1>4, <2>2 DEF sent, Contents
<1>8. Keeps(t, r.open, {0, 1, 2, 9})
  <2>1. DOMAIN r.open \ {4} = {0, 1, 2, 9}
    BY <1>2
  <2> QED BY <1>1, <2>1, Closed
<1> HIDE DEF t
<1>9. /\ s \in Processes /\ s.fd = r.fd /\ s.open = t /\ s.pc = "wait"
      /\ s.buffer = r.buffer /\ s.pending = r.pending
  BY <1>1, <1>8 DEF Processes, Points, Keeps
<1>10. step(Main, s, C)
  BY <1>5, <1>7
<1> HIDE DEF s
<1>11. MainTable(s, a, b, c, d)
  <2>1. /\ t[0] = Terminal /\ t[1] = Terminal
        /\ t[9] = End(d, "r") /\ DOMAIN t = {0, 1, 2, 9}
    BY <1>2, <1>8 DEF Keeps
  <2> QED BY <1>2, <1>9, <2>1 DEF MainTable
<1>12. MainMove(s, C, a, d)
  BY <1>1, <1>6, <1>9 DEF MainMove, Becomes
<1> HIDE DEF C
<1> QED BY <1>9, <1>10, <1>11, <1>12, MainMoveFacts

(* Main waits until its children have ended.                                 *)
LEMMA MainWait ==
  ASSUME TypeInv, program = "pipeline", NEW a, NEW b, NEW c, NEW d,
         Shape(a, b, c, d), wait(Main), UNCHANGED <<screen, failures>>
  PROVE  \E s, C : MainMoves(s, C, a, b, c, d)
<1> DEFINE r == proc[Main]
           s == [r EXCEPT !.pc = "answer"]
<1>1. r \in Processes /\ r.pc = "wait" /\ MainTable(r, a, b, c, d)
  BY PipelineFacts DEF Shape, wait
<1>2. step(Main, s, content) /\ Children(Main) = {}
  BY DEF wait
<1>3. /\ s \in Processes /\ s.fd = r.fd /\ s.open = r.open /\ s.pc = "answer"
      /\ s.buffer = r.buffer /\ s.pending = r.pending
  BY <1>1 DEF Processes, Points
<1> HIDE DEF s
<1>4. MainTable(s, a, b, c, d)
  BY <1>1, <1>3 DEF MainTable, Ended
<1>5. MainMove(s, content, a, d)
  BY <1>1, <1>2, <1>3 DEF MainMove, Becomes
<1> QED BY <1>2, <1>3, <1>4, <1>5, MainMoveFacts

(* Main reads pipe d and has what it read to print.                          *)
LEMMA MainAnswer ==
  ASSUME TypeInv, program = "pipeline", NEW a, NEW b, NEW c, NEW d,
         Shape(a, b, c, d), answer(Main)
  PROVE  \E s, C : MainMoves(s, C, a, b, c, d)
<1> DEFINE r == proc[Main]
<1>1. /\ r \in Processes /\ r.pc = "answer" /\ MainTable(r, a, b, c, d)
      /\ Main \in Procs /\ content \in Contents /\ UNCHANGED failures
  BY PipelineFacts DEF Shape, answer
<1>2. /\ r.open[0] = Terminal /\ r.open[1] = Terminal
      /\ r.fd[0] = <<3, 4>> /\ r.fd[1] = <<5, 6>> /\ r.fd[3] = <<9, 10>>
      /\ DOMAIN r.open = {0, 1, 2, 9} /\ r.open[9] = End(d, "r")
  BY <1>1 DEF MainTable, Ended
<1>3. 9 \in DOMAIN r.open /\ Result(Main) = 9
  BY <1>2 DEF Result
<1>4. PipeOf(Main, 9) = d /\ d \in PipeIds /\ d # 0
  BY <1>1, <1>2, <1>3, PipeEnd
<1>5. print_answer(Main, r, content[d])
  <2>1. IsOpen(Main, Result(Main)) /\ received(Main, Result(Main)) = content[d]
    BY <1>3, <1>4 DEF IsOpen, received
  <2> QED BY <2>1 DEF answer
<1>6. content[d] \in Seq(Chunks)
  BY <1>1, <1>4 DEF Contents
<1>7. PICK u \in Processes :
           /\ step(Main, u, content) /\ UNCHANGED screen
           /\ Becomes(u, "exit", as_string(content[d]),
                      r.pending \o as_string(content[d]))
           /\ u.fd = r.fd
           /\ Keeps(u.open, r.open, DOMAIN r.open \ {r.fd[3][1]})
  BY <1>1, <1>5, <1>6, PrintFacts
<1>8. u.open[0] = Terminal /\ u.open[1] = Terminal /\ u.pc = "exit"
  <2>1. r.fd[3][1] = 9
    BY <1>2
  <2>2. 0 \in DOMAIN r.open \ {9} /\ 1 \in DOMAIN r.open \ {9}
    BY <1>2
  <2>3. u.open[0] = r.open[0] /\ u.open[1] = r.open[1]
    BY <1>7, <2>1, <2>2 DEF Keeps
  <2> QED BY <1>2, <1>7, <2>3 DEF Becomes
<1>9. MainTable(u, a, b, c, d)
  BY <1>2, <1>7, <1>8 DEF MainTable
<1>10. MainMove(u, content, a, d)
  BY <1>1, <1>7 DEF MainMove
<1> QED BY <1>1, <1>7, <1>9, <1>10, MainMoveFacts

(* Main prints at its exit().                                                *)
LEMMA MainFlush ==
  ASSUME TypeInv, program = "pipeline", NEW a, NEW b, NEW c, NEW d,
         Shape(a, b, c, d), exit_flush(Main)
  PROVE  \E s, C : MainMoves(s, C, a, b, c, d)
<1> DEFINE r == proc[Main]
           s == [r EXCEPT !.pending = Tail(@)]
<1>1. /\ r \in Processes /\ r.pc = "exit" /\ r.pending # <<>>
      /\ MainTable(r, a, b, c, d) /\ UNCHANGED failures /\ screen \in Seq(Chunks)
  BY PipelineFacts DEF Shape, exit_flush
<1>2. r.pending \in Seq(Chunks)
  BY <1>1, ProcessFacts
<1>3. r.open[0] = Terminal /\ r.open[1] = Terminal /\ r.fd[0] = <<3, 4>> /\ r.fd[1] = <<5, 6>>
  BY <1>1 DEF MainTable, Ended
<1>4. PipeOf(Main, STDOUT) = 0
  BY <1>3 DEF PipeOf, STDOUT, Terminal, End
<1>5. step(Main, s, content) /\ screen' = screen \o SubSeq(r.pending, 1, 1)
  BY <1>4 DEF exit_flush
<1>6. screen' = Append(screen, r.pending[1])
  <2>1. PICK q \in Seq(Chunks), w \in Seq(Chunks) :
          q = screen /\ w = r.pending /\ w # <<>>
    BY <1>1, <1>2
  <2>2. q \o SubSeq(w, 1, 1) = Append(q, w[1])
    BY <2>1
  <2> QED BY <1>5, <2>1, <2>2
<1>7. /\ s \in Processes /\ s.fd = r.fd /\ s.open = r.open /\ s.pc = "exit"
      /\ s.buffer = r.buffer /\ s.pending = Tail(r.pending)
  <2>1. Tail(r.pending) \in Seq(Chunks)
    BY <1>1, <1>2
  <2> QED BY <1>1, <2>1 DEF Processes
<1> HIDE DEF s
<1>8. MainTable(s, a, b, c, d)
  BY <1>3, <1>7 DEF MainTable
<1>9. MainMove(s, content, a, d)
  BY <1>1, <1>6, <1>7 DEF MainMove, Becomes
<1> QED BY <1>1, <1>5, <1>7, <1>8, <1>9, MainMoveFacts

(* Main ends, or is killed by SIGPIPE.                                       *)
LEMMA MainEnd ==
  ASSUME TypeInv, program = "pipeline", NEW a, NEW b, NEW c, NEW d,
         Shape(a, b, c, d), exit(Main) \/ broken_pipe(Main),
         UNCHANGED <<screen, failures>>
  PROVE  MainEnds(a)
<1> DEFINE r == proc[Main]
<1>1. Main \in Procs /\ MainTable(r, a, b, c, d)
  BY PipelineFacts DEF Shape
<1>2. CASE exit(Main)
  <2>1. EndStep(Main, "exited")
    BY <1>1, <1>2, EndFacts DEF exit
  <2> QED BY <1>2, <2>1 DEF exit, MainEnds
<1>3. CASE broken_pipe(Main)
  <2>1. EndStep(Main, "killed")
    BY <1>1, <1>3, EndFacts DEF broken_pipe
  <2>2. r.pc = "send" /\ SIGPIPE(Main, r.fd[0][2])
    <3>1. r.pc \notin {"reply", "filter"}
      BY <1>1 DEF MainTable
    <3>2. r.pc = "exit" => PipeOf(Main, STDOUT) = 0
      <4>1. r.pc = "exit" => r.open[1] = Terminal
        BY <1>1 DEF MainTable, Ended
      <4> QED BY <4>1 DEF PipeOf, STDOUT, Terminal, End
    <3> QED BY <1>3, <3>1, <3>2 DEF broken_pipe, SIGPIPE
  <2>3. /\ r.fd[0] = <<3, 4>> /\ r.open[4] = End(a, "w")
        /\ DOMAIN r.open = {0, 1, 2, 4, 9}
    BY <1>1, <2>2 DEF MainTable, Ended
  <2>4. PipeOf(Main, 4) = a
    <3>1. 4 \in DOMAIN r.open
      BY <2>3
    <3> QED BY <1>1, <2>3, <3>1, PipeEnd
  <2>5. ~HasReader(a)
    BY <2>2, <2>3, <2>4 DEF SIGPIPE
  <2> QED BY <2>1, <2>2, <2>5 DEF MainEnds
<1> QED BY <1>2, <1>3

(* All steps of Main after its first fork.                                   *)
LEMMA MainStep ==
  ASSUME TypeInv, program = "pipeline", NEW a, NEW b, NEW c, NEW d,
         Shape(a, b, c, d), Runs(Main)
  PROVE  \/ \E s, C : MainMoves(s, C, a, b, c, d)
         \/ MainEnds(a)
         \/ /\ proc[Main].pc = "fork_2" /\ c = 0 /\ d = 0
            /\ \E n \in PipeIds : /\ content[n] = <<>>
                                  /\ MainForks("fork_3", "setup_2", a, b, n, 0)
         \/ /\ proc[Main].pc = "fork_3" /\ d = 0
            /\ \E n \in PipeIds : /\ content[n] = <<>>
                                  /\ MainForks("close", "setup_3", a, b, c, n)
<1>1. /\ proc[Main].pc \in {"fork_2", "fork_3", "close", "send", "wait", "answer",
                            "exit", "exited", "killed"}
  BY DEF Shape, MainTable
<1>2. \/ exit_flush(Main) \/ answer(Main) \/ fork_coprocess(Main)
      \/ /\ \/ exit(Main) \/ broken_pipe(Main) \/ send(Main) \/ wait(Main)
            \/ close_unused(Main)
         /\ UNCHANGED <<screen, failures>>
  BY <1>1 DEF Runs, while, child, read_text, reply, setup, read_argument,
     filter_pos_nums, calc_avg
<1>3. fork_coprocess(Main) => proc[Main].pc \in {"fork_2", "fork_3"}
  BY <1>1 DEF fork_coprocess
<1>4. CASE exit_flush(Main)
  BY <1>4, MainFlush
<1>5. CASE answer(Main)
  BY <1>5, MainAnswer
<1>6. CASE fork_coprocess(Main)
  BY <1>3, <1>6, SecondFork, ThirdFork
<1>7. CASE /\ send(Main) \/ wait(Main) \/ close_unused(Main)
           /\ UNCHANGED <<screen, failures>>
  BY <1>7, MainSend, MainWait, MainClose
<1>8. CASE (exit(Main) \/ broken_pipe(Main)) /\ UNCHANGED <<screen, failures>>
  BY <1>8, MainEnd
<1> QED BY <1>2, <1>4, <1>5, <1>6, <1>7, <1>8


-------------------------------------------------------------------------------
(* Shape is preserved.                                                       *)

(* Who the parent is does not matter for the shape.                          *)
LEMMA AlikeProper ==
  ASSUME NEW s, NEW r, Alike(s, r), NEW miss, NEW a, NEW b, NEW c, NEW d
  PROVE  /\ Proper(r, miss, a, b, c, d) => Proper(s, miss, a, b, c, d)
         /\ MainTable(r, a, b, c, d) => MainTable(s, a, b, c, d)
<1>1. Raw(r, a, b, c, d) => Raw(s, a, b, c, d)
  BY DEF Alike, Raw
<1>2. Worker(r, miss, a, b, c, d) => Worker(s, miss, a, b, c, d)
  BY DEF Alike, Worker, Extra0, Extra2, Extra3, ExtraB
<1>3. MainTable(r, a, b, c, d) => MainTable(s, a, b, c, d)
  BY DEF Alike, MainTable
<1> QED BY <1>1, <1>2, <1>3 DEF Proper, Alike

(* With a new pipe, the processes there are keep their shape.                *)
LEMMA ProperGrow ==
  ASSUME TypeInv, program = "pipeline", NEW a, NEW b, NEW c, NEW d, Shape(a, b, c, d),
         NEW x \in Procs \ {Main}, NEW n, d = 0
  PROVE  /\ c = 0 => Proper(proc[x], missing, a, b, n, 0)
         /\ Proper(proc[x], missing, a, b, c, n)
<1> DEFINE r == proc[x]
<1>1. Proper(r, missing, a, b, c, d) /\ 0 \notin PipeIds
  BY PipelineFacts DEF Shape
<1>2. CASE r.pc = "free"
  BY <1>2 DEF Proper
<1>3. CASE Raw(r, a, b, c, d)
  <2>1. r.pc \notin Ended
    BY <1>3 DEF Raw, Ended
  <2>2. r.pc # "setup_3"
    <3>1. SUFFICES ASSUME r.pc = "setup_3" PROVE FALSE
      OBVIOUS
    <3>2. 9 \in DOMAIN r.open /\ r.open[9] = End(0, "r")
      BY <1>3, <3>1 DEF Raw, Pair
    <3>3. 0 \in PipeIds
      BY <3>2, PipeEnd
    <3> QED BY <1>1, <3>3
  <2>3. c = 0 => r.pc = "setup_1"
    <3>1. SUFFICES ASSUME r.pc = "setup_2", c = 0 PROVE FALSE
      BY <1>3, <2>2 DEF Raw
    <3>2. 7 \in DOMAIN r.open /\ r.open[7] = End(0, "r")
      BY <1>3, <3>1 DEF Raw, Pair
    <3>3. 0 \in PipeIds
      BY <3>2, PipeEnd
    <3> QED BY <1>1, <3>3
  <2>4. c = 0 => Raw(r, a, b, n, 0)
    BY <1>3, <2>3 DEF Raw
  <2>5. Raw(r, a, b, c, n)
    BY <1>3, <2>2 DEF Raw
  <2> QED BY <2>4, <2>5 DEF Proper
<1>4. CASE Worker(r, missing, a, b, c, d)
  <2>1. PICK k, m \in PipeIds : Stands(x, k, m, a, b, c, d)
    BY <1>4, LinkFacts
  <2>2. k \in PipeIds /\ m \in PipeIds /\ Link(k, m, a, b, c, d)
        /\ r.open[0] = End(k, "r") /\ r.open[1] = End(m, "w")
    BY <2>1 DEF Stands
  <2>3. ASSUME NEW i, NEW j, Linked(r.open, i, j)
        PROVE  i = k /\ j = m
    <3>1. End(i, "r").pipe = End(k, "r").pipe /\ End(j, "w").pipe = End(m, "w").pipe
      BY <2>2, <2>3 DEF Linked
    <3> QED BY <3>1 DEF End
  <2>4. ~Linked(r.open, c, d) /\ (c = 0 => ~Linked(r.open, b, c))
    BY <1>1, <2>2, <2>3
  <2>5. c = 0 => Worker(r, missing, a, b, n, 0)
    BY <1>4, <2>4 DEF Worker
  <2>6. Worker(r, missing, a, b, c, n)
    BY <1>4, <2>4 DEF Worker
  <2> QED BY <2>5, <2>6 DEF Proper
<1> QED BY <1>1, <1>2, <1>3, <1>4 DEF Proper

(* The step of a process that is not Main.                                   *)
LEMMA ShapeWorker ==
  ASSUME TypeInv, program = "pipeline", NEW a, NEW b, NEW c, NEW d,
         Shape(a, b, c, d), NEW x \in Procs \ {Main}, UNCHANGED missing,
         \/ \E s, C, k, m : Moves(x, s, C, k, m, a, b, c, d)
         \/ WorkerForks(x, a, b, c, d)
         \/ \E k, m : WorkerEnds(x, k, m)
  PROVE  Shape(a, b, c, d)' /\ proc'[Main].pc = proc[Main].pc
<1>1. Main \in Procs /\ Made(proc[Main].pc, a, b, c, d)
      /\ MainTable(proc[Main], a, b, c, d)
      /\ \A y \in Procs \ {Main} : Proper(proc[y], missing, a, b, c, d)
  BY PipelineFacts DEF Shape
<1>2. CASE \E s, C, k, m : Moves(x, s, C, k, m, a, b, c, d)
  <2>1. PICK s, C, k, m : Moves(x, s, C, k, m, a, b, c, d)
    BY <1>2
  <2>2. /\ proc'[x] = s /\ \A y \in Procs \ {x} : proc'[y] = proc[y]
        /\ Worker(s, missing, a, b, c, d)
    BY <2>1 DEF Moves, Effect, Steps
  <2>3. \A y \in Procs \ {Main} : Proper(proc'[y], missing, a, b, c, d)
    BY <1>1, <2>2 DEF Proper
  <2> QED BY <1>1, <2>2, <2>3 DEF Shape
<1>3. CASE WorkerForks(x, a, b, c, d)
  <2>1. \A y \in Procs \ {x} : proc'[y] = proc[y] \/
          (y # Main /\ Worker(proc'[y], missing, a, b, c, d))
    BY <1>3 DEF WorkerForks
  <2>2. Worker(proc'[x], missing, a, b, c, d)
    BY <1>3 DEF WorkerForks
  <2>3. \A y \in Procs \ {Main} : Proper(proc'[y], missing, a, b, c, d)
    BY <1>1, <2>1, <2>2 DEF Proper
  <2> QED BY <1>1, <2>1, <2>3 DEF Shape
<1>4. CASE \E k, m : WorkerEnds(x, k, m)
  <2>1. /\ proc'[x] = [Free EXCEPT !.pc = "free"]
        /\ \A y \in Procs \ {x} : Alike(proc'[y], proc[y])
    BY <1>4 DEF WorkerEnds, EndStep
  <2>2. proc'[x].pc = "free"
    BY <2>1, FreeFacts DEF Processes
  <2>3. \A y \in Procs \ {Main} : Proper(proc'[y], missing, a, b, c, d)
    <3>1. ASSUME NEW y \in Procs \ {Main}, y # x
          PROVE  Proper(proc'[y], missing, a, b, c, d)
      <4>1. Alike(proc'[y], proc[y]) /\ Proper(proc[y], missing, a, b, c, d)
        BY <1>1, <2>1, <3>1
      <4> QED BY <4>1, AlikeProper
    <3> QED BY <2>2, <3>1 DEF Proper
  <2>4. MainTable(proc'[Main], a, b, c, d) /\ proc'[Main].pc = proc[Main].pc
    <3>1. Alike(proc'[Main], proc[Main])
      BY <1>1, <2>1
    <3> QED BY <1>1, <3>1, AlikeProper DEF Alike
  <2> QED BY <1>1, <2>3, <2>4 DEF Shape
<1> QED BY <1>2, <1>3, <1>4

(* The step of Main to a state with the pipes i and j in place of c and d.   *)
LEMMA ShapeMain ==
  ASSUME TypeInv, program = "pipeline", NEW a, NEW b, NEW c, NEW d,
         Shape(a, b, c, d), UNCHANGED missing
  PROVE  /\ (\E s, C : MainMoves(s, C, a, b, c, d)) => Shape(a, b, c, d)'
         /\ MainEnds(a) => Shape(a, b, c, d)'
         /\ \A n : d = 0 /\ c = 0 /\ MainForks("fork_3", "setup_2", a, b, n, 0)
              => Shape(a, b, n, 0)'
         /\ \A n : d = 0 /\ MainForks("close", "setup_3", a, b, c, n)
              => Shape(a, b, c, n)'
<1>1. Main \in Procs /\ Made(proc[Main].pc, a, b, c, d)
      /\ MainTable(proc[Main], a, b, c, d)
      /\ \A y \in Procs \ {Main} : Proper(proc[y], missing, a, b, c, d)
  BY PipelineFacts DEF Shape
<1>2. ASSUME NEW s, NEW C, MainMoves(s, C, a, b, c, d)
      PROVE  Shape(a, b, c, d)'
  <2>1. /\ proc'[Main] = s /\ \A y \in Procs \ {Main} : proc'[y] = proc[y]
        /\ MainTable(s, a, b, c, d) /\ Made(s.pc, a, b, c, d)
    BY <1>2 DEF MainMoves, Steps
  <2> QED BY <1>1, <2>1 DEF Shape
<1>3. ASSUME MainEnds(a)
      PROVE  Shape(a, b, c, d)'
  <2>1. PICK pc \in {"exited", "killed"} : EndStep(Main, pc)
    BY <1>3 DEF MainEnds
  <2>2. proc[Main].pc \in {"exit", "send"}
    BY <1>3 DEF MainEnds
  <2>3. proc'[Main] = [Free EXCEPT !.pc = pc]
        /\ \A y \in Procs \ {Main} : Alike(proc'[y], proc[y])
    BY <2>1 DEF EndStep
  <2>4. proc'[Main].pc = pc
    BY <2>3, FreeFacts DEF Processes
  <2>5. Made(pc, a, b, c, d) /\ MainTable(proc'[Main], a, b, c, d)
    BY <1>1, <2>2, <2>4 DEF Made, MainTable, Ended
  <2>6. \A y \in Procs \ {Main} : Proper(proc'[y], missing, a, b, c, d)
    BY <1>1, <2>3, AlikeProper
  <2> QED BY <2>4, <2>5, <2>6 DEF Shape
<1>4. ASSUME NEW i, NEW j, NEW here, NEW childs, MainForks(here, childs, a, b, i, j),
             \A y \in Procs \ {Main} : Proper(proc[y], missing, a, b, i, j)
      PROVE  Shape(a, b, i, j)'
  <2>1. /\ proc'[Main].pc = here /\ MainTable(proc'[Main], a, b, i, j)
        /\ Made(here, a, b, i, j)
        /\ \A y \in Procs \ {Main} : proc'[y] = proc[y] \/ Raw(proc'[y], a, b, i, j)
    BY <1>4 DEF MainForks
  <2>2. \A y \in Procs \ {Main} : Proper(proc'[y], missing, a, b, i, j)
    BY <1>4, <2>1 DEF Proper
  <2> QED BY <2>1, <2>2 DEF Shape
<1>5. ASSUME NEW n, d = 0, c = 0, MainForks("fork_3", "setup_2", a, b, n, 0)
      PROVE  Shape(a, b, n, 0)'
  <2>1. \A y \in Procs \ {Main} : Proper(proc[y], missing, a, b, n, 0)
    BY <1>5, ProperGrow
  <2> QED BY <1>4, <1>5, <2>1
<1>6. ASSUME NEW n, d = 0, MainForks("close", "setup_3", a, b, c, n)
      PROVE  Shape(a, b, c, n)'
  <2>1. \A y \in Procs \ {Main} : Proper(proc[y], missing, a, b, c, n)
    BY <1>6, ProperGrow
  <2> QED BY <1>4, <1>6, <2>1
<1> QED BY <1>2, <1>3, <1>5, <1>6

-------------------------------------------------------------------------------
(* What flows through the pipes: X says for every pipe which chunks it may   *)
(* hold.                                                                     *)

Sortings == [PipeIds -> SUBSET (Chunks \ {"NUL"})]

(* A process that reads k and writes m has only what may be there.           *)
Written(r, X, k, m) ==
  /\ r.pending \in Seq(X[m])
  /\ r.pc # "calc" => r.buffer \in Seq({"arg"})
  /\ r.pc = "calc" => /\ r.buffer \in {<<>>, <<"pos">>, <<"noise">>}
                      /\ r.buffer = <<"pos">> => "pos" \in X[k]

ProcFlow(r, X) ==
  /\ r.open[1] = Terminal => r.pending = <<>> /\ r.buffer \in Seq({"arg"})
  /\ \A k, m \in PipeIds :
       Linked(r.open, k, m) => Written(r, X, k, m)

MainFlow(X, d) ==
  LET r == proc[Main] IN
  /\ r.pc \notin {"exit", "exited", "killed"} =>
       screen = <<>> /\ r.pending = <<>> /\ r.buffer \in Seq({"arg"})
  /\ d # 0 => r.pending \in Seq(X[d]) /\ screen \in Seq(X[d])

Flow(X, d) ==
  /\ X \in Sortings /\ \A k \in PipeIds : content[k] \in Seq(X[k])
  /\ \A x \in Procs \ {Main} : proc[x].pc # "free" => ProcFlow(proc[x], X)
  /\ MainFlow(X, d)

(* The sorting admits what a process at a point makes of its input.          *)
Permits(pc, X, k, m) ==
  /\ missing # {} => "noise" \in X[m] /\ "arg" \in X[m]
  /\ pc = "filter" => X[k] \ {"neg"} \subseteq X[m]
  /\ pc = "calc" => "noise" \in X[m] /\ ("pos" \in X[k] => "avg" \in X[m])
  /\ pc = "read_argument" =>
       /\ X[k] \subseteq {"arg"}
       /\ "gen_numbers" \in missing \/ {"pos", "neg"} \subseteq X[m]

(* What is taken from or added to a sequence.                                *)
LEMMA SeqParts ==
  ASSUME NEW S, NEW s \in Seq(S)
  PROVE  /\ s # <<>> => Tail(s) \in Seq(S) /\ Head(s) \in S /\ s[1] \in S
         /\ \A e \in S : Append(s, e) \in Seq(S) /\ <<e>> \in Seq(S)
         /\ <<>> \in Seq(S)
OBVIOUS

(* Two sequences together.                                                   *)
LEMMA SeqConcat ==
  ASSUME NEW S, NEW s \in Seq(S), NEW t \in Seq(S)
  PROVE  s \o t \in Seq(S)
OBVIOUS

(* A sequence over a larger set.                                             *)
LEMMA SeqSubset ==
  ASSUME NEW S, NEW T, S \subseteq T, NEW s \in Seq(S)
  PROVE  s \in Seq(T)
<1>1. s \in [1..Len(s) -> S] /\ Len(s) \in Nat
  BY LenProperties
<1>2. s \in [1..Len(s) -> T]
  BY <1>1
<1> QED BY <1>1, <1>2, SeqDef

(* Text without null characters is printed as it is.                         *)
LEMMA PlainString ==
  ASSUME NEW S, "NUL" \notin S, NEW s \in Seq(S)
  PROVE  as_string(s) = s
<1>1. \A k \in DOMAIN s : s[k] \in S
  OBVIOUS
<1>2. {k \in DOMAIN s : s[k] = "NUL"} = {}
  BY <1>1
<1> QED BY <1>2 DEF as_string

(* The end of a pipe says of which pipe it is and which of its ends.         *)
LEMMA EndInjective ==
  ASSUME NEW k, NEW m, NEW e, NEW f, End(k, e) = End(m, f)
  PROVE  k = m /\ e = f
BY DEF End

(* ProcFlow of a process that reads k and writes m.                          *)
LEMMA WrittenFlow ==
  ASSUME NEW r, NEW X, NEW k, NEW m, r.open[0] = End(k, "r"), r.open[1] = End(m, "w"),
         k \in PipeIds, m \in PipeIds
  PROVE  ProcFlow(r, X) <=> Written(r, X, k, m)
<1>1. r.open[1] # Terminal
  BY EndInjective DEF Terminal
<1>2. Linked(r.open, k, m)
  BY DEF Linked
<1>3. \A i, j : Linked(r.open, i, j) => i = k /\ j = m
  BY EndInjective DEF Linked
<1> QED BY <1>1, <1>2, <1>3 DEF ProcFlow

(* What a coprocess has before it moves.                                     *)
LEMMA MovesFlow ==
  ASSUME TypeInv, program = "pipeline", NEW a, NEW b, NEW c, NEW d,
         NEW X, Flow(X, d), NEW x \in Procs \ {Main}, NEW s, NEW C, NEW k, NEW m,
         Moves(x, s, C, k, m, a, b, c, d)
  PROVE  /\ k \in PipeIds /\ m \in PipeIds /\ k # m
         /\ proc[x].pending \in Seq(X[m])
         /\ proc[x].pc # "calc" => proc[x].buffer \in Seq({"arg"})
         /\ proc[x].pc = "calc" => Written(proc[x], X, k, m)
         /\ X[k] \subseteq Chunks \ {"NUL"} /\ X[m] \subseteq Chunks \ {"NUL"}
         /\ content \in [PipeIds -> Seq(Chunks)]
         /\ content[k] \in Seq(X[k]) /\ content[m] \in Seq(X[m])
<1>1. k \in PipeIds /\ m \in PipeIds /\ k # m
  BY DEF Moves, Effect, Link
<1>2. X[k] \subseteq Chunks \ {"NUL"} /\ X[m] \subseteq Chunks \ {"NUL"}
      /\ content \in [PipeIds -> Seq(Chunks)]
      /\ content[k] \in Seq(X[k]) /\ content[m] \in Seq(X[m])
  BY <1>1 DEF Flow, Sortings, TypeInv
<1>3. CASE Stands(x, k, m, a, b, c, d)
  <2>1. proc[x].open[0] = End(k, "r") /\ proc[x].open[1] = End(m, "w")
        /\ proc[x].pc # "free"
    BY <1>3 DEF Stands, Ended
  <2>2. Written(proc[x], X, k, m)
    BY <1>1, <2>1, WrittenFlow DEF Flow
  <2> QED BY <1>1, <1>2, <2>2 DEF Written
<1>4. CASE Raw(proc[x], a, b, c, d)
  <2>1. proc[x].pc \notin {"free", "calc"} /\ proc[x].open[1] = Terminal
    BY <1>4 DEF Raw
  <2>2. proc[x].pending = <<>> /\ proc[x].buffer \in Seq({"arg"})
    BY <2>1 DEF Flow, ProcFlow
  <2> QED BY <1>1, <1>2, <2>1, <2>2
<1> QED BY <1>3, <1>4 DEF Moves

(* The numbers that are generated.                                           *)
LEMMA NumbersFacts == NUMBERS \in Seq({"pos", "neg"})
BY ProgramsAssumption

(* A move leaves in the process and in the pipes only what may be there.     *)
LEMMA MoveWritten ==
  ASSUME TypeInv, program = "pipeline", NEW a, NEW b, NEW c, NEW d,
         NEW X, Flow(X, d), NEW x \in Procs \ {Main}, NEW s, NEW C, NEW k, NEW m,
         Moves(x, s, C, k, m, a, b, c, d), Permits(proc[x].pc, X, k, m)
  PROVE  /\ Written(s, X, k, m)
         /\ \A n \in PipeIds : C[n] \in Seq(X[n])
<1> DEFINE r == proc[x]
<1>1. /\ k \in PipeIds /\ m \in PipeIds /\ k # m /\ r.pending \in Seq(X[m])
      /\ r.pc # "calc" => r.buffer \in Seq({"arg"})
      /\ r.pc = "calc" => Written(r, X, k, m)
      /\ X[k] \subseteq Chunks \ {"NUL"} /\ X[m] \subseteq Chunks \ {"NUL"}
      /\ content \in [PipeIds -> Seq(Chunks)]
      /\ content[k] \in Seq(X[k]) /\ content[m] \in Seq(X[m])
  BY MovesFlow
<1>2. \A n \in PipeIds : content[n] \in Seq(X[n])
  BY DEF Flow
<1>3. \A S : <<>> \in Seq(S)
  OBVIOUS
<1>4. CASE FlushMove(x, s, C, m)
  <2>1. /\ r.pc = "exit" /\ r.pending # <<>> /\ s.pc = "exit"
        /\ s.buffer = r.buffer /\ s.pending = Tail(r.pending)
        /\ C = [content EXCEPT ![m] = Append(@, r.pending[1])]
    BY <1>4 DEF FlushMove, Becomes
  <2>2. Tail(r.pending) \in Seq(X[m]) /\ Append(content[m], r.pending[1]) \in Seq(X[m])
    BY <1>1, <2>1, SeqParts
  <2> QED BY <1>1, <1>2, <2>1, <2>2 DEF Written
<1>5. CASE QuietMove(x, s, C)
  <2>1. C = content /\ s.pc # "calc" /\ r.pc \in {"send", "wait", "close", "answer"}
        /\ \/ /\ s.buffer \in {r.buffer, <<"arg">>} /\ s.pending = r.pending
           \/ /\ r.pc = "answer" /\ s.buffer = as_string(r.buffer)
              /\ s.pending = r.pending \o as_string(r.buffer)
    BY <1>5 DEF QuietMove, Becomes
  <2>2. <<"arg">> \in Seq({"arg"})
    OBVIOUS
  <2>3. as_string(r.buffer) = r.buffer /\ r.buffer \in Seq({"arg"})
    BY <1>1, <2>1, PlainString
  <2>4. r.pc = "answer" => r.pending \o r.buffer \in Seq(X[m])
    <3>1. SUFFICES ASSUME r.pc = "answer" PROVE r.pending \o r.buffer \in Seq(X[m])
      OBVIOUS
    <3>2. ~Raw(r, a, b, c, d) /\ (Worker(r, missing, a, b, c, d) => missing # {})
      BY <3>1 DEF Raw, Worker
    <3>3. missing # {}
      BY <3>2 DEF Moves, Stands
    <3>4. {"arg"} \subseteq X[m]
      BY <3>3 DEF Permits
    <3>5. r.buffer \in Seq(X[m])
      BY <2>3, <3>4, SeqSubset
    <3> QED BY <1>1, <3>5, SeqConcat
  <2> QED BY <1>1, <1>2, <2>1, <2>2, <2>3, <2>4 DEF Written
<1>6. CASE SetupMove(x, s, C)
  <2>1. C = content /\ r.pc \in {"setup_1", "setup_2", "setup_3"}
    BY <1>6 DEF SetupMove
  <2>2. /\ s.buffer = r.buffer \/ s.buffer = <<>>
        /\ s.pc = "calc" => s.buffer = <<>>
        /\ \/ s.pending = r.pending \/ s.pending = <<>>
           \/ missing # {} /\ s.pending = Append(r.pending, "noise")
    BY <1>6 DEF SetupMove, ExecMove, Becomes
  <2>3. missing # {} => Append(r.pending, "noise") \in Seq(X[m])
    BY <1>1, SeqParts DEF Permits
  <2>4. s.pending \in Seq(X[m])
    BY <1>1, <1>3, <2>2, <2>3
  <2>5. s.buffer \in Seq({"arg"}) /\ <<>> # <<"pos">>
    BY <1>1, <1>3, <2>1, <2>2
  <2> QED BY <1>2, <2>1, <2>2, <2>4, <2>5 DEF Written
<1>7. CASE ArgumentMove(x, s, C, k)
  <2>1. /\ r.pc = "read_argument" /\ C = [content EXCEPT ![k] = <<>>] /\ s.pc # "calc"
        /\ \/ /\ "gen_numbers" \in missing /\ s.buffer = content[k]
              /\ s.pending = Append(r.pending, "noise")
           \/ /\ "gen_numbers" \notin missing /\ s.buffer = <<>>
              /\ s.pending \in {<<>>, NUMBERS}
    BY <1>7 DEF ArgumentMove, Becomes
  <2>2. \A n \in PipeIds : C[n] \in Seq(X[n])
    BY <1>1, <1>2, <1>3, <2>1
  <2>3. X[k] \subseteq {"arg"} /\ content[k] \in Seq({"arg"})
    BY <1>1, <2>1, SeqSubset DEF Permits
  <2>4. "gen_numbers" \in missing => Append(r.pending, "noise") \in Seq(X[m])
    BY <1>1, SeqParts DEF Permits
  <2>5. "gen_numbers" \notin missing => NUMBERS \in Seq(X[m])
    <3>1. "gen_numbers" \notin missing => {"pos", "neg"} \subseteq X[m]
      BY <2>1 DEF Permits
    <3> QED BY <3>1, NumbersFacts, SeqSubset
  <2>6. s.pending \in Seq(X[m]) /\ s.buffer \in Seq({"arg"})
    BY <1>3, <2>1, <2>3, <2>4, <2>5
  <2> QED BY <2>1, <2>2, <2>6 DEF Written
<1>8. CASE FilterMove(x, s, C, k, m)
  <2>1. /\ r.pc = "filter" /\ s.pc # "calc" /\ s.buffer = r.buffer
        /\ s.pending = r.pending
        /\ \/ C = content
           \/ content[k] # <<>> /\ C = [content EXCEPT ![k] = Tail(@)]
           \/ /\ content[k] # <<>> /\ Head(content[k]) # "neg"
              /\ C = [content EXCEPT ![k] = Tail(@), ![m] = Append(@, Head(content[k]))]
    BY <1>8 DEF FilterMove, Becomes
  <2>2. content[k] # <<>> => Tail(content[k]) \in Seq(X[k]) /\ Head(content[k]) \in X[k]
    BY <1>1, SeqParts
  <2>3. content[k] # <<>> /\ Head(content[k]) # "neg" =>
          Append(content[m], Head(content[k])) \in Seq(X[m])
    <3>1. X[k] \ {"neg"} \subseteq X[m]
      BY <2>1 DEF Permits
    <3>2. content[k] # <<>> /\ Head(content[k]) # "neg" => Head(content[k]) \in X[m]
      BY <2>2, <3>1
    <3> QED BY <1>1, <3>2, SeqParts
  <2>4. \A n \in PipeIds : C[n] \in Seq(X[n])
    BY <1>1, <1>2, <2>1, <2>2, <2>3
  <2> QED BY <1>1, <2>1, <2>4 DEF Written
<1>9. CASE CalcMove(x, s, C, k)
  <2>1. r.pc = "calc" /\ (r.buffer = <<"pos">> => "pos" \in X[k])
    BY <1>1, <1>9 DEF CalcMove, Written
  <2>2. CASE content[k] = <<>> /\ C = content /\ s.pc = "exit" /\ s.buffer = <<>>
             /\ s.pending = <<IF r.buffer = <<"pos">> THEN "avg" ELSE "noise">>
    <3>1. PICK e : e = IF r.buffer = <<"pos">> THEN "avg" ELSE "noise"
      OBVIOUS
    <3>2. e \in X[m]
      BY <2>1, <3>1 DEF Permits
    <3>3. s.pending = <<e>> /\ <<e>> \in Seq(X[m])
      <4>1. <<e>> \in Seq(X[m])
        BY <1>3, <3>2, SeqParts
      <4>2. s.pending = <<e>>
        BY <2>2, <3>1, Zenon
      <4> QED BY <4>1, <4>2
    <3> QED BY <1>2, <1>3, <2>2, <3>3 DEF Written
  <2>3. CASE /\ content[k] # <<>> /\ C = [content EXCEPT ![k] = Tail(@)]
             /\ s.pc = "calc" /\ s.pending = r.pending
             /\ s.buffer = IF Head(content[k]) = "pos" /\ r.buffer \in {<<>>, <<"pos">>}
                           THEN <<"pos">> ELSE <<"noise">>
    <3>1. Tail(content[k]) \in Seq(X[k]) /\ Head(content[k]) \in X[k]
      BY <1>1, <2>3, SeqParts
    <3>2. \A n \in PipeIds : C[n] \in Seq(X[n])
      BY <1>1, <1>2, <2>3, <3>1
    <3>3. s.buffer \in {<<"pos">>, <<"noise">>} /\ (s.buffer = <<"pos">> => "pos" \in X[k])
      <4>1. <<"pos">> # <<"noise">>
        OBVIOUS
      <4> QED BY <2>3, <3>1, <4>1
    <3> QED BY <1>1, <2>3, <3>2, <3>3 DEF Written
  <2> QED BY <1>9, <2>2, <2>3 DEF CalcMove, Becomes
<1> QED BY <1>4, <1>5, <1>6, <1>7, <1>8, <1>9 DEF Moves, Move

(* The flow after the step of a coprocess.                                   *)
LEMMA FlowMoves ==
  ASSUME TypeInv, program = "pipeline", NEW a, NEW b, NEW c, NEW d, d \in PipeIds \cup {0},
         NEW X, Flow(X, d), NEW x \in Procs \ {Main}, NEW s, NEW C, NEW k, NEW m,
         Moves(x, s, C, k, m, a, b, c, d), Permits(proc[x].pc, X, k, m)
  PROVE  Flow(X, d)'
<1>1. /\ proc'[x] = s /\ \A y \in Procs \ {x} : proc'[y] = proc[y]
      /\ \A n \in PipeIds : content'[n] \in {C[n], <<>>}
      /\ UNCHANGED screen /\ k \in PipeIds /\ m \in PipeIds
      /\ s.open[0] = End(k, "r") /\ s.open[1] = End(m, "w")
  BY DEF Moves, Effect, Steps, Link
<1>2. Written(s, X, k, m) /\ \A n \in PipeIds : C[n] \in Seq(X[n])
  BY MoveWritten
<1>3. ProcFlow(s, X)
  BY <1>1, <1>2, WrittenFlow
<1>4. \A n \in PipeIds : content'[n] \in Seq(X[n])
  <2>1. \A S : <<>> \in Seq(S)
    OBVIOUS
  <2> QED BY <1>1, <1>2, <2>1
<1>5. \A y \in Procs \ {Main} : proc'[y].pc # "free" => ProcFlow(proc'[y], X)
  BY <1>1, <1>3 DEF Flow
<1>6. MainFlow(X, d)'
  <2>1. proc'[Main] = proc[Main]
    BY <1>1, PipelineFacts
  <2> QED BY <1>1, <2>1 DEF Flow, MainFlow
<1> QED BY <1>4, <1>5, <1>6 DEF Flow

(* Forks and ends of coprocesses.                                            *)
LEMMA FlowForks ==
  ASSUME TypeInv, program = "pipeline", NEW a, NEW b, NEW c, NEW d, NEW X, Flow(X, d),
         Shape(a, b, c, d), NEW x \in Procs \ {Main}, WorkerForks(x, a, b, c, d)
  PROVE  Flow(X, d)'
<1>1. /\ content' = content /\ UNCHANGED screen
      /\ proc[x].pc \in {"fork_2", "fork_3"} /\ proc'[x].pc \in {"fork_3", "close"}
      /\ Same(proc'[x], proc[x])
  BY DEF WorkerForks
<1>2. ASSUME NEW s, Same(s, proc[x]), s.pc \notin {"free", "calc"}
      PROVE  ProcFlow(s, X)
  <2>1. ProcFlow(proc[x], X)
    BY <1>1 DEF Flow
  <2> QED BY <1>1, <1>2, <2>1 DEF ProcFlow, Same, Written, Linked
<1>3. \A y \in Procs \ {x} : proc'[y] = proc[y] \/
        (y # Main /\ Same(proc'[y], proc[x]) /\ proc'[y].pc \in {"setup_2", "setup_3"})
  BY DEF WorkerForks
<1>4. \A y \in Procs \ {Main} : proc'[y].pc # "free" => ProcFlow(proc'[y], X)
  BY <1>1, <1>2, <1>3 DEF Flow
<1>5. MainFlow(X, d)'
  <2>1. proc'[Main] = proc[Main]
    BY <1>3, PipelineFacts
  <2> QED BY <1>1, <2>1 DEF Flow, MainFlow
<1> QED BY <1>1, <1>4, <1>5 DEF Flow

(* Who the parent is does not matter for the flow.                           *)
LEMMA AlikeFlow ==
  ASSUME NEW s, NEW r, NEW X, Alike(s, r), ProcFlow(r, X)
  PROVE  ProcFlow(s, X)
BY DEF Alike, ProcFlow, Written, Linked

(* The end of a coprocess keeps the flow.                                    *)
LEMMA FlowEnds ==
  ASSUME TypeInv, program = "pipeline", NEW d, NEW X, Flow(X, d),
         NEW x \in Procs \ {Main}, NEW k, NEW m, WorkerEnds(x, k, m)
  PROVE  Flow(X, d)'
<1>1. /\ proc'[x] = [Free EXCEPT !.pc = "free"] /\ UNCHANGED screen
      /\ \A y \in Procs \ {x} : Alike(proc'[y], proc[y])
      /\ \A n \in PipeIds : content'[n] \in {content[n], <<>>}
  BY DEF WorkerEnds, EndStep, Holds
<1>2. proc'[x].pc = "free"
  BY <1>1, FreeFacts DEF Processes
<1>3. \A y \in Procs \ {Main} : proc'[y].pc # "free" => ProcFlow(proc'[y], X)
  <2>1. ASSUME NEW y \in Procs \ {Main}, proc'[y].pc # "free"
        PROVE  ProcFlow(proc'[y], X)
    <3>1. y # x /\ Alike(proc'[y], proc[y])
      BY <1>1, <1>2, <2>1
    <3>2. ProcFlow(proc[y], X)
      BY <2>1, <3>1 DEF Flow, Alike
    <3> QED BY <3>1, <3>2, AlikeFlow
  <2> QED BY <2>1
<1>4. \A n \in PipeIds : content'[n] \in Seq(X[n])
  <2>1. \A S : <<>> \in Seq(S)
    OBVIOUS
  <2> QED BY <1>1, <2>1 DEF Flow
<1>5. MainFlow(X, d)'
  <2>1. Alike(proc'[Main], proc[Main])
    BY <1>1, PipelineFacts
  <2> QED BY <1>1, <2>1 DEF Flow, MainFlow, Alike
<1> QED BY <1>3, <1>4, <1>5 DEF Flow

(* The steps of Main, with its argument going into pipe a.                   *)
LEMMA FlowMain ==
  ASSUME TypeInv, program = "pipeline", NEW a, NEW b, NEW c, NEW d, Shape(a, b, c, d),
         NEW X, Flow(X, d), "arg" \in X[a], NEW s, NEW C, MainMoves(s, C, a, b, c, d)
  PROVE  Flow(X, d)'
<1> DEFINE r == proc[Main]
<1>1. /\ proc'[Main] = s /\ \A y \in Procs \ {Main} : proc'[y] = proc[y]
      /\ \A n \in PipeIds : content'[n] \in {C[n], <<>>}
      /\ MainMove(s, C, a, d)
  BY DEF MainMoves, Steps
<1>2. /\ a \in PipeIds /\ content \in [PipeIds -> Seq(Chunks)]
      /\ \A n \in PipeIds : content[n] \in Seq(X[n])
  BY DEF Flow, TypeInv, Shape, Made
<1>3. /\ r.pc \notin {"exit", "exited", "killed"} =>
           screen = <<>> /\ r.pending = <<>> /\ r.buffer \in Seq({"arg"})
      /\ d # 0 => r.pending \in Seq(X[d]) /\ screen \in Seq(X[d])
  BY DEF Flow, MainFlow
<1>4. d \in PipeIds /\ d # 0
  <2>1. r.pc \in {"close", "send", "wait", "answer", "exit"}
    BY <1>1 DEF MainMove
  <2> QED BY <2>1, PipelineFacts DEF Shape, Made
<1>5. \A n \in PipeIds : C[n] \in Seq(X[n])
  <2>1. Append(content[a], "arg") \in Seq(X[a])
    BY <1>2, SeqParts
  <2>2. C = content \/ C = [content EXCEPT ![a] = Append(@, "arg")]
    BY <1>1 DEF MainMove
  <2> QED BY <1>2, <2>1, <2>2
<1>6. \A n \in PipeIds : content'[n] \in Seq(X[n])
  <2>1. \A S : <<>> \in Seq(S)
    OBVIOUS
  <2> QED BY <1>1, <1>5, <2>1
<1>7. as_string(content[d]) = content[d] /\ content[d] \in Seq(X[d])
  <2>1. "NUL" \notin X[d] /\ content[d] \in Seq(X[d])
    BY <1>2, <1>4 DEF Flow, Sortings
  <2> QED BY <2>1, PlainString
<1>8. CASE r.pc \in {"close", "send", "wait"}
  <2>1. /\ s.pc \in {"send", "wait", "answer"} /\ s.buffer \in {r.buffer, <<"arg">>}
        /\ s.pending = r.pending /\ UNCHANGED screen
    BY <1>1, <1>8 DEF MainMove, Becomes
  <2>2. <<"arg">> \in Seq({"arg"})
    OBVIOUS
  <2>3. MainFlow(X, d)'
    BY <1>1, <1>3, <1>8, <2>1, <2>2 DEF MainFlow
  <2> QED BY <1>1, <1>6, <2>3 DEF Flow
<1>9. CASE r.pc = "answer"
  <2>1. /\ s.pc = "exit" /\ s.pending = r.pending \o content[d] /\ UNCHANGED screen
    BY <1>1, <1>7, <1>9 DEF MainMove, Becomes
  <2>2. s.pending \in Seq(X[d])
    BY <1>3, <1>4, <1>7, <2>1, SeqConcat
  <2>3. MainFlow(X, d)'
    BY <1>1, <1>3, <2>1, <2>2 DEF MainFlow
  <2> QED BY <1>1, <1>6, <2>3 DEF Flow
<1>10. CASE r.pc = "exit"
  <2>1. /\ s.pc = "exit" /\ r.pending # <<>> /\ s.pending = Tail(r.pending)
        /\ screen' = Append(screen, r.pending[1])
    BY <1>1, <1>10 DEF MainMove, Becomes
  <2>2. s.pending \in Seq(X[d]) /\ screen' \in Seq(X[d])
    BY <1>3, <1>4, <2>1, SeqParts
  <2>3. MainFlow(X, d)'
    BY <1>1, <2>1, <2>2 DEF MainFlow
  <2> QED BY <1>1, <1>6, <2>3 DEF Flow
<1> QED BY <1>1, <1>8, <1>9, <1>10 DEF MainMove

(* The end of Main keeps the flow.                                           *)
LEMMA FlowMainEnds ==
  ASSUME TypeInv, program = "pipeline", NEW a, NEW d, NEW X, Flow(X, d), MainEnds(a)
  PROVE  Flow(X, d)'
<1>1. PICK pc \in {"exited", "killed"} : EndStep(Main, pc)
  BY DEF MainEnds
<1>2. /\ proc'[Main] = [Free EXCEPT !.pc = pc] /\ UNCHANGED screen
      /\ \A y \in Procs \ {Main} : Alike(proc'[y], proc[y])
      /\ \A n \in PipeIds : content'[n] \in {content[n], <<>>}
  BY <1>1 DEF MainEnds, EndStep, Holds
<1>3. proc'[Main].pc = pc /\ proc'[Main].pending = <<>>
  BY <1>2 DEF Free
<1>4. \A y \in Procs \ {Main} : proc'[y].pc # "free" => ProcFlow(proc'[y], X)
  <2>1. ASSUME NEW y \in Procs \ {Main}, proc'[y].pc # "free"
        PROVE  ProcFlow(proc'[y], X)
    <3>1. Alike(proc'[y], proc[y])
      BY <1>2
    <3>2. ProcFlow(proc[y], X)
      BY <2>1, <3>1 DEF Flow, Alike
    <3> QED BY <3>1, <3>2, AlikeFlow
  <2> QED BY <2>1
<1>5. \A S : <<>> \in Seq(S)
  OBVIOUS
<1>6. \A n \in PipeIds : content'[n] \in Seq(X[n])
  BY <1>2, <1>5 DEF Flow
<1>7. MainFlow(X, d)'
  BY <1>2, <1>3, <1>5 DEF Flow, MainFlow
<1> QED BY <1>4, <1>6, <1>7 DEF Flow

(* Main makes a pipe; a sorting Y that admits more may take the place of X.  *)
LEMMA WrittenMore ==
  ASSUME NEW r, NEW X, NEW Y, NEW k, NEW m, X[k] \subseteq Y[k], X[m] \subseteq Y[m],
         Written(r, X, k, m)
  PROVE  Written(r, Y, k, m)
<1>1. r.pending \in Seq(Y[m])
  BY SeqSubset DEF Written
<1> QED BY <1>1 DEF Written

(* A fork of Main keeps the flow, or begins it.                              *)
LEMMA FlowMainForks ==
  ASSUME TypeInv, program = "pipeline", NEW a, NEW b, NEW i, NEW j,
         NEW X, Flow(X, 0) \/ Start, NEW Y \in Sortings,
         \A n \in PipeIds : content[n] \in Seq(Y[n]),
         Flow(X, 0) => \A n \in PipeIds : X[n] \subseteq Y[n],
         proc[Main].pc \in {"fork_1", "fork_2", "fork_3"},
         proc[Main].open[1] = Terminal,
         NEW here, here \in {"fork_2", "fork_3", "close"},
         NEW childs, MainForks(here, childs, a, b, i, j)
  PROVE  Flow(Y, j)'
<1>1. /\ content' = content /\ UNCHANGED screen /\ Same(proc'[Main], proc[Main])
      /\ proc'[Main].pc = here
  BY DEF MainForks
<1>2. screen = <<>> /\ proc[Main].pending = <<>> /\ proc[Main].buffer \in Seq({"arg"})
  <2>1. Start => screen = <<>> /\ proc[Main].pending = <<>> /\ proc[Main].buffer = <<>>
    BY DEF Start
  <2>2. <<>> \in Seq({"arg"})
    OBVIOUS
  <2>3. Flow(X, 0) => screen = <<>> /\ proc[Main].pending = <<>>
                       /\ proc[Main].buffer \in Seq({"arg"})
    BY DEF Flow, MainFlow
  <2> QED BY <2>1, <2>2, <2>3
<1>3. \A n \in PipeIds : content'[n] \in Seq(Y[n])
  BY <1>1
<1>4. MainFlow(Y, j)'
  <2>1. \A S : <<>> \in Seq(S)
    OBVIOUS
  <2>2. /\ proc'[Main].pending = <<>> /\ proc'[Main].buffer \in Seq({"arg"})
        /\ screen' = <<>>
    BY <1>1, <1>2 DEF Same
  <2> QED BY <1>1, <2>1, <2>2 DEF MainFlow
<1>5. ASSUME NEW y \in Procs \ {Main}, proc[y].pc # "free"
      PROVE  ProcFlow(proc[y], Y)
  <2>1. Flow(X, 0)
    BY <1>5 DEF Start, Others
  <2>2. ProcFlow(proc[y], X) /\ \A n \in PipeIds : X[n] \subseteq Y[n]
    BY <1>5, <2>1 DEF Flow
  <2>3. ASSUME NEW k \in PipeIds, NEW m \in PipeIds, Linked(proc[y].open, k, m)
        PROVE  Written(proc[y], Y, k, m)
    <3>1. Written(proc[y], X, k, m)
      BY <2>2, <2>3 DEF ProcFlow
    <3> QED BY <2>2, <3>1, WrittenMore
  <2> QED BY <2>2, <2>3 DEF ProcFlow
<1>6. ASSUME NEW s, Same(s, proc[Main])
      PROVE  ProcFlow(s, Y)
  <2>1. s.open[1] = Terminal /\ s.pending = <<>> /\ s.buffer \in Seq({"arg"})
    BY <1>2, <1>6 DEF Same
  <2>2. \A k, m : ~Linked(s.open, k, m)
    BY <2>1, EndInjective DEF Linked, Terminal
  <2> QED BY <2>1, <2>2 DEF ProcFlow
<1>7. \A y \in Procs \ {Main} : proc'[y] = proc[y] \/ Same(proc'[y], proc[Main])
  BY DEF MainForks
<1>8. \A y \in Procs \ {Main} : proc'[y].pc # "free" => ProcFlow(proc'[y], Y)
  BY <1>5, <1>6, <1>7
<1> QED BY <1>3, <1>4, <1>8 DEF Flow

-------------------------------------------------------------------------------
(* A program that is missing, or was not started, cuts the flow: the numbers *)
(* do not get into pipe b, or not from there into c, or not into d.          *)

Sorts(a, b, c, d, B, C, D) ==
  [k \in PipeIds |-> IF k = a THEN {"arg"} ELSE IF k = b THEN B
                     ELSE IF k = c THEN C ELSE IF k = d THEN D ELSE {}]

Stage1 == {"setup_1", "read_argument"}
Stage2 == {"setup_2", "filter"}
Stage3 == {"setup_3", "calc"}
At(P)   == \E x \in Procs \ {Main} : proc[x].pc \in P
Kept(P) == \A y \in Procs \ {Main} : proc'[y].pc \in P => proc[y].pc \in P

Lacks1 == "gen_numbers" \in missing \/ ~At(Stage1)
Lacks2 == "filter_pos_nums" \in missing \/ (missing = {} /\ ~At(Stage2))
Lacks3 == "calc_avg" \in missing \/ (missing = {} /\ ~At(Stage3))

Litter1 == {"arg", "noise", "neg"}
Litter3 == {"arg", "noise", "neg", "pos"}
Sorts1(a, b, c, d) == Sorts(a, b, c, d, Litter1, Litter1, Litter1)
Sorts2(a, b, c, d) ==
  Sorts(a, b, c, d, Litter3, {"avg", "arg", "noise"}, {"arg", "noise"})
Sorts3(a, b, c, d) == Sorts(a, b, c, d, Litter3, Litter3, Litter3)

Clean1(a, b, c, d) == Lacks1 /\ Flow(Sorts1(a, b, c, d), d)
Clean2(a, b, c, d) == Lacks2 /\ Flow(Sorts2(a, b, c, d), d)
Clean3(a, b, c, d) == Lacks3 /\ Flow(Sorts3(a, b, c, d), d)

(* What Sorts says of the four pipes.                                        *)
LEMMA SortsFacts ==
  ASSUME NEW a, NEW b, NEW c, NEW d, NEW pc, Made(pc, a, b, c, d), 0 \notin PipeIds,
         NEW B, NEW C, NEW D
  PROVE  LET X == Sorts(a, b, c, d, B, C, D) IN
         /\ B \cup C \cup D \subseteq Chunks \ {"NUL"} => X \in Sortings
         /\ X[a] = {"arg"} /\ X[b] = B
         /\ c \in PipeIds => X[c] = C
         /\ d \in PipeIds => X[d] = D
<1>1. "arg" \in Chunks \ {"NUL"}
  BY DEF Chunks
<1> QED BY <1>1 DEF Sorts, Sortings, Made

(* A new pipe is added to the sorting.                                       *)
LEMMA SortsGrow ==
  ASSUME NEW a, NEW b, NEW c, NEW d, NEW i, NEW j, NEW pc, Made(pc, a, b, i, j),
         d = 0, c \in {0, i}, 0 \notin PipeIds, NEW B, NEW C, NEW D
  PROVE  \A n \in PipeIds :
           Sorts(a, b, c, d, B, C, D)[n] \subseteq Sorts(a, b, i, j, B, C, D)[n]
BY DEF Sorts, Made

(* The pipe that a process reads at the points of the programs.              *)
LEMMA PointFacts ==
  ASSUME NEW a, NEW b, NEW c, NEW d, NEW x, NEW s, NEW C, NEW k, NEW m,
         Moves(x, s, C, k, m, a, b, c, d)
  PROVE  /\ proc[x].pc = "read_argument" => k = a
         /\ proc[x].pc = "filter" =>
              "filter_pos_nums" \notin missing /\ (missing = {} => k = b)
         /\ proc[x].pc = "calc" =>
              "calc_avg" \notin missing /\ (missing = {} => k = c)
         /\ proc[x].pc \in {"read_argument", "filter", "calc"} =>
              Stands(x, k, m, a, b, c, d)
         /\ missing = {} => proc[x].pc \in {"setup_1", "setup_2", "setup_3",
                              "read_argument", "filter", "calc", "exit"}
<1>1. CASE Raw(proc[x], a, b, c, d)
  BY <1>1 DEF Raw
<1>2. CASE Stands(x, k, m, a, b, c, d)
  <2>1. Worker(proc[x], missing, a, b, c, d) /\ proc[x].open[0] = End(k, "r")
    BY <1>2 DEF Stands
  <2>2. \A i, j : Linked(proc[x].open, i, j) => i = k
    BY <2>1, EndInjective DEF Linked
  <2> QED BY <1>2, <2>1, <2>2 DEF Worker
<1> QED BY <1>1, <1>2 DEF Moves

(* No process gets to a program but by the start of that program.            *)
LEMMA WorkerKept ==
  ASSUME TypeInv, program = "pipeline", NEW a, NEW b, NEW c, NEW d,
         NEW x \in Procs \ {Main},
         \/ \E s, C, k, m : Moves(x, s, C, k, m, a, b, c, d)
         \/ WorkerForks(x, a, b, c, d)
         \/ \E k, m : WorkerEnds(x, k, m)
  PROVE  Kept(Stage1) /\ (missing = {} => Kept(Stage2) /\ Kept(Stage3))
<1>1. CASE \E s, C, k, m : Moves(x, s, C, k, m, a, b, c, d)
  <2>1. PICK s, C, k, m : Moves(x, s, C, k, m, a, b, c, d)
    BY <1>1
  <2>2. /\ proc'[x] = s /\ \A y \in Procs \ {x} : proc'[y] = proc[y]
        /\ Move(x, s, C, k, m)
    BY <2>1 DEF Moves, Effect, Steps
  <2>3. s.pc \in Stage1 => proc[x].pc \in Stage1
    BY <2>2 DEF Move, FlushMove, QuietMove, SetupMove, ExecMove, ArgumentMove,
       FilterMove, CalcMove, Becomes, Stage1
  <2>4. s.pc \in Stage2 => proc[x].pc \in Stage2
    BY <2>2 DEF Move, FlushMove, QuietMove, SetupMove, ExecMove, ArgumentMove,
       FilterMove, CalcMove, Becomes, Stage2
  <2>5. s.pc \in Stage3 => proc[x].pc \in Stage3
    BY <2>2 DEF Move, FlushMove, QuietMove, SetupMove, ExecMove, ArgumentMove,
       FilterMove, CalcMove, Becomes, Stage3
  <2> QED BY <2>2, <2>3, <2>4, <2>5 DEF Kept
<1>2. CASE WorkerForks(x, a, b, c, d)
  <2>1. /\ missing # {} /\ proc'[x].pc \in {"fork_3", "close"}
        /\ \A y \in Procs \ {x} : proc'[y] = proc[y]
                                   \/ proc'[y].pc \in {"setup_2", "setup_3"}
    BY <1>2 DEF WorkerForks
  <2> QED BY <2>1 DEF Kept, Stage1
<1>3. CASE \E k, m : WorkerEnds(x, k, m)
  <2>1. /\ proc'[x] = [Free EXCEPT !.pc = "free"]
        /\ \A y \in Procs \ {x} : proc'[y].pc = proc[y].pc
    BY <1>3 DEF WorkerEnds, EndStep, Alike
  <2>2. proc'[x].pc = "free"
    BY <2>1, FreeFacts DEF Processes
  <2> QED BY <2>1, <2>2 DEF Kept, Stage1, Stage2, Stage3
<1> QED BY <1>1, <1>2, <1>3

(* The steps of Main that are no fork bring nobody to one of the programs.   *)
LEMMA MainKept ==
  ASSUME NEW a, NEW b, NEW c, NEW d,
         (\E s, C : MainMoves(s, C, a, b, c, d)) \/ MainEnds(a)
  PROVE  Kept(Stage1) /\ Kept(Stage2) /\ Kept(Stage3)
<1>1. \A y \in Procs \ {Main} : proc'[y].pc = proc[y].pc
  BY DEF MainMoves, Steps, MainEnds, EndStep, Alike
<1> QED BY <1>1 DEF Kept

(* A program that nobody is at stays so.                                     *)
LEMMA LacksKept ==
  ASSUME UNCHANGED missing, Kept(Stage1),
         missing = {} => Kept(Stage2) /\ Kept(Stage3)
  PROVE  (Lacks1 => Lacks1') /\ (Lacks2 => Lacks2') /\ (Lacks3 => Lacks3')
BY DEF Kept, Lacks1, Lacks2, Lacks3, At

(* Every step of a coprocess keeps the flow if the sorting admits what it    *)
(* makes of its input.                                                       *)
LEMMA FlowWorker ==
  ASSUME TypeInv, program = "pipeline", NEW a, NEW b, NEW c, NEW d,
         Shape(a, b, c, d), NEW x \in Procs \ {Main}, NEW X, Flow(X, d),
         \A s, C, k, m : Moves(x, s, C, k, m, a, b, c, d) => Permits(proc[x].pc, X, k, m),
         \/ \E s, C, k, m : Moves(x, s, C, k, m, a, b, c, d)
         \/ WorkerForks(x, a, b, c, d)
         \/ \E k, m : WorkerEnds(x, k, m)
  PROVE  Flow(X, d)'
<1>1. d \in PipeIds \cup {0}
  BY DEF Shape, Made
<1>2. CASE \E s, C, k, m : Moves(x, s, C, k, m, a, b, c, d)
  <2>1. PICK s, C, k, m : Moves(x, s, C, k, m, a, b, c, d)
    BY <1>2
  <2>2. Permits(proc[x].pc, X, k, m)
    BY <2>1
  <2> QED BY <1>1, <2>1, <2>2, FlowMoves
<1>3. CASE WorkerForks(x, a, b, c, d)
  BY <1>3, FlowForks
<1>4. CASE \E k, m : WorkerEnds(x, k, m)
  BY <1>4, FlowEnds
<1> QED BY <1>2, <1>3, <1>4

(* A coprocess does not spoil any of the three.                              *)
LEMMA CleanWorker ==
  ASSUME TypeInv, program = "pipeline", NEW a, NEW b, NEW c, NEW d,
         Shape(a, b, c, d), NEW x \in Procs \ {Main}, UNCHANGED missing,
         \/ \E s, C, k, m : Moves(x, s, C, k, m, a, b, c, d)
         \/ WorkerForks(x, a, b, c, d)
         \/ \E k, m : WorkerEnds(x, k, m)
  PROVE  /\ Clean1(a, b, c, d) => Clean1(a, b, c, d)'
         /\ Clean2(a, b, c, d) => Clean2(a, b, c, d)'
         /\ Clean3(a, b, c, d) => Clean3(a, b, c, d)'
<1>1. (Lacks1 => Lacks1') /\ (Lacks2 => Lacks2') /\ (Lacks3 => Lacks3')
  BY WorkerKept, LacksKept
<1>2. 0 \notin PipeIds /\ Made(proc[Main].pc, a, b, c, d)
  BY PipelineFacts DEF Shape
<1>3. ASSUME NEW s, NEW C, NEW k, NEW m, Moves(x, s, C, k, m, a, b, c, d)
      PROVE  /\ k \in PipeIds /\ m \in PipeIds
             /\ \/ k = a /\ m = b
                \/ k = b /\ m = c
                \/ k = c /\ m = d
             /\ proc[x].pc = "read_argument" => k = a
             /\ proc[x].pc = "filter" => "filter_pos_nums" \notin missing
             /\ proc[x].pc = "calc" => "calc_avg" \notin missing
             /\ a # b /\ c \notin {a, b} /\ d \notin {a, b} /\ (c = d => c = 0)
  <2>1. Link(k, m, a, b, c, d)
    BY <1>3 DEF Moves, Effect
  <2>2. /\ proc[x].pc = "read_argument" => k = a
        /\ proc[x].pc = "filter" => "filter_pos_nums" \notin missing
        /\ proc[x].pc = "calc" => "calc_avg" \notin missing
    BY <1>3, PointFacts
  <2> QED BY <2>1, <2>2 DEF Link
<1>4. ASSUME Clean1(a, b, c, d)
      PROVE  Flow(Sorts1(a, b, c, d), d)'
  <2>1. PICK X : X = Sorts1(a, b, c, d)
    OBVIOUS
  <2>2. /\ X[a] = {"arg"} /\ X[b] = Litter1
        /\ c \in PipeIds => X[c] = Litter1
        /\ d \in PipeIds => X[d] = Litter1
    BY <1>2, <2>1, SortsFacts DEF Sorts1
  <2>3. ASSUME NEW s, NEW C, NEW k, NEW m, Moves(x, s, C, k, m, a, b, c, d)
        PROVE  Permits(proc[x].pc, X, k, m)
    <3>1. X[m] = Litter1 /\ X[k] \in {{"arg"}, Litter1} /\ (k = a => X[k] = {"arg"})
      BY <1>3, <2>2, <2>3
    <3>2. proc[x].pc = "read_argument" => k = a /\ "gen_numbers" \in missing
      BY <1>3, <1>4, <2>3 DEF Clean1, Lacks1, At, Stage1
    <3> QED BY <3>1, <3>2 DEF Permits, Litter1
  <2>4. Flow(X, d)
    BY <1>4, <2>1 DEF Clean1
  <2>5. Flow(X, d)'
    BY <2>3, <2>4, FlowWorker
  <2> QED BY <2>1, <2>5
<1>5. ASSUME Clean2(a, b, c, d)
      PROVE  Flow(Sorts2(a, b, c, d), d)'
  <2>1. PICK X : X = Sorts2(a, b, c, d)
    OBVIOUS
  <2>2. /\ X[a] = {"arg"} /\ X[b] = Litter3
        /\ c \in PipeIds => X[c] = {"avg", "arg", "noise"}
        /\ d \in PipeIds => X[d] = {"arg", "noise"}
    BY <1>2, <2>1, SortsFacts DEF Sorts2
  <2>3. ASSUME NEW s, NEW C, NEW k, NEW m, Moves(x, s, C, k, m, a, b, c, d)
        PROVE  Permits(proc[x].pc, X, k, m)
    <3>1. "noise" \in X[m] /\ "arg" \in X[m] /\ ("pos" \in X[k] => "avg" \in X[m])
      BY <1>3, <2>2, <2>3 DEF Litter3
    <3>2. proc[x].pc # "filter"
      BY <1>3, <1>5, <2>3 DEF Clean2, Lacks2, At, Stage2
    <3>3. proc[x].pc = "read_argument" => X[k] = {"arg"} /\ X[m] = Litter3
      BY <1>3, <2>2, <2>3
    <3> QED BY <3>1, <3>2, <3>3 DEF Permits, Litter3
  <2>4. Flow(X, d)
    BY <1>5, <2>1 DEF Clean2
  <2>5. Flow(X, d)'
    BY <2>3, <2>4, FlowWorker
  <2> QED BY <2>1, <2>5
<1>6. ASSUME Clean3(a, b, c, d)
      PROVE  Flow(Sorts3(a, b, c, d), d)'
  <2>1. PICK X : X = Sorts3(a, b, c, d)
    OBVIOUS
  <2>2. /\ X[a] = {"arg"} /\ X[b] = Litter3
        /\ c \in PipeIds => X[c] = Litter3
        /\ d \in PipeIds => X[d] = Litter3
    BY <1>2, <2>1, SortsFacts DEF Sorts3
  <2>3. ASSUME NEW s, NEW C, NEW k, NEW m, Moves(x, s, C, k, m, a, b, c, d)
        PROVE  Permits(proc[x].pc, X, k, m)
    <3>1. X[m] = Litter3 /\ X[k] \in {{"arg"}, Litter3} /\ (k = a => X[k] = {"arg"})
      BY <1>3, <2>2, <2>3
    <3>2. proc[x].pc # "calc"
      BY <1>3, <1>6, <2>3 DEF Clean3, Lacks3, At, Stage3
    <3>3. proc[x].pc = "read_argument" => k = a
      BY <1>3, <2>3
    <3> QED BY <3>1, <3>2, <3>3 DEF Permits, Litter3
  <2>4. Flow(X, d)
    BY <1>6, <2>1 DEF Clean3
  <2>5. Flow(X, d)'
    BY <2>3, <2>4, FlowWorker
  <2> QED BY <2>1, <2>5
<1> QED BY <1>1, <1>4, <1>5, <1>6 DEF Clean1, Clean2, Clean3

(* Main does not, unless it forks.                                           *)
LEMMA CleanMain ==
  ASSUME TypeInv, program = "pipeline", NEW a, NEW b, NEW c, NEW d,
         Shape(a, b, c, d), UNCHANGED missing,
         (\E s, C : MainMoves(s, C, a, b, c, d)) \/ MainEnds(a)
  PROVE  /\ Clean1(a, b, c, d) => Clean1(a, b, c, d)'
         /\ Clean2(a, b, c, d) => Clean2(a, b, c, d)'
         /\ Clean3(a, b, c, d) => Clean3(a, b, c, d)'
<1>1. (Lacks1 => Lacks1') /\ (Lacks2 => Lacks2') /\ (Lacks3 => Lacks3')
  BY MainKept, LacksKept
<1>2. 0 \notin PipeIds /\ Made(proc[Main].pc, a, b, c, d)
  BY PipelineFacts DEF Shape
<1>3. ASSUME NEW X, Flow(X, d), X[a] = {"arg"}
      PROVE  Flow(X, d)'
  <2>1. CASE MainEnds(a)
    BY <1>3, <2>1, FlowMainEnds
  <2>2. CASE \E s, C : MainMoves(s, C, a, b, c, d)
    <3>1. "arg" \in X[a]
      BY <1>3
    <3> QED BY <1>3, <2>2, <3>1, FlowMain
  <2> QED BY <2>1, <2>2
<1>4. /\ Sorts1(a, b, c, d)[a] = {"arg"} /\ Sorts2(a, b, c, d)[a] = {"arg"}
      /\ Sorts3(a, b, c, d)[a] = {"arg"}
  BY <1>2, SortsFacts DEF Sorts1, Sorts2, Sorts3
<1>5. ASSUME Clean1(a, b, c, d)
      PROVE  Flow(Sorts1(a, b, c, d), d)'
  <2>1. PICK X : X = Sorts1(a, b, c, d)
    OBVIOUS
  <2>2. Flow(X, d)'
    BY <1>3, <1>4, <1>5, <2>1 DEF Clean1
  <2> QED BY <2>1, <2>2
<1>6. ASSUME Clean2(a, b, c, d)
      PROVE  Flow(Sorts2(a, b, c, d), d)'
  <2>1. PICK X : X = Sorts2(a, b, c, d)
    OBVIOUS
  <2>2. Flow(X, d)'
    BY <1>3, <1>4, <1>6, <2>1 DEF Clean2
  <2> QED BY <2>1, <2>2
<1>7. ASSUME Clean3(a, b, c, d)
      PROVE  Flow(Sorts3(a, b, c, d), d)'
  <2>1. PICK X : X = Sorts3(a, b, c, d)
    OBVIOUS
  <2>2. Flow(X, d)'
    BY <1>3, <1>4, <1>7, <2>1 DEF Clean3
  <2> QED BY <2>1, <2>2
<1> QED BY <1>1, <1>5, <1>6, <1>7 DEF Clean1, Clean2, Clean3

(* The first fork of Main.                                                   *)
LEMMA CleanStart ==
  ASSUME TypeInv, program = "pipeline", Start, UNCHANGED missing, NEW a, NEW b,
         MainForks("fork_2", "setup_1", a, b, 0, 0)
  PROVE  /\ "gen_numbers" \in missing \/ failures' # failures => Clean1(a, b, 0, 0)'
         /\ "filter_pos_nums" \in missing \/ missing = {} => Clean2(a, b, 0, 0)'
         /\ "calc_avg" \in missing \/ missing = {} => Clean3(a, b, 0, 0)'
         /\ failures' = failures => At(Stage1)'
<1>1. /\ 0 \notin PipeIds /\ Made("fork_2", a, b, 0, 0) /\ proc[Main].pc = "fork_1"
      /\ proc[Main].open[1] = Terminal /\ \A n \in PipeIds : content[n] = <<>>
  BY PipelineFacts DEF MainForks, Start
<1>2. \A y \in Procs \ {Main} : proc[y].pc = "free"
  BY DEF Start, Others
<1>3. \A y \in Procs \ {Main} : proc'[y].pc \in {"free", "setup_1"}
  BY <1>2 DEF MainForks
<1>4. failures' # failures => \A y \in Procs \ {Main} : proc'[y] = proc[y]
  BY DEF MainForks
<1>5. failures' = failures => At(Stage1)'
  <2>1. failures \in Nat
    BY DEF TypeInv
  <2>2. failures' = failures => \E q \in Procs \ {Main} : proc'[q].pc = "setup_1"
    BY <2>1 DEF MainForks
  <2> QED BY <2>2 DEF At, Stage1
<1>6. /\ "gen_numbers" \in missing \/ failures' # failures => Lacks1'
      /\ "filter_pos_nums" \in missing \/ missing = {} => Lacks2'
      /\ "calc_avg" \in missing \/ missing = {} => Lacks3'
  BY <1>2, <1>3, <1>4 DEF Lacks1, Lacks2, Lacks3, At, Stage1, Stage2, Stage3
<1>7. ASSUME NEW Y \in Sortings
      PROVE  Flow(Y, 0)'
  <2>1. \A n \in PipeIds : content[n] \in Seq(Y[n])
    <3>1. \A S : <<>> \in Seq(S)
      OBVIOUS
    <3> QED BY <1>1, <3>1
  <2>2. ~Flow(Y, 0) \/ \A n \in PipeIds : Y[n] \subseteq Y[n]
    OBVIOUS
  <2> QED BY <1>1, <2>1, <2>2, FlowMainForks
<1>8. /\ Litter1 \subseteq Chunks \ {"NUL"} /\ Litter3 \subseteq Chunks \ {"NUL"}
      /\ {"avg", "arg", "noise"} \subseteq Chunks \ {"NUL"}
      /\ {"arg", "noise"} \subseteq Chunks \ {"NUL"}
  BY DEF Litter1, Litter3, Chunks
<1>9. /\ Sorts1(a, b, 0, 0) \in Sortings /\ Sorts2(a, b, 0, 0) \in Sortings
      /\ Sorts3(a, b, 0, 0) \in Sortings
  <2>1. ASSUME NEW B, NEW C, NEW D, B \subseteq Chunks \ {"NUL"},
               C \subseteq Chunks \ {"NUL"}, D \subseteq Chunks \ {"NUL"}
        PROVE  Sorts(a, b, 0, 0, B, C, D) \in Sortings
    <3>1. B \cup C \cup D \subseteq Chunks \ {"NUL"}
      BY <2>1
    <3> QED BY <1>1, <3>1, SortsFacts
  <2> QED BY <1>8, <2>1 DEF Sorts1, Sorts2, Sorts3
<1>10. /\ Flow(Sorts1(a, b, 0, 0), 0)' /\ Flow(Sorts2(a, b, 0, 0), 0)'
       /\ Flow(Sorts3(a, b, 0, 0), 0)'
  <2>1. PICK X, Y, Z : /\ X = Sorts1(a, b, 0, 0) /\ Y = Sorts2(a, b, 0, 0)
                       /\ Z = Sorts3(a, b, 0, 0)
    OBVIOUS
  <2>2. Flow(X, 0)' /\ Flow(Y, 0)' /\ Flow(Z, 0)'
    BY <1>7, <1>9, <2>1
  <2> QED BY <2>1, <2>2
<1> QED BY <1>5, <1>6, <1>10 DEF Clean1, Clean2, Clean3

(* Main makes a pipe after the first two: n is c, or it is d.                *)
Extends(c, i, j, n) == (c = 0 /\ i = n /\ j = 0) \/ (i = c /\ j = n)

(* A fork of Main keeps the flow with the new pipe added to the sorting.     *)
LEMMA FlowGrow ==
  ASSUME TypeInv, program = "pipeline", NEW a, NEW b, NEW c, NEW i, NEW j, NEW n,
         Shape(a, b, c, 0), Extends(c, i, j, n),
         proc[Main].pc \in {"fork_2", "fork_3"},
         NEW here, here \in {"fork_3", "close"}, NEW childs,
         MainForks(here, childs, a, b, i, j), NEW B, NEW C, NEW D,
         B \cup C \cup D \subseteq Chunks \ {"NUL"},
         Flow(Sorts(a, b, c, 0, B, C, D), 0)
  PROVE  Flow(Sorts(a, b, i, j, B, C, D), j)'
<1>1. /\ 0 \notin PipeIds /\ Made(here, a, b, i, j) /\ MainTable(proc[Main], a, b, c, 0)
  BY PipelineFacts DEF MainForks, Shape
<1>2. proc[Main].open[1] = Terminal
  BY <1>1 DEF MainTable, Ended
<1>3. PICK X, Y : X = Sorts(a, b, c, 0, B, C, D) /\ Y = Sorts(a, b, i, j, B, C, D)
  OBVIOUS
<1>4. \A k \in PipeIds : X[k] \subseteq Y[k]
  <2>1. c \in {0, i}
    BY DEF Extends
  <2> QED BY <1>1, <1>3, <2>1, SortsGrow
<1>5. Y \in Sortings
  BY <1>1, <1>3, SortsFacts
<1>6. \A k \in PipeIds : content[k] \in Seq(Y[k])
  <2>1. ASSUME NEW k \in PipeIds
        PROVE  content[k] \in Seq(Y[k])
    <3>1. content[k] \in Seq(X[k]) /\ X[k] \subseteq Y[k]
      BY <1>3, <1>4 DEF Flow
    <3> QED BY <3>1, SeqSubset
  <2> QED BY <2>1
<1>7. Flow(X, 0)
  BY <1>3
<1>8. Flow(Y, j)'
  BY <1>2, <1>4, <1>5, <1>6, <1>7, FlowMainForks
<1> QED BY <1>3, <1>8

(* A fork of Main keeps it clean, unless it starts the program in question.  *)
LEMMA CleanForks ==
  ASSUME TypeInv, program = "pipeline", NEW a, NEW b, NEW c, NEW i, NEW j, NEW n,
         Shape(a, b, c, 0), Extends(c, i, j, n), UNCHANGED missing,
         proc[Main].pc \in {"fork_2", "fork_3"},
         NEW here, here \in {"fork_3", "close"}, NEW childs,
         childs \in {"setup_2", "setup_3"},
         MainForks(here, childs, a, b, i, j)
  PROVE  /\ Clean1(a, b, c, 0) => Clean1(a, b, i, j)'
         /\ childs = "setup_3" \/ missing # {} \/ failures' # failures =>
              (Clean2(a, b, c, 0) => Clean2(a, b, i, j)')
         /\ childs = "setup_2" \/ missing # {} \/ failures' # failures =>
              (Clean3(a, b, c, 0) => Clean3(a, b, i, j)')
<1>1. \A y \in Procs \ {Main} :
        proc'[y] = proc[y] \/ (proc'[y].pc = childs /\ failures' = failures)
  BY DEF MainForks
<1>2. Lacks1 => Lacks1'
  BY <1>1 DEF Lacks1, At, Stage1
<1>3. childs = "setup_3" \/ missing # {} \/ failures' # failures => (Lacks2 => Lacks2')
  BY <1>1 DEF Lacks2, At, Stage2
<1>4. childs = "setup_2" \/ missing # {} \/ failures' # failures => (Lacks3 => Lacks3')
  BY <1>1 DEF Lacks3, At, Stage3
<1>5. /\ Litter1 \cup Litter1 \cup Litter1 \subseteq Chunks \ {"NUL"}
      /\ Litter3 \cup Litter3 \cup Litter3 \subseteq Chunks \ {"NUL"}
      /\ Litter3 \cup {"avg", "arg", "noise"} \cup {"arg", "noise"}
           \subseteq Chunks \ {"NUL"}
  BY DEF Litter1, Litter3, Chunks
<1>6. Flow(Sorts1(a, b, c, 0), 0) => Flow(Sorts1(a, b, i, j), j)'
  BY <1>5, FlowGrow DEF Sorts1
<1>7. Flow(Sorts2(a, b, c, 0), 0) => Flow(Sorts2(a, b, i, j), j)'
  BY <1>5, FlowGrow DEF Sorts2
<1>8. Flow(Sorts3(a, b, c, 0), 0) => Flow(Sorts3(a, b, i, j), j)'
  BY <1>5, FlowGrow DEF Sorts3
<1> QED BY <1>2, <1>3, <1>4, <1>6, <1>7, <1>8 DEF Clean1, Clean2, Clean3

-------------------------------------------------------------------------------
(* As long as no fork() has failed, somebody reads the argument.             *)

Early == {"fork_2", "fork_3", "close", "send"}
ReaderInv(a) ==
  failures = 0 /\ proc[Main].pc \in Early => content[a] = <<>> /\ At(Stage1)
NotKilled == failures = 0 => proc[Main].pc # "killed"

(* Main can write to pipe a until it has sent its argument.                  *)
LEMMA MainWrites ==
  ASSUME TypeInv, program = "pipeline", NEW a, NEW b, NEW c, NEW d,
         Shape(a, b, c, d), proc[Main].pc \in Early
  PROVE  HasWriter(a)
<1>1. Main \in Procs /\ MainTable(proc[Main], a, b, c, d)
  BY PipelineFacts DEF Shape
<1>2. 4 \in DOMAIN proc[Main].open /\ proc[Main].open[4] = End(a, "w")
  BY <1>1 DEF MainTable, Pair, Early
<1> QED BY <1>1, <1>2, PipeEnd

(* The descriptors of the processes at the three programs.                   *)
LEMMA StageEnds ==
  ASSUME NEW a, NEW b, NEW c, NEW d, NEW miss, NEW r, Proper(r, miss, a, b, c, d),
         r.pc \notin Ended => 0..2 \subseteq DOMAIN r.open
  PROVE  /\ r.pc \in Stage1 =>
              \E f, g \in DOMAIN r.open : r.open[f] = End(a, "r") /\ r.open[g] = End(b, "w")
         /\ r.pc \in Stage2 /\ miss = {} =>
              \E f, g \in DOMAIN r.open : r.open[f] = End(b, "r") /\ r.open[g] = End(c, "w")
         /\ r.pc \in Stage3 /\ miss = {} =>
              \E f, g \in DOMAIN r.open : r.open[f] = End(c, "r") /\ r.open[g] = End(d, "w")
<1>1. CASE r.pc = "free"
  BY <1>1 DEF Stage1, Stage2, Stage3
<1>2. CASE Raw(r, a, b, c, d)
  <2>1. r.pc = "setup_1" => /\ 3 \in DOMAIN r.open /\ r.open[3] = End(a, "r")
                            /\ 6 \in DOMAIN r.open /\ r.open[6] = End(b, "w")
    BY <1>2 DEF Raw, Pair
  <2>2. r.pc = "setup_2" => /\ 5 \in DOMAIN r.open /\ r.open[5] = End(b, "r")
                            /\ 8 \in DOMAIN r.open /\ r.open[8] = End(c, "w")
    BY <1>2 DEF Raw, Pair
  <2>3. r.pc = "setup_3" => /\ 7 \in DOMAIN r.open /\ r.open[7] = End(c, "r")
                            /\ 10 \in DOMAIN r.open /\ r.open[10] = End(d, "w")
    BY <1>2 DEF Raw, Pair
  <2>4. r.pc \in {"setup_1", "setup_2", "setup_3"}
    BY <1>2 DEF Raw
  <2> QED BY <2>1, <2>2, <2>3, <2>4 DEF Stage1, Stage2, Stage3
<1>3. CASE Worker(r, miss, a, b, c, d)
  <2>1. r.pc \notin Ended
    BY <1>3 DEF Worker, Ended
  <2>2. 0 \in DOMAIN r.open /\ 1 \in DOMAIN r.open
    BY <2>1
  <2>3. /\ r.pc \in Stage1 => Linked(r.open, a, b)
        /\ r.pc \in Stage2 /\ miss = {} => Linked(r.open, b, c)
        /\ r.pc \in Stage3 /\ miss = {} => Linked(r.open, c, d)
    BY <1>3 DEF Worker, Stage1, Stage2, Stage3
  <2> QED BY <2>2, <2>3 DEF Linked
<1> QED BY <1>1, <1>2, <1>3 DEF Proper

(* The pipes of the processes at the three programs have a reader and a      *)
(* writer.                                                                   *)
LEMMA StageOpen ==
  ASSUME TypeInv, program = "pipeline", NEW a, NEW b, NEW c, NEW d,
         Shape(a, b, c, d), NEW x \in Procs \ {Main}
  PROVE  /\ proc[x].pc \in Stage1 => HasReader(a) /\ HasWriter(b)
         /\ proc[x].pc \in Stage2 /\ missing = {} => HasReader(b) /\ HasWriter(c)
         /\ proc[x].pc \in Stage3 /\ missing = {} => HasReader(c) /\ HasWriter(d)
<1>1. Proper(proc[x], missing, a, b, c, d)
      /\ (proc[x].pc \notin Ended => 0..2 \subseteq DOMAIN proc[x].open)
  BY PipelineFacts DEF Shape
<1>2. ASSUME NEW k, NEW m, NEW f \in DOMAIN proc[x].open, NEW g \in DOMAIN proc[x].open,
             proc[x].open[f] = End(k, "r"), proc[x].open[g] = End(m, "w")
      PROVE  HasReader(k) /\ HasWriter(m)
  BY <1>2, PipeEnd
<1> QED BY <1>1, <1>2, StageEnds

(* A pipe that is empty stays so if nobody writes to it.                     *)
LEMMA MoveEmpty ==
  ASSUME TypeInv, NEW x, NEW s, NEW C, NEW k, NEW m, Move(x, s, C, k, m),
         k \in PipeIds, m \in PipeIds, NEW n \in PipeIds, n # m
  PROVE  /\ content[n] = <<>> => C[n] = <<>>
         /\ n # k => C[n] = content[n]
<1>1. content \in [PipeIds -> Seq(Chunks)]
  BY DEF TypeInv
<1>2. \/ C = content
      \/ \E e : C = [content EXCEPT ![m] = Append(@, e)]
      \/ C = [content EXCEPT ![k] = <<>>]
      \/ content[k] # <<>> /\ C = [content EXCEPT ![k] = Tail(@)]
      \/ /\ content[k] # <<>>
         /\ \E e : C = [content EXCEPT ![k] = Tail(@), ![m] = Append(@, e)]
  BY Zenon DEF Move, FlushMove, QuietMove, SetupMove, ArgumentMove, FilterMove, CalcMove
<1> QED BY <1>1, <1>2

(* The argument is not read before it is sent.                               *)
LEMMA ReaderWorker ==
  ASSUME TypeInv, program = "pipeline", NEW a, NEW b, NEW c, NEW d,
         Shape(a, b, c, d), ReaderInv(a), NotKilled, NEW x \in Procs \ {Main},
         \/ \E s, C, k, m : Moves(x, s, C, k, m, a, b, c, d)
         \/ WorkerForks(x, a, b, c, d)
         \/ \E k, m : WorkerEnds(x, k, m)
  PROVE  ReaderInv(a)' /\ NotKilled'
<1>1. Main \in Procs /\ a \in PipeIds /\ failures \in Nat /\ 0 \notin PipeIds
  BY PipelineFacts DEF Shape, Made, TypeInv
<1>2. proc'[Main].pc = proc[Main].pc /\ (failures' = failures \/ failures' = failures + 1)
  BY <1>1 DEF Moves, Effect, Steps, WorkerForks, WorkerEnds, EndStep, Alike
<1>3. NotKilled' /\ (failures' = 0 => failures = 0)
  BY <1>1, <1>2 DEF NotKilled
<1>4. SUFFICES ASSUME failures = 0, proc[Main].pc \in Early
               PROVE  content'[a] = <<>> /\ At(Stage1)'
  BY <1>2, <1>3 DEF ReaderInv
<1>5. content[a] = <<>> /\ HasWriter(a)
  BY <1>4, MainWrites DEF ReaderInv
<1>6. PICK z \in Procs \ {Main} : proc[z].pc \in Stage1
  BY <1>4 DEF ReaderInv, At
<1>7. CASE \E s, C, k, m : Moves(x, s, C, k, m, a, b, c, d)
  <2>1. PICK s, C, k, m : Moves(x, s, C, k, m, a, b, c, d)
    BY <1>7
  <2>2. /\ Move(x, s, C, k, m) /\ Link(k, m, a, b, c, d)
        /\ proc'[x] = s /\ \A y \in Procs \ {x} : proc'[y] = proc[y]
        /\ \A n \in PipeIds : content'[n] \in {C[n], <<>>}
    BY <2>1 DEF Moves, Effect, Steps
  <2>3. a # m /\ k \in PipeIds /\ m \in PipeIds
    BY <1>1, <2>2 DEF Link
  <2>4. content'[a] = <<>>
    BY <1>1, <1>5, <2>2, <2>3, MoveEmpty
  <2>5. proc[x].pc # "read_argument"
    <3>1. SUFFICES ASSUME proc[x].pc = "read_argument" PROVE FALSE
      OBVIOUS
    <3>2. k = a
      BY <2>1, <3>1, PointFacts
    <3>3. ArgumentMove(x, s, C, k)
      BY <2>2, <3>1 DEF Move, FlushMove, QuietMove, SetupMove, FilterMove, CalcMove
    <3> QED BY <1>5, <3>2, <3>3 DEF ArgumentMove
  <2>6. proc'[z].pc \in Stage1
    <3>1. proc[x].pc = "setup_1" => s.pc = "read_argument"
      BY <2>2 DEF Move, FlushMove, QuietMove, SetupMove, ArgumentMove, FilterMove,
         CalcMove, Becomes
    <3> QED BY <1>6, <2>2, <2>5, <3>1 DEF Stage1
  <2> QED BY <2>4, <2>6 DEF At
<1>8. CASE WorkerForks(x, a, b, c, d)
  <2>1. content' = content /\ proc[x].pc \in {"fork_2", "fork_3"}
        /\ \A y \in Procs \ {x} : proc'[y] = proc[y] \/ proc[y].pc = "free"
    BY <1>8 DEF WorkerForks
  <2>2. proc'[z].pc \in Stage1
    BY <1>6, <2>1 DEF Stage1
  <2> QED BY <1>5, <2>1, <2>2 DEF At
<1>9. CASE \E k, m : WorkerEnds(x, k, m)
  <2>1. /\ proc[x].pc \in {"exit", "filter"}
        /\ \A y \in Procs \ {x} : proc'[y].pc = proc[y].pc
        /\ \A n \in PipeIds : content'[n] \in {content[n], <<>>}
    BY <1>9 DEF WorkerEnds, EndStep, Alike, Holds
  <2>2. proc'[z].pc \in Stage1
    BY <1>6, <2>1 DEF Stage1
  <2> QED BY <1>1, <1>5, <2>1, <2>2 DEF At
<1> QED BY <1>7, <1>8, <1>9

(* The reader of the argument and the steps of Main.                         *)
LEMMA ReaderMain ==
  ASSUME TypeInv, program = "pipeline", NEW a, NEW b, NEW c, NEW d,
         Shape(a, b, c, d), ReaderInv(a), NotKilled,
         (\E s, C : MainMoves(s, C, a, b, c, d)) \/ MainEnds(a)
  PROVE  ReaderInv(a)' /\ NotKilled'
<1>1. a \in PipeIds /\ failures' = failures
  BY DEF Shape, Made, MainMoves, MainEnds
<1>2. CASE \E s, C : MainMoves(s, C, a, b, c, d)
  <2>1. PICK s, C : MainMoves(s, C, a, b, c, d)
    BY <1>2
  <2>2. /\ proc'[Main] = s /\ \A y \in Procs \ {Main} : proc'[y] = proc[y]
        /\ \A n \in PipeIds : content'[n] \in {C[n], <<>>}
        /\ MainMove(s, C, a, d)
    BY <2>1 DEF MainMoves, Steps
  <2>3. /\ s.pc \in {"send", "wait", "answer", "exit"}
        /\ s.pc = "send" => C = content /\ proc[Main].pc = "close"
    BY <2>2 DEF MainMove, Becomes
  <2>4. NotKilled'
    BY <2>2, <2>3 DEF NotKilled
  <2>5. ReaderInv(a)'
    BY <1>1, <2>2, <2>3 DEF ReaderInv, Early, At
  <2> QED BY <2>4, <2>5
<1>3. CASE MainEnds(a)
  <2>1. PICK pc \in {"exited", "killed"} :
          /\ EndStep(Main, pc)
          /\ pc = "killed" => proc[Main].pc = "send" /\ ~HasReader(a)
    BY <1>3 DEF MainEnds
  <2>2. proc'[Main].pc = pc
    <3>1. proc'[Main] = [Free EXCEPT !.pc = pc]
      BY <2>1 DEF EndStep
    <3> QED BY <3>1, FreeFacts DEF Processes
  <2>3. pc = "killed" => failures # 0
    <3>1. SUFFICES ASSUME pc = "killed", failures = 0 PROVE FALSE
      OBVIOUS
    <3>2. PICK z \in Procs \ {Main} : proc[z].pc \in Stage1
      BY <2>1, <3>1 DEF ReaderInv, Early, At
    <3>3. HasReader(a)
      BY <3>2, StageOpen
    <3> QED BY <2>1, <3>1, <3>3
  <2> QED BY <1>1, <2>2, <2>3 DEF ReaderInv, NotKilled, Early
<1> QED BY <1>2, <1>3

(* The reader of the argument and the forks of Main.                         *)
LEMMA ReaderForks ==
  ASSUME TypeInv, program = "pipeline", NEW a, NEW b, NEW c, NEW d, NEW i, NEW j,
         ReaderInv(a), proc[Main].pc \in {"fork_2", "fork_3"},
         NEW here, here \in {"fork_3", "close"}, NEW childs,
         MainForks(here, childs, a, b, i, j)
  PROVE  ReaderInv(a)' /\ NotKilled'
<1>1. /\ content' = content /\ proc'[Main].pc = here /\ failures \in Nat
      /\ \A y \in Procs \ {Main} : proc'[y] = proc[y] \/ proc[y].pc = "free"
      /\ failures' = failures \/ failures' = failures + 1
  BY DEF MainForks, TypeInv
<1>2. NotKilled'
  BY <1>1 DEF NotKilled
<1>3. SUFFICES ASSUME failures = 0 PROVE content'[a] = <<>> /\ At(Stage1)'
  BY <1>1, <1>2 DEF ReaderInv
<1>4. content[a] = <<>> /\ At(Stage1)
  BY <1>3 DEF ReaderInv, Early
<1>5. PICK z \in Procs \ {Main} : proc[z].pc \in Stage1
  BY <1>4 DEF At
<1>6. proc'[z].pc \in Stage1
  BY <1>1, <1>5 DEF Stage1
<1> QED BY <1>1, <1>4, <1>6 DEF At

-------------------------------------------------------------------------------
(* Unless all is well so far, it is known which program is not at work; and  *)
(* as long as a program is not started, its work is not done.                *)

Fine == missing = {} /\ failures = 0
Explained(a, b, c, d) ==
  LET pc == proc[Main].pc IN
  \/ /\ Fine
     /\ pc = "fork_2" => Clean2(a, b, c, d)
     /\ pc \in {"fork_2", "fork_3"} => Clean3(a, b, c, d)
  \/ Clean1(a, b, c, d)
  \/ Clean2(a, b, c, d) /\ (missing = {} => pc # "fork_2")
  \/ Clean3(a, b, c, d) /\ (missing = {} => pc \notin {"fork_2", "fork_3"})

(* It is known after the first fork of Main ...                              *)
LEMMA ExplainedStart ==
  ASSUME TypeInv, program = "pipeline", Start, UNCHANGED missing, NEW a, NEW b,
         MainForks("fork_2", "setup_1", a, b, 0, 0)
  PROVE  Explained(a, b, 0, 0)'
<1>1. /\ "gen_numbers" \in missing \/ failures' # failures => Clean1(a, b, 0, 0)'
      /\ "filter_pos_nums" \in missing \/ missing = {} => Clean2(a, b, 0, 0)'
      /\ "calc_avg" \in missing \/ missing = {} => Clean3(a, b, 0, 0)'
  BY CleanStart
<1>2. failures = 0 /\ missing \in SUBSET {"gen_numbers", "filter_pos_nums", "calc_avg"}
  BY DEF Start, TypeInv
<1> QED BY <1>1, <1>2 DEF Explained, Fine

(* ... and remains so in every step that is not a fork of Main ...           *)
LEMMA ExplainedStep ==
  ASSUME TypeInv, program = "pipeline", NEW a, NEW b, NEW c, NEW d,
         Shape(a, b, c, d), UNCHANGED missing, Explained(a, b, c, d),
         \/ \E x \in Procs \ {Main} :
              \/ \E s, C, k, m : Moves(x, s, C, k, m, a, b, c, d)
              \/ WorkerForks(x, a, b, c, d)
              \/ \E k, m : WorkerEnds(x, k, m)
         \/ \E s, C : MainMoves(s, C, a, b, c, d)
         \/ MainEnds(a)
  PROVE  Explained(a, b, c, d)'
<1>1. /\ Clean1(a, b, c, d) => Clean1(a, b, c, d)'
      /\ Clean2(a, b, c, d) => Clean2(a, b, c, d)'
      /\ Clean3(a, b, c, d) => Clean3(a, b, c, d)'
  BY CleanWorker, CleanMain
<1>2. proc'[Main].pc = proc[Main].pc \/ proc'[Main].pc \notin {"fork_2", "fork_3"}
  <2>1. Main \in Procs
    BY PipelineFacts
  <2>2. CASE \E x \in Procs \ {Main} :
              \/ \E s, C, k, m : Moves(x, s, C, k, m, a, b, c, d)
              \/ WorkerForks(x, a, b, c, d)
              \/ \E k, m : WorkerEnds(x, k, m)
    BY <2>1, <2>2 DEF Moves, Effect, Steps, WorkerForks, WorkerEnds, EndStep, Alike
  <2>3. CASE \E s, C : MainMoves(s, C, a, b, c, d)
    BY <2>3 DEF MainMoves, Steps, MainMove, Becomes
  <2>4. CASE MainEnds(a)
    <3>1. PICK pc \in {"exited", "killed"} : EndStep(Main, pc)
      BY <2>4 DEF MainEnds
    <3>2. proc'[Main] = [Free EXCEPT !.pc = pc]
      BY <3>1 DEF EndStep
    <3> QED BY <3>2, FreeFacts DEF Processes
  <2> QED BY <2>2, <2>3, <2>4
<1>3. missing = {} => failures' = failures
  BY DEF Moves, Effect, WorkerForks, WorkerEnds, MainMoves, MainEnds
<1> QED BY <1>1, <1>2, <1>3 DEF Explained, Fine

(* ... and in its second and third fork.                                     *)
LEMMA ExplainedForks ==
  ASSUME TypeInv, program = "pipeline", NEW a, NEW b, NEW c, NEW n,
         Shape(a, b, c, 0), UNCHANGED missing, Explained(a, b, c, 0)
  PROVE  /\ /\ proc[Main].pc = "fork_2" /\ c = 0
            /\ MainForks("fork_3", "setup_2", a, b, n, 0)
            => Explained(a, b, n, 0)'
         /\ proc[Main].pc = "fork_3" /\ MainForks("close", "setup_3", a, b, c, n)
            => Explained(a, b, c, n)'
<1>1. ASSUME proc[Main].pc = "fork_2", c = 0, MainForks("fork_3", "setup_2", a, b, n, 0)
      PROVE  Explained(a, b, n, 0)'
  <2>1. Extends(c, n, 0, n)
    BY <1>1 DEF Extends
  <2>2. /\ Clean1(a, b, c, 0) => Clean1(a, b, n, 0)'
        /\ missing # {} \/ failures' # failures =>
              (Clean2(a, b, c, 0) => Clean2(a, b, n, 0)')
        /\ Clean3(a, b, c, 0) => Clean3(a, b, n, 0)'
    BY <1>1, <2>1, CleanForks
  <2>3. proc'[Main].pc = "fork_3"
    BY <1>1 DEF MainForks
  <2> QED BY <1>1, <2>2, <2>3 DEF Explained, Fine
<1>2. ASSUME proc[Main].pc = "fork_3", MainForks("close", "setup_3", a, b, c, n)
      PROVE  Explained(a, b, c, n)'
  <2>1. Extends(c, c, n, n)
    BY DEF Extends
  <2>2. /\ Clean1(a, b, c, 0) => Clean1(a, b, c, n)'
        /\ Clean2(a, b, c, 0) => Clean2(a, b, c, n)'
        /\ missing # {} \/ failures' # failures =>
              (Clean3(a, b, c, 0) => Clean3(a, b, c, n)')
    BY <1>2, <2>1, CleanForks
  <2>3. proc'[Main].pc = "close"
    BY <1>2 DEF MainForks
  <2> QED BY <1>2, <2>2, <2>3 DEF Explained, Fine
<1> QED BY <1>1, <1>2

(* What is cut does not show the average.                                    *)
LEMMA ExplainedScreen ==
  ASSUME TypeInv, program = "pipeline", NEW a, NEW b, NEW c, NEW d,
         Shape(a, b, c, d), Explained(a, b, c, d), proc[Main].pc = "exited", ~Fine
  PROVE  screen # <<"avg">>
<1>1. 0 \notin PipeIds /\ Made(proc[Main].pc, a, b, c, d) /\ d \in PipeIds /\ d # 0
  BY PipelineFacts DEF Shape, Made
<1>2. /\ Sorts1(a, b, c, d)[d] = Litter1 /\ Sorts2(a, b, c, d)[d] = {"arg", "noise"}
      /\ Sorts3(a, b, c, d)[d] = Litter3
  BY <1>1, SortsFacts DEF Sorts1, Sorts2, Sorts3
<1>3. ASSUME NEW X, Flow(X, d), "avg" \notin X[d]
      PROVE  screen # <<"avg">>
  <2>1. screen \in Seq(X[d])
    BY <1>1, <1>3 DEF Flow, MainFlow
  <2>2. screen # <<>> => screen[1] \in X[d]
    BY <2>1
  <2>3. <<"avg">> # <<>> /\ <<"avg">>[1] = "avg"
    OBVIOUS
  <2> QED BY <1>3, <2>2, <2>3
<1>4. "avg" \notin Litter1 /\ "avg" \notin Litter3 /\ "avg" \notin {"arg", "noise"}
  BY DEF Litter1, Litter3
<1>5. Clean1(a, b, c, d) \/ Clean2(a, b, c, d) \/ Clean3(a, b, c, d)
  BY DEF Explained
<1> QED BY <1>2, <1>3, <1>4, <1>5 DEF Clean1, Clean2, Clean3

-------------------------------------------------------------------------------
(* When all is well, a number is on its way: it will be generated, is        *)
(* pending in gen_numbers or in pipe b with somebody to filter it, or is in  *)
(* pipe c; then calc_avg has read it, has the average to say, or has said it *)
(* in pipe d; and in the end Main has it, or the terminal.                   *)

Has(s, e) == \E i \in DOMAIN s : s[i] = e
Numbers(a, b, c, d) == Sorts(a, b, c, d, {"pos", "neg"}, {"pos"}, {"avg", "noise"})

HaveB(a, b) ==
  \/ At(Stage1)
  \/ \E x \in Procs \ {Main} :
       proc[x].pc = "exit" /\ Linked(proc[x].open, a, b) /\ Has(proc[x].pending, "pos")
  \/ Has(content[b], "pos")
Alive2 == proc[Main].pc = "fork_2" \/ At(Stage2)
HaveC(a, b, c) == (c # 0 /\ Has(content[c], "pos")) \/ (Alive2 /\ HaveB(a, b))

(* Only the processes in Q may write to pipe d.                              *)
Only(Q, c, d) ==
  \A x \in Procs \ {Main} : x \notin Q =>
    proc[x].pc \notin Stage3 /\ (proc[x].pc = "exit" => ~Linked(proc[x].open, c, d))

Before(q, c, d) ==
  /\ proc[Main].pc \in {"close", "send", "wait"} /\ Only({q}, c, d)
  /\ content[d] = <<>> /\ proc[q].parent = Main
Generating(a, b, c, d) ==
  proc[Main].pc \in {"fork_2", "fork_3"} /\ Only({}, c, d) /\ HaveC(a, b, c)
Adding(q, a, b, c, d) ==
  /\ Before(q, c, d) /\ proc[q].pc \in Stage3
  /\ proc[q].pc = "calc" => proc[q].buffer \in {<<>>, <<"pos">>}
  /\ HaveC(a, b, c) \/ (proc[q].pc = "calc" /\ proc[q].buffer = <<"pos">>)
Saying(q, c, d) ==
  /\ Before(q, c, d) /\ proc[q].pc = "exit" /\ Linked(proc[q].open, c, d)
  /\ proc[q].pending = <<"avg">>
Said(c, d) ==
  /\ proc[Main].pc \in {"close", "send", "wait", "answer"} /\ content[d] = <<"avg">>
  /\ \A x \in Procs \ {Main} :
       /\ proc[x].pc \notin Stage3
       /\ proc[x].pc = "exit" /\ Linked(proc[x].open, c, d) => proc[x].pending = <<>>
Printed ==
  \/ proc[Main].pc = "exit" /\ proc[Main].pending = <<"avg">> /\ screen = <<>>
  \/ proc[Main].pc \in {"exit", "exited"} /\ proc[Main].pending = <<>>
       /\ screen = <<"avg">>

(* There is one process that reads the argument, and it will get it.         *)
Argument(a) ==
  \A x, y \in Procs \ {Main} : proc[x].pc \in Stage1 =>
    /\ proc[y].pc \in Stage1 => x = y
    /\ proc[Main].pc \in Early \/ content[a] = <<"arg">>

Phases(a, b, c, d) ==
  \/ Generating(a, b, c, d)
  \/ \E q \in Procs \ {Main} : Adding(q, a, b, c, d) \/ Saying(q, c, d)
  \/ Said(c, d) \/ Printed

Happy(a, b, c, d) ==
  Flow(Numbers(a, b, c, d), d) /\ Argument(a) /\ Phases(a, b, c, d)

(* An element is still there after the sequence has grown or has lost        *)
(* another one.                                                              *)
LEMMA HasFacts ==
  ASSUME NEW S, NEW s \in Seq(S), NEW e \in S
  PROVE  /\ \A f \in S : Has(s, e) => Has(Append(s, f), e)
         /\ Has(Append(s, e), e)
         /\ Has(s, e) => s # <<>>
         /\ Has(s, e) /\ s[1] # e => Has(Tail(s), e)
<1>1. /\ Len(s) \in Nat /\ DOMAIN s = 1..Len(s)
  OBVIOUS
<1>2. ASSUME NEW f \in S, Has(s, e)
      PROVE  Has(Append(s, f), e)
  <2>1. PICK i \in 1..Len(s) : s[i] = e
    BY <1>1, <1>2 DEF Has
  <2>2. i \in DOMAIN Append(s, f) /\ Append(s, f)[i] = e
    BY <1>1, <2>1
  <2> QED BY <2>2 DEF Has
<1>3. Has(Append(s, e), e)
  <2>1. Len(s) + 1 \in DOMAIN Append(s, e) /\ Append(s, e)[Len(s) + 1] = e
    BY <1>1
  <2> QED BY <2>1 DEF Has
<1>4. Has(s, e) => s # <<>>
  BY DEF Has
<1>5. ASSUME Has(s, e), s[1] # e
      PROVE  Has(Tail(s), e)
  <2>1. PICK i \in 1..Len(s) : s[i] = e
    BY <1>1, <1>5 DEF Has
  <2>2. i # 1 /\ i - 1 \in 1..(Len(s) - 1) /\ s # <<>>
    BY <1>1, <1>5, <2>1
  <2>3. Len(Tail(s)) = Len(s) - 1 /\ DOMAIN Tail(s) = 1..(Len(s) - 1)
        /\ Tail(s)[i - 1] = s[i]
    BY <1>1, <2>1, <2>2
  <2> QED BY <2>1, <2>2, <2>3 DEF Has
<1> QED BY <1>2, <1>3, <1>4, <1>5

(* gen_numbers generates a number that calc_avg counts.                      *)
LEMMA NumbersHavePos == Has(NUMBERS, "pos") /\ NUMBERS # <<>>
<1>1. NUMBERS \in Seq({"pos", "neg"}) /\ "pos" \in ToSet(NUMBERS)
  BY ProgramsAssumption
<1>2. Has(NUMBERS, "pos")
  BY <1>1 DEF ToSet, Has
<1> QED BY <1>2 DEF Has

(* What is in the pipes of the processes at the programs.                    *)
LEMMA StageHolds ==
  ASSUME TypeInv', NEW a, NEW b, NEW c, NEW d, Shape(a, b, c, d)', missing' = {},
         NEW C, Holds(C), NEW y \in Procs \ {Main}
  PROVE  /\ proc'[y].pc \in Stage1 => content'[a] = C[a] /\ content'[b] = C[b]
         /\ proc'[y].pc \in Stage2 =>
              content'[b] = C[b] /\ (c \in PipeIds => content'[c] = C[c])
         /\ proc'[y].pc \in Stage3 =>
              /\ c \in PipeIds => content'[c] = C[c]
              /\ d \in PipeIds => content'[d] = C[d]
<1>1. /\ Proper(proc'[y], missing', a, b, c, d) /\ a \in PipeIds /\ b \in PipeIds
      /\ proc'[y].pc \notin Ended => 0..2 \subseteq DOMAIN proc'[y].open
  BY DEF Shape, Made, TypeInv, TableOK
<1>2. ASSUME NEW k, NEW m, NEW f \in DOMAIN proc'[y].open,
             NEW g \in DOMAIN proc'[y].open,
             proc'[y].open[f] = End(k, "r"), proc'[y].open[g] = End(m, "w")
      PROVE  /\ k \in PipeIds => content'[k] = C[k]
             /\ m \in PipeIds => content'[m] = C[m]
  BY <1>2 DEF Holds
<1>3. PICK r : r = proc'[y]
  OBVIOUS
<1>4. /\ r.pc \in Stage1 =>
           \E f, g \in DOMAIN r.open : r.open[f] = End(a, "r") /\ r.open[g] = End(b, "w")
      /\ r.pc \in Stage2 =>
           \E f, g \in DOMAIN r.open : r.open[f] = End(b, "r") /\ r.open[g] = End(c, "w")
      /\ r.pc \in Stage3 =>
           \E f, g \in DOMAIN r.open : r.open[f] = End(c, "r") /\ r.open[g] = End(d, "w")
  BY <1>1, <1>3, StageEnds
<1> QED BY <1>1, <1>2, <1>3, <1>4

(* What is in the pipes that Main has open.                                  *)
LEMMA MainHolds ==
  ASSUME TypeInv', NEW a, NEW b, NEW c, NEW d, Shape(a, b, c, d)', NEW C, Holds(C)
  PROVE  /\ proc'[Main].pc \in {"fork_2", "fork_3"} => content'[b] = C[b]
         /\ proc'[Main].pc = "fork_3" => content'[c] = C[c]
         /\ proc'[Main].pc \in {"close", "send", "wait", "answer"} =>
              content'[d] = C[d]
<1>1. /\ MainTable(proc'[Main], a, b, c, d) /\ Made(proc'[Main].pc, a, b, c, d)
      /\ Main \in Procs
  BY SizesAssumption DEF Shape, Main, Procs
<1>2. ASSUME NEW k \in PipeIds, NEW f \in DOMAIN proc'[Main].open,
             proc'[Main].open[f] = End(k, "r")
      PROVE  content'[k] = C[k]
  BY <1>1, <1>2 DEF Holds
<1>3. CASE proc'[Main].pc \in {"fork_2", "fork_3"}
  <2>1. 5 \in DOMAIN proc'[Main].open /\ proc'[Main].open[5] = End(b, "r")
    BY <1>1, <1>3 DEF MainTable, Pair
  <2>2. proc'[Main].pc = "fork_3" =>
          /\ 7 \in DOMAIN proc'[Main].open /\ proc'[Main].open[7] = End(c, "r")
          /\ c \in PipeIds
    BY <1>1, <1>3 DEF MainTable, Pair, Made
  <2> QED BY <1>1, <1>2, <1>3, <2>1, <2>2 DEF Made
<1>4. CASE proc'[Main].pc \in {"close", "send", "wait", "answer"}
  <2>1. /\ 9 \in DOMAIN proc'[Main].open /\ proc'[Main].open[9] = End(d, "r")
        /\ d \in PipeIds
    BY <1>1, <1>4 DEF MainTable, Pair, Made
  <2> QED BY <1>2, <1>4, <2>1
<1> QED BY <1>3, <1>4

(* The moves when no program is missing.                                     *)
FineMoves(x, s, C, k, m, a, b, c, d) ==
  \/ SetupMove(x, s, C)
  \/ ArgumentMove(x, s, C, a) /\ k = a /\ m = b
  \/ FilterMove(x, s, C, b, c) /\ k = b /\ m = c
  \/ CalcMove(x, s, C, c) /\ k = c /\ m = d
  \/ FlushMove(x, s, C, m)

(* They are all moves of a coprocess then, each with its pipes.              *)
LEMMA FineMove ==
  ASSUME TypeInv, program = "pipeline", missing = {}, NEW a, NEW b, NEW c, NEW d,
         NEW x, NEW s, NEW C, NEW k, NEW m, Moves(x, s, C, k, m, a, b, c, d)
  PROVE  /\ FineMoves(x, s, C, k, m, a, b, c, d)
         /\ k \in PipeIds /\ m \in PipeIds /\ k # m
         /\ a \in PipeIds => m # a
         /\ d \in PipeIds => k # d
         /\ a # b /\ c \notin {a, b} /\ d \notin {a, b} /\ (c = d => c = 0)
         /\ m = d => k = c \/ d = 0
         /\ m = b => k = a
         /\ Holds(C) /\ proc'[x] = s /\ \A y \in Procs \ {x} : proc'[y] = proc[y]
         /\ s.parent = proc[x].parent /\ UNCHANGED <<screen, failures>>
         /\ s.open[0] = End(k, "r") /\ s.open[1] = End(m, "w")
         /\ proc[x].pc \notin {"setup_1", "setup_2", "setup_3"} =>
              proc[x].open[0] = End(k, "r") /\ proc[x].open[1] = End(m, "w")
<1>1. Move(x, s, C, k, m) /\ Link(k, m, a, b, c, d) /\ Steps(x, s, C) /\ 0 \notin PipeIds
      /\ s.open[0] = End(k, "r") /\ s.open[1] = End(m, "w")
      /\ s.parent = proc[x].parent /\ UNCHANGED <<screen, failures>>
  BY PipelineFacts DEF Moves, Effect
<1>2. /\ proc[x].pc = "read_argument" => k = a
      /\ proc[x].pc = "filter" => k = b
      /\ proc[x].pc = "calc" => k = c
      /\ proc[x].pc \in {"setup_1", "setup_2", "setup_3",
                         "read_argument", "filter", "calc", "exit"}
  BY PointFacts
<1>3. ~QuietMove(x, s, C)
  BY <1>2 DEF QuietMove
<1>4. /\ k = a => m = b
      /\ k = b => m = c
      /\ k = c => m = d
  BY <1>1 DEF Link
<1>5. FineMoves(x, s, C, k, m, a, b, c, d)
  <2>1. CASE ArgumentMove(x, s, C, k)
    <3>1. k = a /\ m = b
      BY <1>2, <1>4, <2>1 DEF ArgumentMove
    <3> QED BY <2>1, <3>1 DEF FineMoves
  <2>2. CASE FilterMove(x, s, C, k, m)
    <3>1. k = b /\ m = c
      BY <1>2, <1>4, <2>2 DEF FilterMove
    <3> QED BY <2>2, <3>1 DEF FineMoves
  <2>3. CASE CalcMove(x, s, C, k)
    <3>1. k = c /\ m = d
      BY <1>2, <1>4, <2>3 DEF CalcMove
    <3> QED BY <2>3, <3>1 DEF FineMoves
  <2> QED BY <1>1, <1>3, <2>1, <2>2, <2>3 DEF Move, FineMoves
<1>6. Holds(C) /\ proc'[x] = s /\ \A y \in Procs \ {x} : proc'[y] = proc[y]
  BY <1>1 DEF Steps, Holds
<1>7. proc[x].pc \notin {"setup_1", "setup_2", "setup_3"} =>
        proc[x].open[0] = End(k, "r") /\ proc[x].open[1] = End(m, "w")
  BY DEF Moves, Raw, Stands
<1>8. /\ k \in PipeIds /\ m \in PipeIds /\ k # m
      /\ a \in PipeIds => m # a
      /\ d \in PipeIds => k # d
      /\ a # b /\ c \notin {a, b} /\ d \notin {a, b} /\ (c = d => c = 0)
      /\ m = d => k = c \/ d = 0
      /\ m = b => k = a
  BY <1>1 DEF Link
<1> QED BY <1>1, <1>5, <1>6, <1>7, <1>8

(* What can be used of the state and of the step to the next one.            *)
FineState(a, b, c, d) ==
  /\ TypeInv /\ program = "pipeline" /\ Fine /\ Shape(a, b, c, d)
  /\ ReaderInv(a) /\ Flow(Numbers(a, b, c, d), d) /\ Argument(a)

(* The facts of such a state by name.                                        *)
LEMMA FineFacts ==
  ASSUME NEW a, NEW b, NEW c, NEW d, FineState(a, b, c, d)
  PROVE  /\ TypeInv /\ program = "pipeline" /\ missing = {} /\ failures = 0
         /\ Shape(a, b, c, d) /\ a \in PipeIds /\ b \in PipeIds
         /\ c \in PipeIds \cup {0} /\ d \in PipeIds \cup {0} /\ 0 \notin PipeIds
         /\ content \in [PipeIds -> Seq(Chunks)] /\ "pos" \in Chunks
         /\ content[b] \in Seq({"pos", "neg"})
         /\ c \in PipeIds => content[c] \in Seq({"pos"})
         /\ \A x \in Procs : proc[x].pending \in Seq(Chunks)
         /\ Main \in Procs
         /\ a # b /\ c \notin {a, b} /\ d \notin {a, b} /\ (c = d => c = 0)
<1>1. /\ TypeInv /\ program = "pipeline" /\ missing = {} /\ failures = 0
      /\ Shape(a, b, c, d) /\ Made(proc[Main].pc, a, b, c, d)
  BY DEF FineState, Fine, Shape
<1>2. a \in PipeIds /\ b \in PipeIds /\ 0 \notin PipeIds /\ Main \in Procs
      /\ c \in PipeIds \cup {0} /\ d \in PipeIds \cup {0}
  BY <1>1, PipelineFacts DEF Made
<1>3. PICK X : X = Numbers(a, b, c, d)
  OBVIOUS
<1>4. X[b] = {"pos", "neg"} /\ (c \in PipeIds => X[c] = {"pos"})
  BY <1>1, <1>2, <1>3, SortsFacts DEF Numbers
<1>5. \A k \in PipeIds : content[k] \in Seq(X[k])
  BY <1>3 DEF FineState, Flow
<1>6. content \in [PipeIds -> Seq(Chunks)] /\ "pos" \in Chunks
      /\ \A x \in Procs : proc[x].pending \in Seq(Chunks)
  BY <1>1 DEF TypeInv, Processes, Chunks
<1>7. a # b /\ c \notin {a, b} /\ d \notin {a, b} /\ (c = d => c = 0)
  BY <1>1 DEF Made
<1> QED BY <1>1, <1>2, <1>4, <1>5, <1>6, <1>7

(* The argument is there when it is read.                                    *)
LEMMA ArgumentRead ==
  ASSUME NEW a, NEW b, NEW c, NEW d, FineState(a, b, c, d), NEW x \in Procs \ {Main},
         NEW s, NEW C, ArgumentMove(x, s, C, a)
  PROVE  content[a] = <<"arg">> /\ proc[Main].pc \notin Early
<1>1. /\ TypeInv /\ program = "pipeline" /\ failures = 0 /\ Shape(a, b, c, d)
  BY FineFacts
<1>2. proc[x].pc \in Stage1 /\ (content[a] # <<>> \/ ~HasWriter(a))
  BY DEF ArgumentMove, Stage1
<1>3. proc[Main].pc \notin Early
  <2>1. SUFFICES ASSUME proc[Main].pc \in Early PROVE FALSE
    OBVIOUS
  <2>2. content[a] = <<>>
    BY <1>1, <2>1 DEF FineState, ReaderInv
  <2> QED BY <1>1, <1>2, <2>1, <2>2, MainWrites
<1> QED BY <1>2, <1>3 DEF FineState, Argument

(* The number on its way to pipe c.                                          *)
LEMMA HaveBMoves ==
  ASSUME NEW a, NEW b, NEW c, NEW d, FineState(a, b, c, d), NEW x \in Procs \ {Main},
         NEW s, NEW C, NEW k, NEW m, Moves(x, s, C, k, m, a, b, c, d),
         HaveB(a, b), content'[b] = C[b]
  PROVE  HaveB(a, b)' \/ (c \in PipeIds /\ Has(C[c], "pos"))
<1> DEFINE r == proc[x]
<1>1. /\ TypeInv /\ program = "pipeline" /\ missing = {}
      /\ a \in PipeIds /\ b \in PipeIds /\ a # b /\ c \notin {a, b}
      /\ content \in [PipeIds -> Seq(Chunks)] /\ "pos" \in Chunks
      /\ content[b] \in Seq({"pos", "neg"}) /\ content[b] \in Seq(Chunks)
      /\ c \in PipeIds => content[c] \in Seq(Chunks)
      /\ r.pending \in Seq(Chunks)
  BY FineFacts
<1>2. /\ FineMoves(x, s, C, k, m, a, b, c, d) /\ k \in PipeIds /\ m \in PipeIds
      /\ m = b => k = a
      /\ proc'[x] = s /\ \A y \in Procs \ {x} : proc'[y] = proc[y]
      /\ s.open[0] = End(k, "r") /\ s.open[1] = End(m, "w")
      /\ proc[x].pc \notin {"setup_1", "setup_2", "setup_3"} =>
              proc[x].open[0] = End(k, "r") /\ proc[x].open[1] = End(m, "w")
  BY <1>1, FineMove
<1>3. CASE Has(content[b], "pos")
  <2>1. CASE SetupMove(x, s, C)
    BY <1>3, <2>1 DEF SetupMove, HaveB
  <2>2. CASE ArgumentMove(x, s, C, a)
    <3>1. C[b] = content[b]
      BY <1>1, <2>2 DEF ArgumentMove
    <3> QED BY <1>3, <3>1 DEF HaveB
  <2>3. CASE FilterMove(x, s, C, b, c) /\ m = c
    <3>1. content[b] # <<>> /\ Head(content[b]) = content[b][1]
          /\ Head(content[b]) \in {"pos", "neg"}
      BY <1>1, <1>3, HasFacts, SeqParts
    <3>2. CASE Head(content[b]) = "neg"
      <4>1. C[b] = Tail(content[b])
        BY <1>1, <2>3, <3>1, <3>2 DEF FilterMove
      <4>2. Has(Tail(content[b]), "pos")
        BY <1>1, <1>3, <3>1, <3>2, HasFacts
      <4> QED BY <4>1, <4>2 DEF HaveB
    <3>3. CASE Head(content[b]) = "pos"
      <4>1. C = [content EXCEPT ![b] = Tail(@), ![c] = Append(@, Head(content[b]))]
        BY <2>3, <3>1, <3>3, Zenon DEF FilterMove
      <4>2. c \in PipeIds /\ C[c] = Append(content[c], "pos")
        BY <1>1, <1>2, <2>3, <3>3, <4>1
      <4> QED BY <1>1, <4>2, HasFacts
    <3> QED BY <3>1, <3>2, <3>3
  <2>4. CASE CalcMove(x, s, C, c)
    <3>1. C[b] = content[b]
      BY <1>1, <2>4 DEF CalcMove
    <3> QED BY <1>3, <3>1 DEF HaveB
  <2>5. CASE FlushMove(x, s, C, m)
    <3>1. C[b] = content[b] \/ (C[b] = Append(content[b], r.pending[1])
                                  /\ r.pending # <<>>)
      BY <1>1, <1>2, <2>5 DEF FlushMove
    <3>2. r.pending # <<>> => Has(Append(content[b], r.pending[1]), "pos")
      BY <1>1, <1>3, HasFacts, SeqParts
    <3> QED BY <1>3, <3>1, <3>2 DEF HaveB
  <2> QED BY <1>2, <2>1, <2>2, <2>3, <2>4, <2>5 DEF FineMoves
<1>4. CASE \E z \in Procs \ {Main} : /\ proc[z].pc = "exit" /\ Linked(proc[z].open, a, b)
                                     /\ Has(proc[z].pending, "pos")
  <2>1. PICK z \in Procs \ {Main} : /\ proc[z].pc = "exit" /\ Linked(proc[z].open, a, b)
                                    /\ Has(proc[z].pending, "pos")
    BY <1>4
  <2>2. CASE z # x
    <3>1. proc'[z] = proc[z]
      BY <1>2, <2>2
    <3> QED BY <2>1, <3>1 DEF HaveB
  <2>3. CASE z = x
    <3>1. FlushMove(x, s, C, m)
      BY <1>2, <2>1, <2>3 DEF FineMoves, SetupMove, ArgumentMove, FilterMove, CalcMove
    <3>2. m = b /\ k = a
      BY <1>2, <2>1, <2>3, EndInjective DEF Linked
    <3>3. /\ s.pc = "exit" /\ s.pending = Tail(r.pending)
          /\ C[b] = Append(content[b], r.pending[1])
      BY <1>1, <3>1, <3>2 DEF FlushMove, Becomes
    <3>4. CASE r.pending[1] = "pos"
      <4>1. Has(C[b], "pos")
        BY <1>1, <3>3, <3>4, HasFacts
      <4> QED BY <4>1 DEF HaveB
    <3>5. CASE r.pending[1] # "pos"
      <4>1. Has(Tail(r.pending), "pos")
        BY <1>1, <2>1, <2>3, <3>5, HasFacts
      <4>2. Linked(s.open, a, b)
        BY <1>2, <3>2 DEF Linked
      <4> QED BY <1>2, <3>3, <4>1, <4>2 DEF HaveB
    <3> QED BY <3>4, <3>5
  <2> QED BY <2>2, <2>3
<1>5. CASE At(Stage1)
  <2>1. PICK z \in Procs \ {Main} : proc[z].pc \in Stage1
    BY <1>5 DEF At
  <2>2. CASE z # x
    <3>1. proc'[z] = proc[z]
      BY <1>2, <2>2
    <3> QED BY <2>1, <3>1 DEF HaveB, At
  <2>3. CASE z = x /\ proc[z].pc = "setup_1"
    <3>1. s.pc = "read_argument"
      BY <1>2, <2>3 DEF FineMoves, SetupMove, ArgumentMove, FilterMove, CalcMove,
         FlushMove, Becomes
    <3> QED BY <1>2, <3>1 DEF HaveB, At, Stage1
  <2>4. CASE z = x /\ proc[z].pc = "read_argument"
    <3>1. ArgumentMove(x, s, C, a) /\ k = a /\ m = b
      BY <1>2, <2>4 DEF FineMoves, SetupMove, FilterMove, CalcMove, FlushMove
    <3>2. content[a] = <<"arg">>
      BY <3>1, ArgumentRead
    <3>3. s.pc = "exit" /\ s.pending = NUMBERS
      <4>1. <<"arg">> # <<>>
        OBVIOUS
      <4> QED BY <1>1, <3>1, <3>2, <4>1 DEF ArgumentMove, Becomes
    <3>4. Linked(s.open, a, b)
      BY <1>2, <3>1 DEF Linked
    <3> QED BY <1>2, <3>3, <3>4, NumbersHavePos DEF HaveB
  <2> QED BY <2>1, <2>2, <2>3, <2>4 DEF Stage1
<1> QED BY <1>3, <1>4, <1>5 DEF HaveB

(* As long as the number is not there, pipe b does not end; and as long as   *)
(* somebody will filter it, it is read.                                      *)
LEMMA WriterB ==
  ASSUME NEW a, NEW b, NEW c, NEW d, FineState(a, b, c, d), HaveB(a, b),
         content[b] = <<>>
  PROVE  HasWriter(b)
<1>1. TypeInv /\ program = "pipeline" /\ Shape(a, b, c, d) /\ b \in PipeIds
  BY FineFacts
<1>2. CASE At(Stage1)
  BY <1>1, <1>2, StageOpen DEF At
<1>3. CASE \E z \in Procs \ {Main} : proc[z].pc = "exit" /\ Linked(proc[z].open, a, b)
  <2>1. PICK z \in Procs \ {Main} : proc[z].pc = "exit" /\ Linked(proc[z].open, a, b)
    BY <1>3
  <2>2. 0..2 \subseteq DOMAIN proc[z].open
    BY <1>1, <2>1, PipelineFacts DEF Ended
  <2>3. 1 \in DOMAIN proc[z].open /\ proc[z].open[1] = End(b, "w")
    BY <2>1, <2>2 DEF Linked
  <2> QED BY <1>1, <2>3, PipeEnd
<1>4. ~Has(content[b], "pos")
  BY DEF Has
<1> QED BY <1>2, <1>3, <1>4 DEF HaveB

(* Pipe b has a reader as long as filter_pos_nums is there or is still to    *)
(* come.                                                                     *)
LEMMA ReaderB ==
  ASSUME NEW a, NEW b, NEW c, NEW d, FineState(a, b, c, d), Alive2
  PROVE  HasReader(b)
<1>1. /\ TypeInv /\ program = "pipeline" /\ Shape(a, b, c, d) /\ b \in PipeIds
      /\ missing = {} /\ Main \in Procs
  BY FineFacts
<1>2. CASE proc[Main].pc = "fork_2"
  <2>1. 5 \in DOMAIN proc[Main].open /\ proc[Main].open[5] = End(b, "r")
    BY <1>1, <1>2 DEF Shape, MainTable, Pair
  <2> QED BY <1>1, <2>1, PipeEnd
<1>3. CASE At(Stage2)
  BY <1>1, <1>3, StageOpen DEF At
<1> QED BY <1>2, <1>3 DEF Alive2

(* What is in pipe b as long as somebody will filter it.                     *)
LEMMA HoldsB ==
  ASSUME TypeInv', NEW a, NEW b, NEW c, NEW d, Shape(a, b, c, d)', missing' = {},
         NEW C, Holds(C), Alive2'
  PROVE  content'[b] = C[b]
<1>1. CASE proc'[Main].pc = "fork_2"
  BY <1>1, MainHolds
<1>2. CASE At(Stage2)'
  <2>1. PICK z \in Procs \ {Main} : proc'[z].pc \in Stage2
    BY <1>2 DEF At
  <2> QED BY <2>1, StageHolds
<1> QED BY <1>1, <1>2 DEF Alive2

(* The number gets to pipe c.                                                *)
LEMMA HaveCMoves ==
  ASSUME NEW a, NEW b, NEW c, NEW d, FineState(a, b, c, d), NEW x \in Procs \ {Main},
         NEW s, NEW C, NEW k, NEW m, Moves(x, s, C, k, m, a, b, c, d),
         TypeInv', Shape(a, b, c, d)', missing' = {}, proc[x].pc # "calc",
         c \in PipeIds => content'[c] = C[c], HaveC(a, b, c)
  PROVE  HaveC(a, b, c)'
<1> DEFINE r == proc[x]
<1>1. /\ TypeInv /\ program = "pipeline" /\ missing = {} /\ Main \in Procs
      /\ a \in PipeIds /\ b \in PipeIds /\ a # b /\ c \notin {a, b}
      /\ c \in PipeIds \cup {0} /\ 0 \notin PipeIds
      /\ content \in [PipeIds -> Seq(Chunks)] /\ "pos" \in Chunks
      /\ content[b] \in Seq(Chunks)
      /\ c \in PipeIds => content[c] \in Seq(Chunks)
      /\ r.pending \in Seq(Chunks)
  BY FineFacts
<1>2. /\ FineMoves(x, s, C, k, m, a, b, c, d) /\ k \in PipeIds /\ m \in PipeIds
      /\ Holds(C) /\ proc'[x] = s /\ \A y \in Procs \ {x} : proc'[y] = proc[y]
  BY <1>1, FineMove
<1>3. CASE c # 0 /\ Has(content[c], "pos")
  <2>1. c \in PipeIds
    BY <1>1, <1>3
  <2>2. \/ C[c] = content[c]
        \/ \E e \in Chunks : C[c] = Append(content[c], e)
    <3>1. CASE SetupMove(x, s, C)
      BY <3>1 DEF SetupMove
    <3>2. CASE ArgumentMove(x, s, C, a)
      BY <1>1, <2>1, <3>2 DEF ArgumentMove
    <3>3. CASE FilterMove(x, s, C, b, c)
      <4>1. content[b] # <<>> => Head(content[b]) \in Chunks
        BY <1>1, SeqParts
      <4>2. \/ C = content
            \/ C = [content EXCEPT ![b] = Tail(@)]
            \/ /\ content[b] # <<>>
               /\ C = [content EXCEPT ![b] = Tail(@), ![c] = Append(@, Head(content[b]))]
        BY <3>3, Zenon DEF FilterMove
      <4> QED BY <1>1, <2>1, <4>1, <4>2
    <3>4. CASE FlushMove(x, s, C, m)
      <4>1. r.pending # <<>> /\ C = [content EXCEPT ![m] = Append(@, r.pending[1])]
        BY <3>4 DEF FlushMove
      <4>2. r.pending[1] \in Chunks
        BY <1>1, <4>1, SeqParts
      <4> QED BY <1>1, <1>2, <2>1, <4>1, <4>2
    <3>5. ~CalcMove(x, s, C, c)
      BY DEF CalcMove
    <3> QED BY <1>2, <3>1, <3>2, <3>3, <3>4, <3>5 DEF FineMoves
  <2>3. Has(C[c], "pos")
    <3>1. \A e \in Chunks : Has(Append(content[c], e), "pos")
      BY <1>1, <1>3, <2>1, HasFacts
    <3> QED BY <1>3, <2>2, <3>1
  <2> QED BY <1>3, <2>1, <2>3 DEF HaveC
<1>4. CASE Alive2 /\ HaveB(a, b)
  <2>1. Alive2'
    <3>1. CASE proc[Main].pc = "fork_2"
      <4>1. proc'[Main] = proc[Main]
        BY <1>1, <1>2
      <4> QED BY <3>1, <4>1 DEF Alive2
    <3>2. CASE At(Stage2)
      <4>1. PICK z \in Procs \ {Main} : proc[z].pc \in Stage2
        BY <3>2 DEF At
      <4>2. CASE z # x
        <5>1. proc'[z] = proc[z]
          BY <1>2, <4>2
        <5> QED BY <4>1, <5>1 DEF Alive2, At
      <4>3. CASE z = x /\ proc[z].pc = "setup_2"
        <5>1. s.pc = "filter"
          BY <1>1, <1>2, <4>3 DEF FineMoves, SetupMove, ExecMove, ArgumentMove,
             FilterMove, CalcMove, FlushMove, Becomes
        <5> QED BY <1>2, <5>1 DEF Alive2, At, Stage2
      <4>4. CASE z = x /\ proc[z].pc = "filter"
        <5>1. FilterMove(x, s, C, b, c)
          BY <1>2, <4>4 DEF FineMoves, SetupMove, ArgumentMove, CalcMove, FlushMove
        <5>2. s.pc = "filter" \/ (content[b] = <<>> /\ ~HasWriter(b))
          BY <5>1 DEF FilterMove, Becomes
        <5>3. s.pc = "filter"
          BY <1>4, <5>2, WriterB
        <5> QED BY <1>2, <5>3 DEF Alive2, At, Stage2
      <4> QED BY <4>1, <4>2, <4>3, <4>4 DEF Stage2
    <3> QED BY <1>4, <3>1, <3>2 DEF Alive2
  <2>2. content'[b] = C[b]
    BY <1>2, <2>1, HoldsB
  <2>3. HaveB(a, b)' \/ (c \in PipeIds /\ Has(C[c], "pos"))
    BY <1>4, <2>2, HaveBMoves
  <2> QED BY <1>1, <2>1, <2>3 DEF HaveC
<1> QED BY <1>3, <1>4 DEF HaveC

(* The end of a coprocess does not lose the number.                          *)
LEMMA HaveCEnds ==
  ASSUME NEW a, NEW b, NEW c, NEW d, FineState(a, b, c, d), NEW x \in Procs \ {Main},
         NEW k, NEW m, Stands(x, k, m, a, b, c, d), WorkerEnds(x, k, m),
         TypeInv', Shape(a, b, c, d)', missing' = {},
         c \in PipeIds => HasReader(c) /\ content'[c] = content[c], HaveC(a, b, c)
  PROVE  HaveC(a, b, c)'
<1>1. /\ TypeInv /\ program = "pipeline" /\ missing = {} /\ Main \in Procs
      /\ c \in PipeIds \cup {0} /\ 0 \notin PipeIds
  BY FineFacts
<1>2. /\ \A y \in Procs \ {x} : Alike(proc'[y], proc[y])
      /\ Holds(content)
      /\ \/ proc[x].pc = "exit" /\ proc[x].pending = <<>>
         \/ proc[x].pc \in {"exit", "filter"} /\ ~HasReader(m)
  BY DEF WorkerEnds, EndStep
<1>3. /\ Worker(proc[x], missing, a, b, c, d) /\ proc[x].open[0] = End(k, "r")
      /\ proc[x].open[1] = End(m, "w") /\ m \in PipeIds
  BY DEF Stands
<1>4. \A i, j : Linked(proc[x].open, i, j) => j = m
  BY <1>3, EndInjective DEF Linked
<1>5. CASE c # 0 /\ Has(content[c], "pos")
  BY <1>1, <1>5 DEF HaveC
<1>6. CASE Alive2 /\ HaveB(a, b)
  <2>1. Alive2'
    <3>1. CASE proc[Main].pc = "fork_2"
      <4>1. proc'[Main].pc = proc[Main].pc
        BY <1>1, <1>2 DEF Alike
      <4> QED BY <3>1, <4>1 DEF Alive2
    <3>2. CASE At(Stage2)
      <4>1. PICK z \in Procs \ {Main} : proc[z].pc \in Stage2
        BY <3>2 DEF At
      <4>2. z # x
        <5>1. SUFFICES ASSUME z = x PROVE FALSE
          OBVIOUS
        <5>2. proc[x].pc = "filter" /\ ~HasReader(m)
          BY <1>2, <4>1, <5>1 DEF Stage2
        <5>3. Linked(proc[x].open, b, c)
          BY <1>1, <1>3, <5>2 DEF Worker
        <5>4. c = m
          BY <1>4, <5>3
        <5> QED BY <1>3, <5>2, <5>4
      <4>3. proc'[z].pc = proc[z].pc
        BY <1>2, <4>2 DEF Alike
      <4> QED BY <4>1, <4>3 DEF Alive2, At
    <3> QED BY <1>6, <3>1, <3>2 DEF Alive2
  <2>2. content'[b] = content[b]
    BY <1>2, <2>1, HoldsB
  <2>3. HaveB(a, b)'
    <3>1. CASE At(Stage1)
      <4>1. PICK z \in Procs \ {Main} : proc[z].pc \in Stage1
        BY <3>1 DEF At
      <4>2. z # x
        BY <1>2, <4>1 DEF Stage1
      <4>3. proc'[z].pc = proc[z].pc
        BY <1>2, <4>2 DEF Alike
      <4> QED BY <4>1, <4>3 DEF HaveB, At
    <3>2. CASE \E z \in Procs \ {Main} :
                 /\ proc[z].pc = "exit" /\ Linked(proc[z].open, a, b)
                 /\ Has(proc[z].pending, "pos")
      <4>1. PICK z \in Procs \ {Main} :
                 /\ proc[z].pc = "exit" /\ Linked(proc[z].open, a, b)
                 /\ Has(proc[z].pending, "pos")
        BY <3>2
      <4>2. z # x
        <5>1. SUFFICES ASSUME z = x PROVE FALSE
          OBVIOUS
        <5>2. proc[x].pending # <<>>
          BY <4>1, <5>1 DEF Has
        <5>3. ~HasReader(m) /\ b = m
          BY <1>2, <1>4, <4>1, <5>1, <5>2
        <5>4. HasReader(b)
          BY <1>6, ReaderB
        <5> QED BY <5>3, <5>4
      <4>3. Alike(proc'[z], proc[z])
        BY <1>2, <4>2
      <4> QED BY <4>1, <4>3 DEF HaveB, Alike
    <3>3. CASE Has(content[b], "pos")
      BY <2>2, <3>3 DEF HaveB
    <3> QED BY <1>6, <3>1, <3>2, <3>3 DEF HaveB
  <2> QED BY <2>1, <2>3 DEF HaveC
<1> QED BY <1>5, <1>6 DEF HaveC

(* The steps of the coprocesses when all is well.                            *)
LEMMA NumbersWorker ==
  ASSUME NEW a, NEW b, NEW c, NEW d, FineState(a, b, c, d), NEW x \in Procs \ {Main},
         \/ \E s, C, k, m : Moves(x, s, C, k, m, a, b, c, d)
         \/ \E k, m : WorkerEnds(x, k, m)
  PROVE  Flow(Numbers(a, b, c, d), d)'
<1>1. /\ TypeInv /\ program = "pipeline" /\ Shape(a, b, c, d) /\ missing = {}
      /\ 0 \notin PipeIds
  BY FineFacts
<1>2. PICK X : X = Numbers(a, b, c, d)
  OBVIOUS
<1>3. /\ X[a] = {"arg"} /\ X[b] = {"pos", "neg"}
      /\ c \in PipeIds => X[c] = {"pos"}
      /\ d \in PipeIds => X[d] = {"avg", "noise"}
  <2>1. Made(proc[Main].pc, a, b, c, d)
    BY <1>1 DEF Shape
  <2> QED BY <1>1, <1>2, <2>1, SortsFacts DEF Numbers
<1>4. ASSUME NEW s, NEW C, NEW k, NEW m, Moves(x, s, C, k, m, a, b, c, d)
      PROVE  Permits(proc[x].pc, X, k, m)
  <2>1. Link(k, m, a, b, c, d)
    BY <1>4 DEF Moves, Effect
  <2>2. /\ proc[x].pc = "read_argument" => k = a
        /\ proc[x].pc = "filter" => k = b
        /\ proc[x].pc = "calc" => k = c
    BY <1>1, <1>4, PointFacts
  <2>3. /\ proc[x].pc = "read_argument" => X[k] = {"arg"} /\ X[m] = {"pos", "neg"}
        /\ proc[x].pc = "filter" => X[k] = {"pos", "neg"} /\ X[m] = {"pos"}
        /\ proc[x].pc = "calc" => X[k] = {"pos"} /\ X[m] = {"avg", "noise"}
    BY <1>3, <2>1, <2>2 DEF Link
  <2> QED BY <1>1, <2>3 DEF Permits
<1>5. Flow(X, d)
  BY <1>2 DEF FineState
<1>6. Flow(X, d)'
  BY <1>1, <1>4, <1>5, FlowWorker
<1> QED BY <1>2, <1>6

(* What the argument is, if those who will read it are still the same.       *)
LEMMA ArgumentKept ==
  ASSUME NEW a, NEW b, NEW c, NEW d, FineState(a, b, c, d),
         TypeInv', Shape(a, b, c, d)', missing' = {}, Kept(Stage1), NEW C, Holds(C),
         \/ proc'[Main].pc \in Early
         \/ proc[Main].pc \notin Early /\ (At(Stage1)' => C[a] = content[a])
         \/ C[a] = <<"arg">>
  PROVE  Argument(a)'
<1>1. SUFFICES ASSUME NEW x \in Procs \ {Main}, NEW y \in Procs \ {Main},
                      proc'[x].pc \in Stage1
               PROVE  /\ proc'[y].pc \in Stage1 => x = y
                      /\ proc'[Main].pc \in Early \/ content'[a] = <<"arg">>
  BY DEF Argument
<1>2. /\ proc[x].pc \in Stage1
      /\ proc'[y].pc \in Stage1 => proc[y].pc \in Stage1
  BY <1>1 DEF Kept
<1>3. /\ proc[y].pc \in Stage1 => x = y
      /\ proc[Main].pc \in Early \/ content[a] = <<"arg">>
  BY <1>2 DEF FineState, Argument
<1>4. content'[a] = C[a]
  BY <1>1, StageHolds
<1>5. At(Stage1)'
  BY <1>1 DEF At
<1> QED BY <1>2, <1>3, <1>4, <1>5

(* The moves of the coprocesses keep Argument.                               *)
LEMMA ArgumentMoves ==
  ASSUME NEW a, NEW b, NEW c, NEW d, FineState(a, b, c, d), NEW x \in Procs \ {Main},
         NEW s, NEW C, NEW k, NEW m, Moves(x, s, C, k, m, a, b, c, d),
         TypeInv', Shape(a, b, c, d)', missing' = {}
  PROVE  Argument(a)'
<1>1. /\ TypeInv /\ program = "pipeline" /\ missing = {} /\ Main \in Procs
      /\ a \in PipeIds /\ a # b /\ c \notin {a, b}
      /\ content \in [PipeIds -> Seq(Chunks)]
  BY FineFacts
<1>2. /\ FineMoves(x, s, C, k, m, a, b, c, d) /\ m \in PipeIds /\ m # a
      /\ Holds(C) /\ proc'[x] = s /\ \A y \in Procs \ {x} : proc'[y] = proc[y]
  BY <1>1, FineMove
<1>3. Kept(Stage1)
  BY <1>1, WorkerKept
<1>4. proc'[Main].pc = proc[Main].pc
  BY <1>1, <1>2
<1>5. At(Stage1)' => C[a] = content[a]
  <2>1. SUFFICES ASSUME NEW z \in Procs \ {Main}, proc'[z].pc \in Stage1
                 PROVE  C[a] = content[a]
    BY DEF At
  <2>2. ~ArgumentMove(x, s, C, a)
    <3>1. SUFFICES ASSUME ArgumentMove(x, s, C, a) PROVE FALSE
      OBVIOUS
    <3>2. proc[x].pc \in Stage1 /\ s.pc \notin Stage1
      BY <1>1, <3>1 DEF ArgumentMove, Becomes, Stage1
    <3>3. proc[z].pc \in Stage1
      BY <1>3, <2>1 DEF Kept
    <3>4. x = z
      BY <3>2, <3>3 DEF FineState, Argument
    <3> QED BY <1>2, <2>1, <3>2, <3>4
  <2>3. CASE SetupMove(x, s, C)
    BY <2>3 DEF SetupMove
  <2>4. CASE FilterMove(x, s, C, b, c)
    BY <1>1, <2>4 DEF FilterMove
  <2>5. CASE CalcMove(x, s, C, c)
    BY <1>1, <2>5 DEF CalcMove
  <2>6. CASE FlushMove(x, s, C, m)
    BY <1>1, <1>2, <2>6 DEF FlushMove
  <2> QED BY <1>2, <2>2, <2>3, <2>4, <2>5, <2>6 DEF FineMoves
<1> QED BY <1>2, <1>3, <1>4, <1>5, ArgumentKept

(* Nobody else gets to write to pipe d.                                      *)
LEMMA OnlyMoves ==
  ASSUME NEW a, NEW b, NEW c, NEW d, FineState(a, b, c, d), NEW x \in Procs \ {Main},
         NEW s, NEW C, NEW k, NEW m, Moves(x, s, C, k, m, a, b, c, d),
         proc[x].pc \notin Stage3
  PROVE  /\ s.pc \notin Stage3
         /\ s.pc = "exit" /\ Linked(s.open, c, d) =>
              /\ FlushMove(x, s, C, m) /\ proc[x].pc = "exit"
              /\ Linked(proc[x].open, c, d) /\ m = d
         /\ d \in PipeIds /\ ~(FlushMove(x, s, C, m) /\ Linked(proc[x].open, c, d))
              => C[d] = content[d]
<1>1. /\ TypeInv /\ program = "pipeline" /\ missing = {} /\ Main \in Procs
      /\ content \in [PipeIds -> Seq(Chunks)] /\ 0 \notin PipeIds
      /\ a # b /\ c \notin {a, b} /\ d \notin {a, b} /\ (c = d => c = 0)
  BY FineFacts
<1>2. /\ FineMoves(x, s, C, k, m, a, b, c, d) /\ m \in PipeIds
      /\ m = d => k = c \/ d = 0
      /\ proc'[x] = s /\ s.open[0] = End(k, "r") /\ s.open[1] = End(m, "w")
      /\ proc[x].pc \notin {"setup_1", "setup_2", "setup_3"} =>
              proc[x].open[0] = End(k, "r") /\ proc[x].open[1] = End(m, "w")
  BY <1>1, FineMove
<1>3. s.pc \notin Stage3
  <2>1. Kept(Stage3)
    BY <1>1, WorkerKept
  <2> QED BY <1>2, <2>1 DEF Kept
<1>4. ~CalcMove(x, s, C, c)
  BY DEF CalcMove, Stage3
<1>5. Linked(s.open, c, d) => k = c /\ m = d
  BY <1>2, EndInjective DEF Linked
<1>6. s.pc = "exit" /\ Linked(s.open, c, d) => FlushMove(x, s, C, m)
  <2>1. ~(s.pc = "exit" /\ SetupMove(x, s, C))
    BY <1>1 DEF SetupMove, ExecMove, Becomes
  <2> QED BY <1>1, <1>2, <1>4, <1>5, <2>1 DEF FineMoves
<1>7. FlushMove(x, s, C, m) =>
        proc[x].pc = "exit" /\ (Linked(s.open, c, d) <=> Linked(proc[x].open, c, d))
  BY <1>2 DEF FlushMove, Linked
<1>8. ASSUME d \in PipeIds, ~(FlushMove(x, s, C, m) /\ Linked(proc[x].open, c, d))
      PROVE  C[d] = content[d]
  <2>1. CASE SetupMove(x, s, C)
    BY <2>1 DEF SetupMove
  <2>2. CASE FilterMove(x, s, C, b, c)
    BY <1>1, <1>8, <2>2 DEF FilterMove
  <2>3. CASE ArgumentMove(x, s, C, a)
    BY <1>1, <1>8, <2>3 DEF ArgumentMove
  <2>4. CASE FlushMove(x, s, C, m)
    <3>1. m # d
      <4>1. SUFFICES ASSUME m = d PROVE FALSE
        OBVIOUS
      <4>2. k = c
        BY <1>1, <1>2, <1>8, <4>1
      <4>3. Linked(s.open, c, d)
        BY <1>2, <4>1, <4>2 DEF Linked
      <4> QED BY <1>7, <1>8, <2>4, <4>3
    <3> QED BY <1>1, <1>2, <1>8, <2>4, <3>1 DEF FlushMove
  <2> QED BY <1>2, <1>4, <2>1, <2>2, <2>3, <2>4 DEF FineMoves
<1> QED BY <1>3, <1>5, <1>6, <1>7, <1>8

(* The phases go on when a coprocess takes a step.                           *)
LEMMA PhasesMoves ==
  ASSUME NEW a, NEW b, NEW c, NEW d, FineState(a, b, c, d), NEW x \in Procs \ {Main},
         NEW s, NEW C, NEW k, NEW m, Moves(x, s, C, k, m, a, b, c, d),
         TypeInv', Shape(a, b, c, d)', missing' = {}, Phases(a, b, c, d)
  PROVE  Phases(a, b, c, d)'
<1> DEFINE r == proc[x]
<1>1. /\ TypeInv /\ program = "pipeline" /\ missing = {} /\ Main \in Procs
      /\ Shape(a, b, c, d) /\ c \in PipeIds \cup {0} /\ d \in PipeIds \cup {0}
      /\ content \in [PipeIds -> Seq(Chunks)] /\ 0 \notin PipeIds
      /\ c \in PipeIds => content[c] \in Seq({"pos"})
      /\ c \notin {a, b} /\ d \notin {a, b} /\ (c = d => c = 0)
      /\ Made(proc[Main].pc, a, b, c, d)
  <2>1. Shape(a, b, c, d)
    BY FineFacts
  <2>2. Made(proc[Main].pc, a, b, c, d)
    BY <2>1 DEF Shape
  <2> QED BY <2>2, FineFacts
<1>2. /\ FineMoves(x, s, C, k, m, a, b, c, d) /\ k \in PipeIds /\ m \in PipeIds
      /\ Holds(C) /\ proc'[x] = s /\ s.parent = r.parent /\ UNCHANGED screen
      /\ s.open[0] = End(k, "r") /\ s.open[1] = End(m, "w")
      /\ r.pc \notin {"setup_1", "setup_2", "setup_3"} =>
              r.open[0] = End(k, "r") /\ r.open[1] = End(m, "w")
      /\ \A y \in Procs \ {x} : proc'[y] = proc[y]
  BY <1>1, FineMove
<1>3. proc'[Main] = proc[Main] /\ \A n \in PipeIds : content'[n] \in {C[n], <<>>}
  BY <1>1, <1>2 DEF Holds
<1>4. r.pc \notin Stage3 =>
         /\ s.pc \notin Stage3
         /\ s.pc = "exit" /\ Linked(s.open, c, d) =>
              /\ FlushMove(x, s, C, m) /\ r.pc = "exit"
              /\ Linked(r.open, c, d) /\ m = d
         /\ d \in PipeIds /\ ~(FlushMove(x, s, C, m) /\ Linked(r.open, c, d))
              => C[d] = content[d]
  BY OnlyMoves
<1>5. CASE Generating(a, b, c, d)
  <2>1. r.pc \notin Stage3 /\ (r.pc = "exit" => ~Linked(r.open, c, d))
    BY <1>5 DEF Generating, Only
  <2>2. Only({}, c, d)'
    BY <1>2, <1>4, <1>5, <2>1 DEF Generating, Only
  <2>3. c \in PipeIds => content'[c] = C[c]
    <3>1. c \in PipeIds => proc'[Main].pc = "fork_3"
      BY <1>1, <1>3, <1>5 DEF Generating, Made
    <3> QED BY <1>2, <3>1, MainHolds
  <2>4. HaveC(a, b, c)'
    <3>1. r.pc # "calc"
      BY <2>1 DEF Stage3
    <3> QED BY <1>5, <2>3, <3>1, HaveCMoves DEF Generating
  <2>5. Generating(a, b, c, d)'
    BY <1>3, <1>5, <2>2, <2>4 DEF Generating
  <2> QED BY <2>5 DEF Phases
<1>6. ASSUME NEW q \in Procs \ {Main}, Before(q, c, d)
      PROVE  /\ d \in PipeIds /\ c \in PipeIds
             /\ x # q => Before(q, c, d)'
             /\ C[d] = <<>> => content'[d] = <<>>
  <2>1. d \in PipeIds /\ c \in PipeIds
    BY <1>1, <1>6 DEF Before, Made
  <2>2. C[d] = <<>> => content'[d] = <<>>
    BY <1>3, <2>1
  <2>3. ASSUME x # q
        PROVE  Before(q, c, d)'
    <3>1. r.pc \notin Stage3 /\ (r.pc = "exit" => ~Linked(r.open, c, d))
      BY <1>6, <2>3 DEF Before, Only
    <3>2. C[d] = content[d]
      <4>1. ~(FlushMove(x, s, C, m) /\ Linked(r.open, c, d))
        BY <3>1 DEF FlushMove
      <4> QED BY <1>4, <2>1, <3>1, <4>1
    <3>3. content'[d] = <<>>
      BY <1>6, <2>2, <3>2 DEF Before
    <3>4. Only({q}, c, d)'
      BY <1>2, <1>4, <1>6, <3>1 DEF Before, Only
    <3>5. proc'[q] = proc[q]
      BY <1>2, <2>3
    <3> QED BY <1>3, <1>6, <3>3, <3>4, <3>5 DEF Before
  <2> QED BY <2>1, <2>2, <2>3
<1>7. ASSUME NEW q \in Procs \ {Main}, x = q, Before(q, c, d),
             C[d] = <<>>
      PROVE  Before(q, c, d)'
  <2>1. content'[d] = <<>>
    BY <1>6, <1>7
  <2>2. Only({q}, c, d)'
    BY <1>2, <1>7 DEF Before, Only
  <2> QED BY <1>2, <1>3, <1>7, <2>1, <2>2 DEF Before
<1>8. ASSUME NEW q \in Procs \ {Main}, Adding(q, a, b, c, d)
      PROVE  Adding(q, a, b, c, d)' \/ Saying(q, c, d)'
  <2>1. /\ Before(q, c, d) /\ proc[q].pc \in Stage3
        /\ proc[q].pc = "calc" => proc[q].buffer \in {<<>>, <<"pos">>}
        /\ HaveC(a, b, c) \/ (proc[q].pc = "calc" /\ proc[q].buffer = <<"pos">>)
        /\ content[d] = <<>>
    BY <1>8 DEF Adding, Before
  <2>2. d \in PipeIds /\ c \in PipeIds
    BY <1>6, <2>1
  <2>3. CASE x # q
    <3>1. Before(q, c, d)' /\ proc'[q] = proc[q]
      BY <1>2, <1>6, <2>1, <2>3
    <3>2. content'[c] = C[c]
      BY <1>2, <2>1, <2>2, <3>1, StageHolds
    <3>3. r.pc # "calc"
      BY <2>1, <2>3 DEF Before, Only, Stage3
    <3>4. HaveC(a, b, c) => HaveC(a, b, c)'
      BY <3>2, <3>3, HaveCMoves
    <3> QED BY <2>1, <3>1, <3>4 DEF Adding
  <2>4. CASE x = q /\ r.pc = "setup_3"
    <3>1. C = content /\ s.pc = "calc" /\ s.buffer = <<>>
      BY <1>1, <1>2, <2>4 DEF FineMoves, SetupMove, ExecMove, ArgumentMove,
         FilterMove, CalcMove, FlushMove, Becomes
    <3>2. Before(q, c, d)'
      BY <1>7, <2>1, <2>4, <3>1
    <3>3. proc'[q].pc \in Stage3
      BY <1>2, <2>4, <3>1 DEF Stage3
    <3>4. content'[c] = C[c]
      BY <1>2, <2>2, <3>3, StageHolds
    <3>5. HaveC(a, b, c)'
      <4>1. HaveC(a, b, c) /\ r.pc # "calc"
        BY <2>1, <2>4
      <4> QED BY <3>4, <4>1, HaveCMoves
    <3> QED BY <1>2, <2>4, <3>1, <3>2, <3>3, <3>5 DEF Adding
  <2>5. CASE x = q /\ r.pc = "calc"
    <3>1. CalcMove(x, s, C, c) /\ k = c /\ m = d
      BY <1>2, <2>5 DEF FineMoves, SetupMove, ArgumentMove, FilterMove, FlushMove
    <3>2. C[d] = content[d]
      BY <1>1, <2>2, <3>1 DEF CalcMove
    <3>3. Before(q, c, d)'
      BY <1>7, <2>1, <2>5, <3>2
    <3>4. CASE /\ content[c] = <<>> /\ ~HasWriter(c) /\ s.pc = "exit"
               /\ s.pending = <<IF r.buffer = <<"pos">> THEN "avg" ELSE "noise">>
      <4>1. ~HaveC(a, b, c)
        <5>1. ~Has(content[c], "pos")
          BY <3>4 DEF Has
        <5>2. proc[Main].pc # "fork_2"
          BY <2>1 DEF Before
        <5>3. ~At(Stage2)
          BY <1>1, <3>4, StageOpen DEF At
        <5> QED BY <5>1, <5>2, <5>3 DEF HaveC, Alive2
      <4>2. r.buffer = <<"pos">>
        BY <2>1, <2>5, <4>1
      <4>3. s.pending = <<"avg">>
        BY <3>4, <4>2, Zenon
      <4>4. Linked(s.open, c, d)
        BY <1>2, <3>1 DEF Linked
      <4> QED BY <1>2, <2>5, <3>3, <3>4, <4>3, <4>4 DEF Saying
    <3>5. CASE /\ content[c] # <<>> /\ s.pc = "calc"
               /\ s.buffer = IF Head(content[c]) = "pos" /\ r.buffer \in {<<>>, <<"pos">>}
                             THEN <<"pos">> ELSE <<"noise">>
      <4>1. Head(content[c]) = "pos"
        BY <1>1, <2>2, <3>5, SeqParts
      <4>2. s.buffer = <<"pos">>
        BY <2>1, <2>5, <3>5, <4>1
      <4> QED BY <1>2, <2>5, <3>3, <3>5, <4>2 DEF Adding, Stage3
    <3> QED BY <3>1, <3>4, <3>5 DEF CalcMove, Becomes
  <2> QED BY <2>1, <2>3, <2>4, <2>5 DEF Stage3
<1>9. ASSUME NEW q \in Procs \ {Main}, Saying(q, c, d)
      PROVE  Saying(q, c, d)' \/ Said(c, d)'
  <2>1. /\ Before(q, c, d) /\ proc[q].pc = "exit" /\ Linked(proc[q].open, c, d)
        /\ proc[q].pending = <<"avg">> /\ content[d] = <<>>
    BY <1>9 DEF Saying, Before
  <2>2. d \in PipeIds /\ c \in PipeIds
    BY <1>6, <2>1
  <2>3. CASE x # q
    <3>1. Before(q, c, d)' /\ proc'[q] = proc[q]
      BY <1>2, <1>6, <2>1, <2>3
    <3> QED BY <2>1, <3>1 DEF Saying
  <2>4. CASE x = q
    <3>1. FlushMove(x, s, C, m)
      BY <1>2, <2>1, <2>4 DEF FineMoves, SetupMove, ArgumentMove, FilterMove, CalcMove
    <3>2. m = d
      BY <1>2, <2>1, <2>4, EndInjective DEF Linked
    <3>3. C[d] = Append(<<>>, <<"avg">>[1]) /\ s.pending = Tail(<<"avg">>)
          /\ s.pc = "exit"
      BY <1>1, <2>1, <2>2, <2>4, <3>1, <3>2 DEF FlushMove, Becomes
    <3>4. C[d] = <<"avg">> /\ s.pending = <<>>
      BY <3>3
    <3>5. proc'[Main].pc \in {"close", "send", "wait"}
      BY <1>3, <2>1 DEF Before
    <3>6. content'[d] = <<"avg">>
      BY <1>2, <3>4, <3>5, MainHolds
    <3>7. \A y \in Procs \ {Main} :
            /\ proc'[y].pc \notin Stage3
            /\ proc'[y].pc = "exit" /\ Linked(proc'[y].open, c, d)
                 => proc'[y].pending = <<>>
      <4>1. "exit" \notin Stage3
        BY DEF Stage3
      <4> QED BY <1>2, <2>1, <2>4, <3>3, <3>4, <4>1 DEF Before, Only
    <3> QED BY <3>5, <3>6, <3>7 DEF Said
  <2> QED BY <2>3, <2>4
<1>10. CASE Said(c, d)
  <2>1. /\ r.pc \notin Stage3 /\ (r.pc = "exit" /\ Linked(r.open, c, d) => r.pending = <<>>)
        /\ content[d] = <<"avg">> /\ proc[Main].pc \in {"close", "send", "wait", "answer"}
    BY <1>10 DEF Said
  <2>2. d \in PipeIds
    BY <1>1, <2>1 DEF Made
  <2>3. ~(FlushMove(x, s, C, m) /\ Linked(r.open, c, d))
    BY <2>1 DEF FlushMove
  <2>4. C[d] = content[d] /\ s.pc \notin Stage3
        /\ ~(s.pc = "exit" /\ Linked(s.open, c, d))
    BY <1>4, <2>1, <2>2, <2>3
  <2>5. content'[d] = <<"avg">>
    BY <1>2, <1>3, <2>1, <2>4, MainHolds
  <2>6. Said(c, d)'
    BY <1>2, <1>3, <1>10, <2>1, <2>4, <2>5 DEF Said
  <2> QED BY <2>6 DEF Phases
<1>11. CASE Printed
  BY <1>2, <1>3, <1>11 DEF Printed, Phases
<1> QED BY <1>5, <1>8, <1>9, <1>10, <1>11 DEF Phases

(* The end of a coprocess.                                                   *)
LEMMA HappyEnds ==
  ASSUME NEW a, NEW b, NEW c, NEW d, FineState(a, b, c, d), NEW x \in Procs \ {Main},
         NEW k, NEW m, Stands(x, k, m, a, b, c, d), WorkerEnds(x, k, m),
         TypeInv', Shape(a, b, c, d)', missing' = {}, Phases(a, b, c, d)
  PROVE  Argument(a)' /\ Phases(a, b, c, d)'
<1>1. /\ TypeInv /\ program = "pipeline" /\ missing = {} /\ Main \in Procs
      /\ Shape(a, b, c, d) /\ c \in PipeIds \cup {0} /\ d \in PipeIds \cup {0}
      /\ 0 \notin PipeIds
  BY FineFacts
<1>2. Made(proc[Main].pc, a, b, c, d) /\ MainTable(proc[Main], a, b, c, d)
  BY <1>1 DEF Shape
<1>3. /\ proc'[x] = [Free EXCEPT !.pc = "free"]
      /\ \A y \in Procs \ {x} :
           /\ Alike(proc'[y], proc[y])
           /\ proc'[y].parent = IF proc[y].parent = x THEN 0 ELSE proc[y].parent
      /\ Holds(content) /\ UNCHANGED screen
      /\ \/ proc[x].pc = "exit" /\ proc[x].pending = <<>>
         \/ proc[x].pc \in {"exit", "filter"} /\ ~HasReader(m)
  BY DEF WorkerEnds, EndStep
<1>4. proc'[x].pc = "free"
  BY <1>3, FreeFacts DEF Processes
<1>5. /\ proc'[Main].pc = proc[Main].pc /\ proc'[Main].pending = proc[Main].pending
      /\ \A y \in Procs \ {Main} : y # x =>
           /\ proc'[y].pc = proc[y].pc /\ proc'[y].open = proc[y].open
           /\ proc'[y].buffer = proc[y].buffer /\ proc'[y].pending = proc[y].pending
      /\ \A n \in PipeIds : content'[n] \in {content[n], <<>>}
  BY <1>1, <1>3 DEF Alike, Holds
<1>6. Argument(a)'
  <2>1. Kept(Stage1)
    BY <1>4, <1>5 DEF Kept, Stage1
  <2> QED BY <1>3, <1>5, <2>1, ArgumentKept
<1>7. ASSUME NEW Q, Only(Q, c, d)
      PROVE  Only(Q, c, d)'
  BY <1>4, <1>5, <1>7 DEF Only, Stage3
<1>8. CASE Generating(a, b, c, d)
  <2>1. c \in PipeIds => HasReader(c) /\ content'[c] = content[c]
    <3>1. SUFFICES ASSUME c \in PipeIds PROVE HasReader(c) /\ content'[c] = content[c]
      OBVIOUS
    <3>2. proc[Main].pc = "fork_3"
      BY <1>1, <1>2, <1>8, <3>1 DEF Generating, Made
    <3>3. 7 \in DOMAIN proc[Main].open /\ proc[Main].open[7] = End(c, "r")
      BY <1>2, <3>2 DEF MainTable, Pair
    <3>4. HasReader(c)
      BY <1>1, <3>3, PipeEnd
    <3> QED BY <1>3, <1>5, <3>2, <3>4, MainHolds
  <2>2. HaveC(a, b, c)'
    BY <1>8, <2>1, HaveCEnds DEF Generating
  <2>3. Generating(a, b, c, d)'
    BY <1>5, <1>7, <1>8, <2>2 DEF Generating
  <2> QED BY <1>6, <2>3 DEF Phases
<1>9. ASSUME NEW q \in Procs \ {Main}, Before(q, c, d), q # x
      PROVE  Before(q, c, d)' /\ c \in PipeIds /\ d \in PipeIds
  <2>1. c \in PipeIds /\ d \in PipeIds
    BY <1>1, <1>2, <1>9 DEF Before, Made
  <2>2. content'[d] = <<>>
    BY <1>5, <1>9, <2>1 DEF Before
  <2>3. proc'[q].parent = Main
    BY <1>3, <1>9 DEF Before
  <2> QED BY <1>5, <1>7, <1>9, <2>1, <2>2, <2>3 DEF Before
<1>10. ASSUME NEW q \in Procs \ {Main}, Adding(q, a, b, c, d)
       PROVE  Adding(q, a, b, c, d)'
  <2>1. q # x
    BY <1>3, <1>10 DEF Adding, Stage3
  <2>2. Before(q, c, d)' /\ c \in PipeIds /\ proc'[q].pc \in Stage3
    BY <1>5, <1>9, <1>10, <2>1 DEF Adding
  <2>3. HasReader(c)
    BY <1>1, <1>10, StageOpen DEF Adding
  <2>4. content'[c] = content[c]
    BY <1>3, <2>2, StageHolds
  <2>5. HaveC(a, b, c) => HaveC(a, b, c)'
    BY <2>3, <2>4, HaveCEnds
  <2> QED BY <1>5, <1>10, <2>1, <2>2, <2>5 DEF Adding
<1>11. ASSUME NEW q \in Procs \ {Main}, Saying(q, c, d)
       PROVE  Saying(q, c, d)'
  <2>1. q # x
    <3>1. SUFFICES ASSUME q = x PROVE FALSE
      OBVIOUS
    <3>2. proc[x].pending = <<"avg">> /\ Linked(proc[x].open, c, d)
          /\ proc[Main].pc \in {"close", "send", "wait"}
      BY <1>11, <3>1 DEF Saying, Before
    <3>3. ~HasReader(m)
      BY <1>3, <3>2
    <3>4. m = d
      BY <3>2, EndInjective DEF Stands, Linked
    <3>5. 9 \in DOMAIN proc[Main].open /\ proc[Main].open[9] = End(d, "r")
      BY <1>2, <3>2 DEF MainTable, Pair
    <3>6. HasReader(d)
      BY <1>1, <3>5, PipeEnd
    <3> QED BY <3>3, <3>4, <3>6
  <2>2. Before(q, c, d)'
    BY <1>9, <1>11, <2>1 DEF Saying
  <2> QED BY <1>5, <1>11, <2>1, <2>2 DEF Saying
<1>12. CASE Said(c, d)
  <2>1. content'[d] = <<"avg">>
    BY <1>3, <1>5, <1>12, MainHolds DEF Said
  <2>2. Said(c, d)'
    BY <1>4, <1>5, <1>12, <2>1 DEF Said, Stage3
  <2> QED BY <1>6, <2>2 DEF Phases
<1>13. CASE Printed
  BY <1>3, <1>5, <1>6, <1>13 DEF Printed, Phases
<1> QED BY <1>6, <1>8, <1>10, <1>11, <1>12, <1>13 DEF Phases

(* When only Main does something, what is known of the number remains.       *)
LEMMA HaveCSame ==
  ASSUME NEW a, NEW b, NEW c, NEW d, FineState(a, b, c, d),
         TypeInv', Shape(a, b, c, d)', missing' = {}, NEW C, Holds(C),
         C[b] = content[b], C[c] = content[c], content'[c] = C[c],
         \A y \in Procs \ {Main} : proc'[y] = proc[y],
         proc[Main].pc # "fork_2", HaveC(a, b, c)
  PROVE  HaveC(a, b, c)'
<1>1. CASE c # 0 /\ Has(content[c], "pos")
  BY <1>1 DEF HaveC
<1>2. CASE Alive2 /\ HaveB(a, b)
  <2>1. Alive2'
    BY <1>2 DEF Alive2, At
  <2>2. content'[b] = content[b]
    BY <2>1, HoldsB
  <2>3. HaveB(a, b)'
    BY <1>2, <2>2 DEF HaveB, At
  <2> QED BY <2>1, <2>3 DEF HaveC
<1> QED BY <1>1, <1>2 DEF HaveC

(* The steps of Main, but its forks and its end.                             *)
LEMMA HappyMain ==
  ASSUME NEW a, NEW b, NEW c, NEW d, FineState(a, b, c, d),
         NEW s, NEW C, MainMoves(s, C, a, b, c, d),
         TypeInv', Shape(a, b, c, d)', missing' = {}, Phases(a, b, c, d)
  PROVE  Argument(a)' /\ Phases(a, b, c, d)'
<1> DEFINE r == proc[Main]
<1>1. /\ TypeInv /\ program = "pipeline" /\ missing = {} /\ failures = 0
      /\ Shape(a, b, c, d) /\ a \in PipeIds /\ b \in PipeIds /\ 0 \notin PipeIds
      /\ content \in [PipeIds -> Seq(Chunks)]
      /\ a # b /\ c \notin {a, b} /\ d \notin {a, b} /\ (c = d => c = 0)
  BY FineFacts
<1>2. Steps(Main, s, C) /\ MainMove(s, C, a, d)
  BY DEF MainMoves
<1>3. /\ Holds(C) /\ proc'[Main] = s
      /\ \A y \in Procs \ {Main} : proc'[y] = proc[y]
  BY <1>2 DEF Steps, Holds
<1>4. r.pc \in {"close", "send", "wait", "answer", "exit"}
  BY <1>2 DEF MainMove
<1>5. c \in PipeIds /\ d \in PipeIds
  BY <1>1, <1>4 DEF Shape, Made
<1>6. C[b] = content[b] /\ C[c] = content[c] /\ C[d] = content[d]
  BY <1>1, <1>2, <1>5 DEF MainMove
<1>7. content'[d] \in {content[d], <<>>}
  BY <1>3, <1>5, <1>6 DEF Holds
<1>8. Argument(a)'
  <2>1. Kept(Stage1)
    BY <1>3 DEF Kept
  <2>2. CASE r.pc = "close"
    <3>1. proc'[Main].pc \in Early
      BY <1>2, <1>3, <2>2 DEF MainMove, Becomes, Early
    <3> QED BY <1>3, <2>1, <3>1, ArgumentKept
  <2>3. CASE r.pc = "send"
    <3>1. content[a] = <<>>
      BY <1>1, <2>3 DEF FineState, ReaderInv, Early
    <3>2. C[a] = Append(<<>>, "arg")
      BY <1>1, <1>2, <2>3, <3>1 DEF MainMove
    <3>3. C[a] = <<"arg">>
      BY <3>2
    <3> QED BY <1>3, <2>1, <3>3, ArgumentKept
  <2>4. CASE r.pc \in {"wait", "answer", "exit"}
    <3>1. r.pc \notin Early /\ C = content
      BY <1>2, <2>4 DEF MainMove, Early
    <3> QED BY <1>3, <2>1, <3>1, ArgumentKept
  <2> QED BY <1>4, <2>2, <2>3, <2>4
<1>9. ASSUME NEW q \in Procs \ {Main}, Before(q, c, d),
             proc[q].pc \in Stage3 \cup {"exit"}
      PROVE  Before(q, c, d)' /\ proc'[q] = proc[q] /\ r.pc # "fork_2"
  <2>1. r.pc # "wait"
    <3>1. SUFFICES ASSUME r.pc = "wait" PROVE FALSE
      OBVIOUS
    <3>2. Children(Main) = {}
      BY <1>2, <3>1 DEF MainMove
    <3>3. q \in Children(Main)
      BY <1>9 DEF Before, Children, Alive, Stage3
    <3> QED BY <3>2, <3>3
  <2>2. r.pc \in {"close", "send"}
    BY <1>9, <2>1 DEF Before
  <2>3. s.pc \in {"send", "wait"}
    BY <1>2, <2>2 DEF MainMove, Becomes
  <2>4. content'[d] = <<>>
    BY <1>7, <1>9 DEF Before
  <2>5. Only({q}, c, d)'
    BY <1>3, <1>9 DEF Before, Only
  <2> QED BY <1>3, <1>9, <2>2, <2>3, <2>4, <2>5 DEF Before
<1>10. ASSUME NEW q \in Procs \ {Main}, Adding(q, a, b, c, d)
       PROVE  Adding(q, a, b, c, d)'
  <2>1. Before(q, c, d)' /\ proc'[q] = proc[q] /\ r.pc # "fork_2"
    BY <1>9, <1>10 DEF Adding
  <2>2. content'[c] = C[c]
    BY <1>3, <1>5, <1>10, <2>1, StageHolds DEF Adding
  <2>3. HaveC(a, b, c) => HaveC(a, b, c)'
    BY <1>3, <1>6, <2>1, <2>2, HaveCSame
  <2> QED BY <1>10, <2>1, <2>3 DEF Adding
<1>11. ASSUME NEW q \in Procs \ {Main}, Saying(q, c, d)
       PROVE  Saying(q, c, d)'
  <2>1. Before(q, c, d)' /\ proc'[q] = proc[q]
    BY <1>9, <1>11 DEF Saying
  <2> QED BY <1>11, <2>1 DEF Saying
<1>12. CASE Said(c, d)
  <2>1. CASE r.pc \in {"close", "send", "wait"}
    <3>1. s.pc \in {"send", "wait", "answer"}
      BY <1>2, <2>1 DEF MainMove, Becomes
    <3>2. content'[d] = <<"avg">>
      BY <1>3, <1>6, <1>12, <3>1, MainHolds DEF Said
    <3>3. Said(c, d)'
      BY <1>3, <1>12, <3>1, <3>2 DEF Said
    <3> QED BY <1>8, <3>3 DEF Phases
  <2>2. CASE r.pc = "answer"
    <3>1. screen = <<>> /\ r.pending = <<>>
      BY <2>2 DEF FineState, Flow, MainFlow
    <3>2. as_string(content[d]) = <<"avg">>
      <4>1. <<"avg">> \in Seq({"avg"}) /\ "NUL" \notin {"avg"}
        OBVIOUS
      <4>2. as_string(<<"avg">>) = <<"avg">>
        BY <4>1, PlainString
      <4> QED BY <1>12, <4>2 DEF Said
    <3>3. s.pc = "exit" /\ s.pending = <<>> \o <<"avg">> /\ screen' = screen
      BY <1>2, <2>2, <3>1, <3>2 DEF MainMove, Becomes
    <3>4. s.pending = <<"avg">>
      BY <3>3
    <3>5. Printed'
      BY <1>3, <3>1, <3>3, <3>4 DEF Printed
    <3> QED BY <1>8, <3>5 DEF Phases
  <2> QED BY <1>12, <2>1, <2>2 DEF Said
<1>13. CASE Printed
  <2>1. r.pc = "exit"
    BY <1>4, <1>13 DEF Printed
  <2>2. /\ r.pending # <<>> /\ s.pc = "exit" /\ s.pending = Tail(r.pending)
        /\ screen' = Append(screen, r.pending[1])
    BY <1>2, <2>1 DEF MainMove, Becomes
  <2>3. r.pending = <<"avg">> /\ screen = <<>>
    BY <1>13, <2>2 DEF Printed
  <2>4. s.pending = Tail(<<"avg">>) /\ screen' = Append(<<>>, <<"avg">>[1])
    BY <2>2, <2>3
  <2>5. s.pending = <<>> /\ screen' = <<"avg">>
    BY <2>4
  <2>6. Printed'
    BY <1>3, <2>2, <2>5 DEF Printed
  <2> QED BY <1>8, <2>6 DEF Phases
<1>14. ~Generating(a, b, c, d)
  BY <1>4 DEF Generating
<1> QED BY <1>8, <1>10, <1>11, <1>12, <1>13, <1>14 DEF Phases

(* The end of Main: the answer is printed.                                   *)
LEMMA HappyMainEnds ==
  ASSUME NEW a, NEW b, NEW c, NEW d, FineState(a, b, c, d), MainEnds(a),
         TypeInv', Shape(a, b, c, d)', missing' = {}, NotKilled',
         Phases(a, b, c, d)
  PROVE  Argument(a)' /\ Phases(a, b, c, d)'
<1>1. failures = 0 /\ UNCHANGED <<screen, failures>>
  BY FineFacts DEF MainEnds
<1>2. PICK pc \in {"exited", "killed"} :
        /\ EndStep(Main, pc)
        /\ pc = "exited" => proc[Main].pc = "exit" /\ proc[Main].pending = <<>>
  BY DEF MainEnds
<1>3. proc'[Main] = [Free EXCEPT !.pc = pc] /\ Holds(content)
      /\ \A y \in Procs \ {Main} : Alike(proc'[y], proc[y])
  BY <1>2 DEF EndStep
<1>4. proc'[Main].pc = pc /\ proc'[Main].pending = <<>>
  BY <1>3 DEF Free
<1>5. pc = "exited"
  BY <1>1, <1>4 DEF NotKilled
<1>6. proc[Main].pc = "exit" /\ proc[Main].pending = <<>>
  BY <1>2, <1>5
<1>7. Argument(a)'
  <2>1. Kept(Stage1)
    BY <1>3 DEF Kept, Alike
  <2>2. proc[Main].pc \notin Early
    BY <1>6 DEF Early
  <2> QED BY <1>3, <2>1, <2>2, ArgumentKept
<1>8. Printed
  BY <1>6 DEF Phases, Generating, Adding, Saying, Before, Said
<1>9. screen = <<"avg">>
  <2>1. <<"avg">> # <<>>
    OBVIOUS
  <2> QED BY <1>6, <1>8, <2>1 DEF Printed
<1>10. Printed'
  BY <1>1, <1>4, <1>5, <1>9 DEF Printed
<1> QED BY <1>7, <1>10 DEF Phases

(* A process that stands at the end of one of the older pipes does not write *)
(* to the new one.                                                           *)
LEMMA NotLinked ==
  ASSUME TypeInv, program = "pipeline", NEW a, NEW b, NEW c, NEW d,
         Shape(a, b, c, d), NEW x \in Procs \ {Main}, proc[x].pc = "exit",
         NEW k, NEW m, m \notin {b, c, d} \/ m = 0
  PROVE  ~Linked(proc[x].open, k, m)
<1>1. SUFFICES ASSUME Linked(proc[x].open, k, m) PROVE FALSE
  OBVIOUS
<1>2. Worker(proc[x], missing, a, b, c, d)
  BY DEF Shape, Proper, Raw
<1>3. PICK i, j \in PipeIds : Stands(x, i, j, a, b, c, d)
  BY <1>2, LinkFacts
<1>4. m = j
  BY <1>1, <1>3, EndInjective DEF Stands, Linked
<1>5. j \in {b, c, d} /\ 0 \notin PipeIds
  BY <1>3, PipelineFacts DEF Stands, Link
<1> QED BY <1>3, <1>4, <1>5

(* The child q that Main has forked, if it did not fail.                     *)
LEMMA ForkedChild ==
  ASSUME TypeInv, program = "pipeline", NEW a, NEW b, NEW i, NEW j, NEW here,
         NEW childs, MainForks(here, childs, a, b, i, j), failures' = failures
  PROVE  \E q \in Procs \ {Main} :
           /\ proc[q].pc = "free" /\ proc'[q].pc = childs /\ proc'[q].parent = Main
           /\ \A y \in Procs \ {Main, q} : proc'[y] = proc[y]
<1>1. failures \in Nat
  BY DEF TypeInv
<1> QED BY <1>1 DEF MainForks

(* The second fork of Main, that of filter_pos_nums.                         *)
LEMMA HappySecond ==
  ASSUME NEW a, NEW b, FineState(a, b, 0, 0), NEW n \in PipeIds,
         proc[Main].pc = "fork_2", MainForks("fork_3", "setup_2", a, b, n, 0),
         TypeInv', Shape(a, b, n, 0)', UNCHANGED <<program, missing>>, failures' = failures,
         Phases(a, b, 0, 0)
  PROVE  Happy(a, b, n, 0)'
<1>1. /\ TypeInv /\ program = "pipeline" /\ missing = {} /\ 0 \notin PipeIds
      /\ Shape(a, b, 0, 0)
  BY FineFacts
<1>2. PICK q \in Procs \ {Main} :
           /\ proc[q].pc = "free" /\ proc'[q].pc = "setup_2" /\ proc'[q].parent = Main
           /\ \A y \in Procs \ {Main, q} : proc'[y] = proc[y]
  BY <1>1, ForkedChild
<1>3. content' = content /\ proc'[Main].pc = "fork_3"
  BY DEF MainForks
<1>4. Generating(a, b, 0, 0)
  BY DEF Phases, Adding, Saying, Before, Said, Printed
<1>5. Flow(Numbers(a, b, n, 0), 0)'
  <2>1. Extends(0, n, 0, n)
    BY DEF Extends
  <2>2. {"pos", "neg"} \cup {"pos"} \cup {"avg", "noise"} \subseteq Chunks \ {"NUL"}
    BY DEF Chunks
  <2>3. Flow(Sorts(a, b, 0, 0, {"pos", "neg"}, {"pos"}, {"avg", "noise"}), 0)
    BY DEF FineState, Numbers
  <2>4. Flow(Sorts(a, b, n, 0, {"pos", "neg"}, {"pos"}, {"avg", "noise"}), 0)'
    BY <1>1, <2>1, <2>2, <2>3, FlowGrow
  <2> QED BY <2>4 DEF Numbers
<1>6. Argument(a)'
  <2>1. \A x \in Procs \ {Main} : proc'[x].pc \in Stage1 => proc[x].pc \in Stage1
    BY <1>2 DEF Stage1
  <2>2. proc'[Main].pc \in Early
    BY <1>3 DEF Early
  <2> QED BY <2>1, <2>2 DEF FineState, Argument
<1>7. HaveC(a, b, n)'
  <2>1. HaveB(a, b)
    BY <1>4 DEF Generating, HaveC
  <2>2. \A x \in Procs \ {Main} : proc[x].pc # "free" => proc'[x] = proc[x]
    BY <1>2
  <2>3. HaveB(a, b)'
    BY <1>3, <2>1, <2>2 DEF HaveB, At, Stage1
  <2>4. Alive2'
    BY <1>2 DEF Alive2, At, Stage2
  <2> QED BY <2>3, <2>4 DEF HaveC
<1>8. Only({}, n, 0)'
  <2>1. ASSUME NEW x \in Procs \ {Main}
        PROVE  /\ proc'[x].pc \notin Stage3
               /\ proc'[x].pc = "exit" => ~Linked(proc'[x].open, n, 0)
    <3>1. CASE x = q
      BY <1>2, <3>1 DEF Stage3
    <3>2. CASE x # q
      <4>1. proc'[x] = proc[x]
        BY <1>2, <3>2
      <4>2. proc[x].pc \notin Stage3
        BY <1>4 DEF Generating, Only
      <4>3. proc[x].pc = "exit" => ~Linked(proc[x].open, n, 0)
        BY <1>1, NotLinked
      <4> QED BY <4>1, <4>2, <4>3
    <3> QED BY <3>1, <3>2
  <2> QED BY <2>1 DEF Only
<1>9. Generating(a, b, n, 0)'
  BY <1>3, <1>7, <1>8 DEF Generating
<1> QED BY <1>5, <1>6, <1>9 DEF Happy, Phases

(* The third, that of calc_avg.                                              *)
LEMMA HappyThird ==
  ASSUME NEW a, NEW b, NEW c, FineState(a, b, c, 0), NEW n \in PipeIds,
         content[n] = <<>>,
         proc[Main].pc = "fork_3", MainForks("close", "setup_3", a, b, c, n),
         TypeInv', Shape(a, b, c, n)', UNCHANGED <<program, missing>>, failures' = failures,
         Phases(a, b, c, 0)
  PROVE  Happy(a, b, c, n)'
<1>1. /\ TypeInv /\ program = "pipeline" /\ missing = {} /\ 0 \notin PipeIds
      /\ Shape(a, b, c, 0)
  BY FineFacts
<1>2. PICK q \in Procs \ {Main} :
           /\ proc[q].pc = "free" /\ proc'[q].pc = "setup_3" /\ proc'[q].parent = Main
           /\ \A y \in Procs \ {Main, q} : proc'[y] = proc[y]
  BY <1>1, ForkedChild
<1>3. content' = content /\ proc'[Main].pc = "close" /\ Made("close", a, b, c, n)
  BY DEF MainForks
<1>4. Generating(a, b, c, 0)
  BY DEF Phases, Adding, Saying, Before, Said, Printed
<1>5. Flow(Numbers(a, b, c, n), n)'
  <2>1. Extends(c, c, n, n)
    BY DEF Extends
  <2>2. {"pos", "neg"} \cup {"pos"} \cup {"avg", "noise"} \subseteq Chunks \ {"NUL"}
    BY DEF Chunks
  <2>3. Flow(Sorts(a, b, c, 0, {"pos", "neg"}, {"pos"}, {"avg", "noise"}), 0)
    BY DEF FineState, Numbers
  <2>4. Flow(Sorts(a, b, c, n, {"pos", "neg"}, {"pos"}, {"avg", "noise"}), n)'
    BY <1>1, <2>1, <2>2, <2>3, FlowGrow
  <2> QED BY <2>4 DEF Numbers
<1>6. Argument(a)'
  <2>1. \A x \in Procs \ {Main} : proc'[x].pc \in Stage1 => proc[x].pc \in Stage1
    BY <1>2 DEF Stage1
  <2>2. proc'[Main].pc \in Early
    BY <1>3 DEF Early
  <2> QED BY <2>1, <2>2 DEF FineState, Argument
<1>7. HaveC(a, b, c)'
  <2>1. \A x \in Procs \ {Main} : proc[x].pc # "free" => proc'[x] = proc[x]
    BY <1>2
  <2>2. HaveB(a, b) => HaveB(a, b)'
    BY <1>3, <2>1 DEF HaveB, At, Stage1
  <2>3. Alive2 => Alive2'
    BY <2>1 DEF Alive2, At, Stage2
  <2> QED BY <1>3, <1>4, <2>2, <2>3 DEF Generating, HaveC
<1>8. Only({q}, c, n)'
  <2>1. ASSUME NEW x \in Procs \ {Main}, x # q
        PROVE  /\ proc'[x].pc \notin Stage3
               /\ proc'[x].pc = "exit" => ~Linked(proc'[x].open, c, n)
    <3>1. proc'[x] = proc[x]
      BY <1>2, <2>1
    <3>2. proc[x].pc \notin Stage3
      BY <1>4 DEF Generating, Only
    <3>3. n \notin {b, c, 0}
      BY <1>1, <1>3 DEF Made
    <3>4. proc[x].pc = "exit" => ~Linked(proc[x].open, c, n)
      BY <1>1, <3>3, NotLinked
    <3> QED BY <3>1, <3>2, <3>4
  <2> QED BY <2>1 DEF Only
<1>9. Adding(q, a, b, c, n)'
  BY <1>2, <1>3, <1>7, <1>8 DEF Adding, Before, Stage3
<1> QED BY <1>5, <1>6, <1>9 DEF Happy, Phases

(* The first, that of gen_numbers.                                           *)
LEMMA HappyFirst ==
  ASSUME TypeInv, program = "pipeline", Start, NEW a, NEW b,
         MainForks("fork_2", "setup_1", a, b, 0, 0), UNCHANGED missing, failures' = failures
  PROVE  Happy(a, b, 0, 0)'
<1>1. /\ 0 \notin PipeIds /\ Made("fork_2", a, b, 0, 0) /\ proc[Main].pc = "fork_1"
      /\ proc[Main].open[1] = Terminal /\ \A n \in PipeIds : content[n] = <<>>
      /\ proc'[Main].pc = "fork_2"
  BY PipelineFacts DEF MainForks, Start
<1>2. PICK q \in Procs \ {Main} :
           /\ proc[q].pc = "free" /\ proc'[q].pc = "setup_1" /\ proc'[q].parent = Main
           /\ \A y \in Procs \ {Main, q} : proc'[y] = proc[y]
  BY ForkedChild
<1>3. \A y \in Procs \ {Main, q} : proc'[y].pc = "free"
  BY <1>2 DEF Start, Others
<1>4. Flow(Numbers(a, b, 0, 0), 0)'
  <2>1. PICK Y : Y = Numbers(a, b, 0, 0)
    OBVIOUS
  <2>2. {"pos", "neg"} \cup {"pos"} \cup {"avg", "noise"} \subseteq Chunks \ {"NUL"}
    BY DEF Chunks
  <2>3. Y \in Sortings
    BY <1>1, <2>1, <2>2, SortsFacts DEF Numbers
  <2>4. \A n \in PipeIds : content[n] \in Seq(Y[n])
    <3>1. \A S : <<>> \in Seq(S)
      OBVIOUS
    <3> QED BY <1>1, <3>1
  <2>5. ~Flow(Y, 0) \/ \A n \in PipeIds : Y[n] \subseteq Y[n]
    OBVIOUS
  <2>6. Flow(Y, 0)'
    BY <1>1, <2>3, <2>4, <2>5, FlowMainForks
  <2> QED BY <2>1, <2>6
<1>5. Argument(a)'
  BY <1>1, <1>2, <1>3 DEF Argument, Stage1, Early
<1>6. HaveC(a, b, 0)'
  BY <1>1, <1>2 DEF HaveC, Alive2, HaveB, At, Stage1
<1>7. Only({}, 0, 0)'
  BY <1>2, <1>3 DEF Only, Stage3
<1>8. Generating(a, b, 0, 0)'
  BY <1>1, <1>6, <1>7 DEF Generating
<1> QED BY <1>4, <1>5, <1>8 DEF Happy, Phases

-------------------------------------------------------------------------------
(* The invariant of the pipeline.                                            *)

Good(a, b, c, d) ==
  /\ Shape(a, b, c, d) /\ ReaderInv(a) /\ NotKilled /\ Explained(a, b, c, d)
  /\ Fine => Happy(a, b, c, d)
PipelineInv == program = "pipeline" => Start \/ \E a, b, c, d : Good(a, b, c, d)

(* It holds at the beginning.                                                *)
LEMMA InitPipeline == Init => PipelineInv
<1> SUFFICES ASSUME Init, program = "pipeline" PROVE Start
  BY DEF PipelineInv
<1>1. Main \in Procs
  BY SizesAssumption DEF Main, Procs
<1>2. /\ proc[Main] = [Free EXCEPT !.pc = "fork_1", !.open = [f \in 0..2 |-> Terminal]]
      /\ \A x \in Procs \ {Main} : proc[x] = Free
      /\ \A k \in PipeIds : content[k] = <<>>
      /\ screen = <<>> /\ failures = 0
  BY <1>1 DEF Init
<1>3. /\ proc[Main].pc = "fork_1" /\ proc[Main].pending = <<>>
      /\ proc[Main].buffer = <<>>
      /\ proc[Main].open[0] = Terminal /\ proc[Main].open[1] = Terminal
      /\ \A x \in Procs \ {Main} : proc[x].pc = "free"
  BY <1>2 DEF Free
<1> QED BY <1>2, <1>3 DEF Start, Others

(* The first step of the pipeline.                                           *)
LEMMA StartNext ==
  ASSUME TypeInv, program = "pipeline", Start, NEW p \in Procs, Runs(p),
         UNCHANGED missing
  PROVE  \E a, b, c, d : Good(a, b, c, d)'
<1>1. Main \in Procs /\ proc[Main].pc = "fork_1"
      /\ (p # Main => proc[p].pc = "free")
  BY PipelineFacts DEF Start, Others
<1>2. p = Main /\ fork_coprocess(Main)
  BY <1>1 DEF Runs, while, child, read_text, reply, setup, read_argument, send, wait,
     filter_pos_nums, calc_avg, exit_flush, exit, answer, broken_pipe, close_unused,
     fork_coprocess
<1>3. PICK a, b \in PipeIds : MainForks("fork_2", "setup_1", a, b, 0, 0)
  BY <1>2, StartFork
<1>4. /\ proc'[Main].pc = "fork_2" /\ MainTable(proc'[Main], a, b, 0, 0)
      /\ Made("fork_2", a, b, 0, 0) /\ content' = content
      /\ \A y \in Procs \ {Main} : proc'[y] = proc[y] \/ Raw(proc'[y], a, b, 0, 0)
      /\ failures = 0 /\ content[a] = <<>>
  BY <1>3 DEF MainForks, Start
<1>5. Shape(a, b, 0, 0)'
  <2>1. \A y \in Procs \ {Main} : Proper(proc'[y], missing, a, b, 0, 0)
    BY <1>4 DEF Start, Others, Proper
  <2> QED BY <1>4, <2>1 DEF Shape
<1>6. ReaderInv(a)' /\ NotKilled'
  <2>1. failures' = failures => At(Stage1)'
    BY <1>3, CleanStart
  <2> QED BY <1>4, <2>1 DEF ReaderInv, NotKilled
<1>7. Explained(a, b, 0, 0)'
  BY <1>3, ExplainedStart
<1>8. Fine' => Happy(a, b, 0, 0)'
  BY <1>3, <1>4, HappyFirst DEF Fine
<1>9. Good(a, b, 0, 0)'
  BY <1>5, <1>6, <1>7, <1>8 DEF Good
<1> QED BY <1>9

(* The steps of the coprocesses.                                             *)
LEMMA GoodWorker ==
  ASSUME TypeInv, TypeInv', program = "pipeline", UNCHANGED <<program, missing>>,
         NEW a, NEW b, NEW c, NEW d, Good(a, b, c, d),
         NEW x \in Procs \ {Main}, Runs(x)
  PROVE  Good(a, b, c, d)'
<1>1. /\ Shape(a, b, c, d) /\ ReaderInv(a) /\ NotKilled /\ Explained(a, b, c, d)
  BY DEF Good
<1>2. \/ \E s, C, k, m : Moves(x, s, C, k, m, a, b, c, d)
      \/ WorkerForks(x, a, b, c, d)
      \/ \E k, m : Stands(x, k, m, a, b, c, d) /\ WorkerEnds(x, k, m)
  BY <1>1, WorkerStep
<1>3. Shape(a, b, c, d)'
  BY <1>1, <1>2, ShapeWorker
<1>4. ReaderInv(a)' /\ NotKilled'
  BY <1>1, <1>2, ReaderWorker
<1>5. Explained(a, b, c, d)'
  BY <1>1, <1>2, ExplainedStep
<1>6. ASSUME Fine'
      PROVE  Happy(a, b, c, d)'
  <2>1. missing = {} /\ missing' = {} /\ ~WorkerForks(x, a, b, c, d)
    BY <1>6 DEF Fine, WorkerForks
  <2>2. Fine
    BY <1>2, <1>6, <2>1 DEF Fine, Moves, Effect, WorkerEnds
  <2>3. FineState(a, b, c, d) /\ Phases(a, b, c, d)
    BY <1>1, <2>2 DEF Good, Happy, FineState
  <2>4. Flow(Numbers(a, b, c, d), d)'
    BY <1>2, <2>1, <2>3, NumbersWorker
  <2>5. CASE \E s, C, k, m : Moves(x, s, C, k, m, a, b, c, d)
    <3>1. PICK s, C, k, m : Moves(x, s, C, k, m, a, b, c, d)
      BY <2>5
    <3>2. Argument(a)'
      BY <1>3, <2>1, <2>3, <3>1, ArgumentMoves
    <3>3. Phases(a, b, c, d)'
      BY <1>3, <2>1, <2>3, <3>1, PhasesMoves
    <3> QED BY <2>4, <3>2, <3>3 DEF Happy
  <2>6. CASE \E k, m : Stands(x, k, m, a, b, c, d) /\ WorkerEnds(x, k, m)
    <3>1. PICK k, m : Stands(x, k, m, a, b, c, d) /\ WorkerEnds(x, k, m)
      BY <2>6
    <3>2. Argument(a)' /\ Phases(a, b, c, d)'
      BY <1>3, <2>1, <2>3, <3>1, HappyEnds
    <3> QED BY <2>4, <3>2 DEF Happy
  <2> QED BY <1>2, <2>1, <2>5, <2>6
<1> QED BY <1>3, <1>4, <1>5, <1>6 DEF Good

(* The steps of Main that make no pipe.                                      *)
LEMMA GoodMain ==
  ASSUME TypeInv, TypeInv', program = "pipeline", UNCHANGED <<program, missing>>,
         NEW a, NEW b, NEW c, NEW d, Good(a, b, c, d),
         (\E s, C : MainMoves(s, C, a, b, c, d)) \/ MainEnds(a)
  PROVE  Good(a, b, c, d)'
<1>1. /\ Shape(a, b, c, d) /\ ReaderInv(a) /\ NotKilled /\ Explained(a, b, c, d)
  BY DEF Good
<1>2. Shape(a, b, c, d)'
  BY <1>1, ShapeMain
<1>3. ReaderInv(a)' /\ NotKilled'
  BY <1>1, ReaderMain
<1>4. Explained(a, b, c, d)'
  BY <1>1, ExplainedStep
<1>5. ASSUME Fine'
      PROVE  Happy(a, b, c, d)'
  <2>1. missing' = {} /\ Fine
    BY <1>5 DEF Fine, MainMoves, MainEnds
  <2>2. FineState(a, b, c, d) /\ Phases(a, b, c, d)
    BY <1>1, <2>1 DEF Good, Happy, FineState
  <2>3. PICK X : X = Numbers(a, b, c, d)
    OBVIOUS
  <2>4. Flow(X, d) /\ "arg" \in X[a]
    <3>1. Made(proc[Main].pc, a, b, c, d) /\ 0 \notin PipeIds
      BY <1>1, PipelineFacts DEF Shape
    <3>2. X[a] = {"arg"}
      BY <2>3, <3>1, SortsFacts DEF Numbers
    <3> QED BY <2>2, <2>3, <3>2 DEF FineState
  <2>5. CASE \E s, C : MainMoves(s, C, a, b, c, d)
    <3>1. PICK s, C : MainMoves(s, C, a, b, c, d)
      BY <2>5
    <3>2. Flow(X, d)'
      BY <1>1, <2>4, <3>1, FlowMain
    <3>3. Argument(a)' /\ Phases(a, b, c, d)'
      BY <1>2, <2>1, <2>2, <3>1, HappyMain
    <3> QED BY <2>3, <3>2, <3>3 DEF Happy
  <2>6. CASE MainEnds(a)
    <3>1. Flow(X, d)'
      BY <2>4, <2>6, FlowMainEnds
    <3>2. Argument(a)' /\ Phases(a, b, c, d)'
      BY <1>2, <1>3, <2>1, <2>2, <2>6, HappyMainEnds
    <3> QED BY <2>3, <3>1, <3>2 DEF Happy
  <2> QED BY <2>5, <2>6
<1> QED BY <1>2, <1>3, <1>4, <1>5 DEF Good

(* The second and the third fork of Main.                                    *)
LEMMA GoodForks ==
  ASSUME TypeInv, TypeInv', program = "pipeline", UNCHANGED <<program, missing>>,
         NEW a, NEW b, NEW c, Good(a, b, c, 0), NEW n \in PipeIds, content[n] = <<>>
  PROVE  /\ /\ proc[Main].pc = "fork_2" /\ c = 0
            /\ MainForks("fork_3", "setup_2", a, b, n, 0)
            => Good(a, b, n, 0)'
         /\ proc[Main].pc = "fork_3" /\ MainForks("close", "setup_3", a, b, c, n)
            => Good(a, b, c, n)'
<1>1. /\ Shape(a, b, c, 0) /\ ReaderInv(a) /\ NotKilled /\ Explained(a, b, c, 0)
      /\ failures \in Nat
  BY DEF Good, TypeInv
<1>2. ASSUME NEW here, NEW childs, NEW i, NEW j, MainForks(here, childs, a, b, i, j),
             Fine'
      PROVE  /\ missing' = {} /\ Fine /\ failures' = failures
             /\ FineState(a, b, c, 0) /\ Phases(a, b, c, 0)
  <2>1. missing' = {} /\ Fine /\ failures' = failures
    BY <1>1, <1>2 DEF Fine, MainForks
  <2> QED BY <1>1, <2>1 DEF Good, Happy, FineState
<1>3. ASSUME proc[Main].pc = "fork_2", c = 0, MainForks("fork_3", "setup_2", a, b, n, 0)
      PROVE  Good(a, b, n, 0)'
  <2>1. Shape(a, b, n, 0)'
    BY <1>1, <1>3, ShapeMain
  <2>2. ReaderInv(a)' /\ NotKilled'
    BY <1>1, <1>3, ReaderForks
  <2>3. Explained(a, b, n, 0)'
    BY <1>1, <1>3, ExplainedForks
  <2>4. Fine' => Happy(a, b, n, 0)'
    <3>1. SUFFICES ASSUME Fine' PROVE Happy(a, b, n, 0)'
      OBVIOUS
    <3>2. failures' = failures /\ FineState(a, b, 0, 0) /\ Phases(a, b, 0, 0)
      BY <1>2, <1>3, <3>1
    <3> QED BY <1>3, <2>1, <3>2, HappySecond
  <2> QED BY <2>1, <2>2, <2>3, <2>4 DEF Good
<1>4. ASSUME proc[Main].pc = "fork_3", MainForks("close", "setup_3", a, b, c, n)
      PROVE  Good(a, b, c, n)'
  <2>1. Shape(a, b, c, n)'
    BY <1>1, <1>4, ShapeMain
  <2>2. ReaderInv(a)' /\ NotKilled'
    BY <1>1, <1>4, ReaderForks
  <2>3. Explained(a, b, c, n)'
    BY <1>1, <1>4, ExplainedForks
  <2>4. Fine' => Happy(a, b, c, n)'
    <3>1. SUFFICES ASSUME Fine' PROVE Happy(a, b, c, n)'
      OBVIOUS
    <3>2. failures' = failures /\ FineState(a, b, c, 0) /\ Phases(a, b, c, 0)
      BY <1>2, <1>4, <3>1
    <3> QED BY <1>4, <2>1, <3>2, HappyThird
  <2> QED BY <2>1, <2>2, <2>3, <2>4 DEF Good
<1> QED BY <1>3, <1>4

(* Every step keeps the invariant.                                           *)
LEMMA NextPipeline == TypeInv /\ TypeInv' /\ PipelineInv /\ [Next]_vars => PipelineInv'
<1> SUFFICES ASSUME TypeInv, TypeInv', PipelineInv, [Next]_vars, program' = "pipeline"
             PROVE  Start' \/ \E a, b, c, d : Good(a, b, c, d)'
  BY DEF PipelineInv
<1>1. CASE UNCHANGED vars
  <2>1. UNCHANGED <<program, missing, buffered, proc, content, screen, failures>>
    BY <1>1 DEF vars, world
  <2>2. Start => Start'
    BY <2>1 DEF Start, Others
  <2>3. ASSUME NEW a, NEW b, NEW c, NEW d, Good(a, b, c, d)
        PROVE  Good(a, b, c, d)'
    <3>1. Shape(a, b, c, d)' /\ ReaderInv(a)' /\ NotKilled' /\ Fine' = Fine
      BY <2>1, <2>3 DEF Good, Shape, ReaderInv, NotKilled, Fine, At
    <3>2. \A X : Flow(X, d) => Flow(X, d)'
      BY <2>1 DEF Flow, MainFlow
    <3>3. Explained(a, b, c, d)'
      <4>1. /\ Clean1(a, b, c, d) => Clean1(a, b, c, d)'
            /\ Clean2(a, b, c, d) => Clean2(a, b, c, d)'
            /\ Clean3(a, b, c, d) => Clean3(a, b, c, d)'
        BY <2>1, <3>2 DEF Clean1, Clean2, Clean3, Lacks1, Lacks2, Lacks3, At
      <4> QED BY <2>1, <2>3, <4>1 DEF Good, Explained, Fine
    <3>4. Happy(a, b, c, d) => Happy(a, b, c, d)'
      <4>1. Argument(a) => Argument(a)'
        BY <2>1 DEF Argument
      <4>2. HaveC(a, b, c)' = HaveC(a, b, c)
        BY <2>1 DEF HaveC, HaveB, Alive2, At
      <4>3. \A Q : Only(Q, c, d)' = Only(Q, c, d)
        BY <2>1 DEF Only
      <4>4. Generating(a, b, c, d) => Generating(a, b, c, d)'
        BY <2>1, <4>2, <4>3 DEF Generating
      <4>5. \A q \in Procs : /\ Adding(q, a, b, c, d) => Adding(q, a, b, c, d)'
                             /\ Saying(q, c, d) => Saying(q, c, d)'
        BY <2>1, <4>2, <4>3 DEF Adding, Saying, Before
      <4>6. (Said(c, d) => Said(c, d)') /\ (Printed => Printed')
        BY <2>1 DEF Said, Printed
      <4> QED BY <3>2, <4>1, <4>4, <4>5, <4>6 DEF Happy, Phases
    <3> QED BY <2>3, <3>1, <3>3, <3>4 DEF Good
  <2> QED BY <2>1, <2>2, <2>3 DEF PipelineInv
<1>2. CASE Next
  <2>1. program = "pipeline" /\ UNCHANGED <<program, missing>>
    BY <1>2 DEF Next, world
  <2>2. PICK p \in Procs :
          Runs(p) \/ get_text(p) \/ \E sig \in Signals : handler(p, sig)
    BY <1>2 DEF Next
  <2>3. Runs(p)
    <3>1. proc[p].pc \notin EchoPoints
      BY <2>1, PipelineFacts
    <3>2. ~get_text(p)
      BY <3>1, Zenon DEF get_text, EchoPoints
    <3>3. \A sig \in Signals : ~handler(p, sig)
      BY <2>1, Zenon DEF handler
    <3> QED BY <2>2, <3>2, <3>3
  <2>4. CASE Start
    BY <2>1, <2>3, <2>4, StartNext
  <2>5. ASSUME NEW a, NEW b, NEW c, NEW d, Good(a, b, c, d)
        PROVE  \E i, j : Good(a, b, i, j)'
    <3>1. CASE p # Main
      BY <2>1, <2>3, <2>5, <3>1, GoodWorker
    <3>2. CASE p = Main
      <4>1. Shape(a, b, c, d) /\ Runs(Main)
        BY <2>3, <2>5, <3>2 DEF Good
      <4>2. \/ (\E s, C : MainMoves(s, C, a, b, c, d)) \/ MainEnds(a)
            \/ /\ proc[Main].pc = "fork_2" /\ c = 0 /\ d = 0
               /\ \E n \in PipeIds : /\ content[n] = <<>>
                                     /\ MainForks("fork_3", "setup_2", a, b, n, 0)
            \/ /\ proc[Main].pc = "fork_3" /\ d = 0
               /\ \E n \in PipeIds : /\ content[n] = <<>>
                                     /\ MainForks("close", "setup_3", a, b, c, n)
        BY <2>1, <4>1, MainStep
      <4>3. CASE (\E s, C : MainMoves(s, C, a, b, c, d)) \/ MainEnds(a)
        <5>1. Good(a, b, c, d)'
          BY <2>1, <2>5, <4>3, GoodMain
        <5> QED BY <5>1
      <4>4. ASSUME proc[Main].pc = "fork_2", c = 0, d = 0, NEW n \in PipeIds,
                   content[n] = <<>>, MainForks("fork_3", "setup_2", a, b, n, 0)
            PROVE  \E i, j : Good(a, b, i, j)'
        <5>1. Good(a, b, n, 0)'
          BY <2>1, <2>5, <4>4, GoodForks
        <5> QED BY <5>1
      <4>5. ASSUME proc[Main].pc = "fork_3", d = 0, NEW n \in PipeIds,
                   content[n] = <<>>, MainForks("close", "setup_3", a, b, c, n)
            PROVE  \E i, j : Good(a, b, i, j)'
        <5>1. Good(a, b, c, n)'
          BY <2>1, <2>5, <4>5, GoodForks
        <5> QED BY <5>1
      <4> QED BY <4>2, <4>3, <4>4, <4>5
    <3> QED BY <3>1, <3>2
  <2> QED BY <2>1, <2>4, <2>5 DEF PipelineInv
<1> QED BY <1>1, <1>2

(* The invariant of the pipeline holds in every state.                       *)
LEMMA PipelineInvariant == Spec => []PipelineInv
BY InitPipeline, NextPipeline, TypeInvariant, PTL DEF Spec

(* PipelineAnswer: whatever programs are missing and whichever fork() fails, *)
(* the pipeline prints the average, and nothing else, exactly when every     *)
(* program was there and every fork() succeeded; and main is killed for      *)
(* writing its argument to nobody only after a fork() has failed.            *)
THEOREM PipelineAnswerCorrect == Spec => []PipelineAnswer
<1>1. TypeInv /\ PipelineInv => PipelineAnswer
  <2> SUFFICES ASSUME TypeInv, PipelineInv, program = "pipeline"
               PROVE  /\ proc[Main].pc = "exited" =>
                           (screen = <<"avg">> <=> missing = {} /\ failures = 0)
                      /\ proc[Main].pc = "killed" => failures > 0
    BY DEF PipelineAnswer
  <2>1. CASE Start
    BY <2>1 DEF Start
  <2>2. ASSUME NEW a, NEW b, NEW c, NEW d, Good(a, b, c, d)
        PROVE  /\ proc[Main].pc = "exited" => (screen = <<"avg">> <=> Fine)
               /\ proc[Main].pc = "killed" => failures > 0
    <3>1. proc[Main].pc = "exited" /\ ~Fine => screen # <<"avg">>
      BY <2>2, ExplainedScreen DEF Good
    <3>2. proc[Main].pc = "exited" /\ Fine => screen = <<"avg">>
      BY <2>2 DEF Good, Happy, Phases, Generating, Adding, Saying, Before, Said, Printed
    <3>3. proc[Main].pc = "killed" => failures > 0
      BY <2>2 DEF Good, NotKilled, TypeInv
    <3> QED BY <3>1, <3>2, <3>3
  <2> QED BY <2>1, <2>2 DEF PipelineInv, Fine
<1> QED BY <1>1, TypeInvariant, PipelineInvariant, PTL
===============================================================================
