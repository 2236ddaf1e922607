------------------------------ MODULE PrimeRing -------------------------------
(***************************************************************************)
(* src/pa_1/primes.c: main() searches for primes and puts them into a       *)
(* circular buffer; the handlers of SIGINT and SIGQUIT print what the       *)
(* buffer holds and exit.  A handler may start between any two accesses of  *)
(* main(), and the handler of the other signal between any two accesses of  *)
(* the first handler; a handler never returns.                              *)
(*                                                                          *)
(* An int has W bits and a long 2 * W.  The buffer has room for CAPACITY    *)
(* ints, but its end is computed as CAPACITY + SIZE ints (pointer           *)
(* arithmetic), so the slots from CAPACITY on lie in memory that belongs to *)
(* somebody else, for one the buffer of stdout: what is read from them is   *)
(* what was written or what somebody else has written since (FOREIGN).      *)
(***************************************************************************)
EXTENDS Integers, Sequences, FiniteSets

CONSTANTS
  W,            \* bits of an int (32)
  CAPACITY,     \* ints allocated for the buffer (5)
  SIZE,         \* cb->size: sizeof(int)
  REPORTED,     \* primes a report shows (5)
  UNDEFINED,    \* the value of memory that was not written to
  FOREIGN       \* what others write to the memory behind the buffer

ASSUME WidthAssumption == W \in Nat \ {0, 1}
ASSUME RingAssumption ==
  CAPACITY \in Nat \ {0} /\ SIZE \in Nat \ {0} /\ REPORTED \in 1..CAPACITY
ASSUME UndefinedAssumption ==
  UNDEFINED \notin Int /\ FOREIGN \notin Int /\ UNDEFINED # FOREIGN

VARIABLES
  num, i, pc,           \* main() and is_prime: candidate, divisor, point
  buffer, head, tail,   \* the slots; positions to write to and read from
  count,
  caught,               \* the signals caught so far, now ignored
  hpc, shown,           \* the running report: its point, what it printed
  counted,              \* history: count when the first handler started
  found                 \* history: what was copied into the buffer

mainVars == <<num, i, pc, head, found>>
vars == <<mainVars, buffer, tail, count, caught, hpc, shown, counted>>

UINT     == 2^W
LONG_MAX == 2^(2 * W - 1) - 1
Signals  == {"SIGINT", "SIGQUIT"}

(* buffer_end, as an index                                                   *)
SLOTS == CAPACITY + SIZE

(* An unsigned long passed for an unsigned int, or copied by its first SIZE  *)
(* bytes, loses its upper half; the report prints the rest as an int.        *)
truncate(n) == n % UINT
as_int(u) == IF u < 2^(W - 1) THEN u ELSE u - UINT

(* Advance a position by one int, around buffer_end.  Names that end in a    *)
(* capitalized word are faulty variants of what follows, for the mutants.    *)
advance_Past(k) == k + 1

advance_Short(k) == IF k + 1 = SLOTS - 1 THEN 0 ELSE k + 1

advance(k) == IF k + 1 = SLOTS THEN 0 ELSE k + 1

(* cb_init                                                                   *)
cb_init ==
  /\ buffer = [k \in 0..(SLOTS - 1) |-> UNDEFINED]
  /\ head = 0 /\ tail = 0 /\ count = 0

Init ==
  /\ cb_init
  /\ num = 1 /\ i = 0 /\ pc = "for"
  /\ caught = {} /\ hpc = "none" /\ shown = <<>>
  /\ counted = 0 /\ found = <<>>

-------------------------------------------------------------------------------
(* main() runs while no handler does.                                        *)

Main(from) == caught = {} /\ pc = from

next_num == num' = num + 1 /\ pc' = "for"

(* The condition of the for loop in is_prime                                 *)
divisor_left_Strict(n) == i * i < n

divisor_left(n) == i * i <= n

is_prime ==
  LET n == truncate(num) IN
  /\ Main("for") /\ num < LONG_MAX
  /\ \/ (n < 2 \/ (n # 2 /\ n % 2 = 0)) /\ next_num /\ UNCHANGED i
     \/ n = 2 /\ pc' = "push" /\ UNCHANGED <<num, i>>
     \/ n > 2 /\ n % 2 # 0 /\ pc' = "divide" /\ i' = 3 /\ UNCHANGED num
  /\ UNCHANGED <<buffer, head, tail, count, caught, hpc, shown, counted, found>>

divide ==
  LET n == truncate(num) IN
  /\ Main("divide")
  /\ \/ divisor_left(n) /\ n % i = 0 /\ next_num /\ i' = 0
     \/ divisor_left(n) /\ n % i # 0 /\ i' = i + 2 /\ UNCHANGED <<num, pc>>
     \/ ~divisor_left(n) /\ i' = 0 /\ pc' = "push" /\ UNCHANGED num
  /\ UNCHANGED <<buffer, head, tail, count, caught, hpc, shown, counted, found>>

(* cb_push_back: copy, advance, count.  A full buffer is an error code that  *)
(* nobody looks at.                                                          *)
push_copy ==
  /\ Main("push") /\ pc' = "advance"
  /\ buffer' = [buffer EXCEPT ![head] = truncate(num)]
  /\ found' = Append(found, num)
  /\ UNCHANGED <<num, i, head, tail, count, caught, hpc, shown, counted>>

push_advance ==
  /\ Main("advance") /\ pc' = "count"
  /\ head' = advance(head)
  /\ UNCHANGED <<num, i, buffer, tail, count, caught, hpc, shown, counted,
                 found>>

push_count ==
  /\ Main("count") /\ next_num
  /\ count' = count + 1
  /\ UNCHANGED <<i, buffer, head, tail, caught, hpc, shown, counted, found>>

end_of_main ==
  /\ Main("for") /\ num = LONG_MAX /\ pc' = "exited"
  /\ UNCHANGED <<num, i, buffer, head, tail, count, caught, hpc, shown,
                 counted, found>>

-------------------------------------------------------------------------------
(* int_handler and quit_handler: signal(sig, SIG_IGN), report(), exit(0).    *)

handler(sig) ==
  /\ sig \notin caught /\ caught' = caught \cup {sig}
  /\ pc # "exited" /\ hpc # "exited"
  /\ hpc' = "pop" /\ shown' = <<>>
  /\ counted' = IF caught = {} THEN count ELSE counted
  /\ UNCHANGED <<mainVars, buffer, tail, count>>

(* What memcpy may find in a slot                                            *)
Readable(k) ==
  IF k < CAPACITY THEN {buffer[k]} ELSE {buffer[k], FOREIGN}

printed(v) == IF v \in {UNDEFINED, FOREIGN} THEN v ELSE as_int(v)

(* One turn of the loop in report(): cb_pop_front copies and advances, then  *)
(* counts; an empty buffer ends the report.                                  *)
pop_copy ==
  /\ hpc = "pop" /\ Len(shown) < REPORTED /\ count # 0
  /\ \E v \in Readable(tail) : shown' = Append(shown, printed(v))
  /\ hpc' = "advance"
  /\ UNCHANGED <<mainVars, buffer, tail, count, caught, counted>>

pop_advance ==
  /\ hpc = "advance" /\ hpc' = "count"
  /\ tail' = advance(tail)
  /\ UNCHANGED <<mainVars, buffer, count, caught, shown, counted>>

pop_count ==
  /\ hpc = "count" /\ hpc' = "pop"
  /\ count' = count - 1
  /\ UNCHANGED <<mainVars, buffer, tail, caught, shown, counted>>

exit ==
  /\ hpc = "pop" /\ (Len(shown) = REPORTED \/ count = 0)
  /\ hpc' = "exited"
  /\ UNCHANGED <<mainVars, buffer, tail, count, caught, shown, counted>>

report == pop_copy \/ pop_advance \/ pop_count \/ exit

Next ==
  \/ is_prime \/ divide \/ push_copy \/ push_advance \/ push_count
  \/ end_of_main
  \/ report \/ \E sig \in Signals : handler(sig)

Spec == Init /\ [][Next]_vars

-------------------------------------------------------------------------------
(* Properties.                                                               *)

(* The positions stay inside the ring, whose CAPACITY + SIZE slots bound how *)
(* far the search writes past its allocation.                                *)
TypeOK ==
  /\ num \in 1..LONG_MAX /\ i \in 0..UINT
  /\ pc \in {"for", "divide", "push", "advance", "count", "exited"}
  /\ buffer \in [0..(SLOTS - 1) -> 0..(UINT - 1) \cup {UNDEFINED}]
  /\ head \in 0..(SLOTS - 1) /\ tail \in 0..(SLOTS - 1)
  /\ count \in Nat /\ counted \in Nat
  /\ caught \subseteq Signals
  /\ hpc \in {"none", "pop", "advance", "count", "exited"}
  /\ Len(shown) \in 0..REPORTED
  /\ Len(found) \in 0..LONG_MAX

IsPrime(n) == n >= 2 /\ \A d \in 2..(n - 1) : n % d # 0

(* is_prime: between two candidates, the numbers found so far are those      *)
(* whose lower W bits are a prime, in order: exactly the primes as long as   *)
(* the candidates fit an unsigned int, and not beyond.                       *)
FoundExactly ==
  pc = "for" =>
    /\ {found[k] : k \in DOMAIN found} =
         {n \in 1..(num - 1) : IsPrime(truncate(n))}
    /\ \A k \in DOMAIN found : k > 1 => found[k - 1] < found[k]

AsPrinted(n) == as_int(truncate(n))

(* How many numbers a report shows, and where in `found' the number is that  *)
(* was put into slot k - 1 last.                                             *)
Reported == IF counted < REPORTED THEN counted ELSE REPORTED
Occupant(k) == Len(found) - ((Len(found) - k) % SLOTS)

ShownAs(v) == {k \in DOMAIN shown : shown[k] = v}

(* report: a single signal prints, at whatever step of cb_push_back it comes, *)
(* what was put last into the first slots of the ring, one number for each   *)
(* prime counted up to REPORTED.  A second signal starts a report in the     *)
(* middle of the first: if that was between the advance and the count of     *)
(* cb_pop_front one number too many is shown, which was never put into the   *)
(* buffer, and never more than one; and it may come to the SIZE slots behind *)
(* the allocation, so that up to SIZE numbers are what others left there.    *)
ReportShows ==
  /\ Cardinality(caught) = 1 =>
       /\ ShownAs(UNDEFINED) = {} /\ ShownAs(FOREIGN) = {}
       /\ hpc = "exited" =>
            shown = [k \in 1..Reported |-> AsPrinted(found[Occupant(k)])]
  /\ Cardinality(ShownAs(UNDEFINED)) <= 1
  /\ Cardinality(ShownAs(FOREIGN)) <= SIZE

(* report, "Last 5 Found Primes": what a report prints after one signal are  *)
(* the primes counted last.                                                  *)
LastFoundPrimes ==
  hpc = "exited" /\ Cardinality(caught) = 1 =>
    shown = [k \in 1..Reported |-> AsPrinted(found[counted - Reported + k])]
===============================================================================
