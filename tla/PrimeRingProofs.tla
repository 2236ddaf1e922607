--------------------------- MODULE PrimeRingProofs ----------------------------
(***************************************************************************)
(* Proofs about PrimeRing, for ints of any width and rings of any size.     *)
(*                                                                          *)
(* The inductive invariant has one part for each piece of the program.      *)
(*   SearchInv  what is_prime has excluded so far, and that `found' is what *)
(*              the candidates below the present one amount to;             *)
(*   RingInv    which of the numbers found a slot holds: the one of the     *)
(*              last round, and nothing before the first;                   *)
(*   CountInv   head and count against the number of primes found, as far   *)
(*              as cb_push_back has come when a handler starts;             *)
(*   ReportInv  where a report has started in the ring, how far it has come *)
(*              and how many it may still show.                             *)
(***************************************************************************)
EXTENDS PrimeRing, TLAPS, FiniteSetTheorems, SequenceTheorems

-------------------------------------------------------------------------------
(* The inductive invariant.                                                  *)

Pushing == pc \in {"advance", "count"}

(* The candidates decided so far are 1..Decided, the primes counted Counted. *)
Decided == IF Pushing THEN num ELSE num - 1
Counted == IF Pushing THEN Len(found) - 1 ELSE Len(found)

(* What a report may show.                                                   *)
Values == Int \cup {UNDEFINED, FOREIGN}

PTypes ==
  /\ TypeOK
  /\ found \in Seq(1..LONG_MAX)
  /\ shown \in Seq(Values)

(* No divisor below i.                                                       *)
DivideInv ==
  LET n == truncate(num) IN
  /\ n > 2 /\ n % 2 = 1
  /\ i >= 3 /\ i % 2 = 1
  /\ \A d \in 2..(i - 1) : n % d # 0

FoundIs(m) ==
  \A n \in Nat : (\E k \in 1..Len(found) : found[k] = n)
                   <=> n \in 1..m /\ IsPrime(truncate(n))

Ascending == \A k \in 1..Len(found) : k > 1 => found[k - 1] < found[k]

SearchInv ==
  /\ FoundIs(Decided) /\ Ascending
  /\ Len(found) <= Decided
  /\ pc \notin {"for", "exited"} => num < LONG_MAX
  /\ pc = "push" => IsPrime(truncate(num))
  /\ pc = "divide" => DivideInv
  /\ Pushing => Len(found) > 0

RingInv ==
  /\ \A m \in 1..Len(found) : m + SLOTS > Len(found) =>
       buffer[(m - 1) % SLOTS] = truncate(found[m])
  /\ \A k \in 0..(SLOTS - 1) : k < Len(found) => buffer[k] # UNDEFINED
  /\ head = (IF pc = "advance" THEN Len(found) - 1 ELSE Len(found)) % SLOTS

CountInv ==
  /\ caught = {} => /\ hpc = "none" /\ shown = <<>> /\ tail = 0
                    /\ count = Counted
  /\ caught # {} => hpc # "none" /\ counted = Counted

(* A report that started at position b of the ring, with e of {0, 1} more to *)
(* show than there are.  Positions may go once around the ring.              *)
Wrapped(k) == IF k >= SLOTS THEN k - SLOTS ELSE k

Walk(b, e) ==
  LET P == b + Len(shown) IN
  /\ hpc \in {"pop", "exited"} =>
       tail = Wrapped(P) /\ count + P = counted + e
  /\ hpc = "advance" => tail = Wrapped(P - 1) /\ count + P = counted + e + 1
  /\ hpc = "count" => tail = Wrapped(P) /\ count + P = counted + e + 1
  /\ \A k \in 1..Len(shown) : shown[k] = UNDEFINED => b + k - 1 = counted
  /\ \A k \in 1..Len(shown) :
       shown[k] = FOREIGN => b + k - 1 \in CAPACITY..(SLOTS - 1)

OneSignal == caught # {} /\ caught # Signals

ReportInv ==
  /\ hpc \in {"advance", "count"} => count >= 1 /\ Len(shown) >= 1
  /\ hpc = "exited" => Len(shown) = REPORTED \/ count = 0
  /\ OneSignal =>
       Walk(0, 0) /\ \A k \in 1..Len(shown) : shown[k] = as_int(buffer[k - 1])
  /\ caught # {} => \E b \in 0..REPORTED, e \in {0, 1} : Walk(b, e)

Inv == PTypes /\ SearchInv /\ RingInv /\ CountInv /\ ReportInv

-------------------------------------------------------------------------------
(* Division and remainders.                                                  *)

(* a = n * (a \div n) + (a % n), with the remainder in 0..(n - 1).           *)
LEMMA ModDef ==
  ASSUME NEW a \in Nat, NEW n \in Nat, n > 0
  PROVE  /\ a \div n \in Nat
         /\ a % n \in 0..(n - 1)
         /\ a = n * (a \div n) + (a % n)
  OBVIOUS

(* Quotient and remainder are the only such numbers.                         *)
LEMMA ModUnique ==
  ASSUME NEW n \in Nat, NEW q \in Nat, NEW r \in 0..(n - 1)
  PROVE  (n * q + r) % n = r
<1> DEFINE a == n * q + r
<1>1. a \in Nat /\ n > 0
  OBVIOUS
<1> DEFINE Q == a \div n
<1> DEFINE R == a % n
<1>2. Q \in Nat /\ R \in 0..(n - 1) /\ a = n * Q + R
  BY <1>1, ModDef
<1> HIDE DEF Q, R
<1>3. n * (Q - q) = r - R /\ r - R < n /\ r - R > -n
  BY <1>2
<1>4. Q = q
  <2>1. CASE Q > q
    <3>1. n * (Q - q) >= n
      BY <1>2, <2>1
    <3> QED BY <1>2, <1>3, <3>1
  <2>2. CASE Q < q
    <3>1. n * (q - Q) >= n /\ n * (q - Q) = -(n * (Q - q))
      BY <1>2, <2>2
    <3> QED BY <1>2, <1>3, <3>1
  <2> QED BY <1>2, <2>1, <2>2
<1>5. R = r
  BY <1>2, <1>4
<1> QED BY <1>5 DEF R

(* A number below n is its own remainder.                                    *)
LEMMA ModSmall ==
  ASSUME NEW n \in Nat, NEW r \in 0..(n - 1)
  PROVE  r % n = r
<1>1. (n * 0 + r) % n = r
  BY ModUnique
<1> QED BY <1>1

(* The remainder of the next number: advance() around the ring.              *)
LEMMA ModStep ==
  ASSUME NEW a \in Nat, NEW n \in Nat, n > 0
  PROVE  (a + 1) % n = IF (a % n) + 1 = n THEN 0 ELSE (a % n) + 1
<1> DEFINE q == a \div n
<1> DEFINE r == a % n
<1>1. q \in Nat /\ r \in 0..(n - 1) /\ a = n * q + r
  BY ModDef
<1> HIDE DEF q, r
<1>2. CASE r + 1 = n
  <2>1. a + 1 = n * (q + 1) + 0
    BY <1>1, <1>2
  <2>2. (n * (q + 1) + 0) % n = 0
    BY <1>1, ModUnique
  <2> QED BY <1>2, <2>1, <2>2 DEF r
<1>3. CASE r + 1 # n
  <2>1. a + 1 = n * q + (r + 1) /\ r + 1 \in 0..(n - 1)
    BY <1>1, <1>3
  <2>2. (n * q + (r + 1)) % n = r + 1
    BY <1>1, <2>1, ModUnique
  <2> QED BY <1>3, <2>1, <2>2 DEF r
<1> QED BY <1>2, <1>3

(* Less than a round apart, two positions have different slots.              *)
LEMMA ModApart ==
  ASSUME NEW n \in Nat, NEW a \in Nat, NEW b \in Nat, a < b, b < a + n
  PROVE  a % n # b % n
<1> DEFINE p == a \div n
<1> DEFINE q == b \div n
<1>0. n > 0
  OBVIOUS
<1>1. p \in Nat /\ a % n \in Int /\ a = n * p + (a % n)
  BY <1>0, ModDef
<1>2. q \in Nat /\ b % n \in Int /\ b = n * q + (b % n)
  BY <1>0, ModDef
<1> HIDE DEF p, q
<1> SUFFICES ASSUME a % n = b % n
             PROVE  FALSE
  OBVIOUS
<1>3. n * (q - p) = b - a
  BY <1>1, <1>2
<1>4. CASE q <= p
  <2>1. n * (p - q) >= 0 /\ n * (q - p) = -(n * (p - q))
    BY <1>1, <1>2, <1>4
  <2> QED BY <1>1, <1>2, <1>3, <2>1
<1>5. CASE q > p
  <2>1. n * (q - p) >= n
    BY <1>1, <1>2, <1>5
  <2> QED BY <1>3, <2>1
<1> QED BY <1>1, <1>2, <1>4, <1>5

(* What divides.                                                             *)
LEMMA Divides ==
  ASSUME NEW a \in Nat, NEW n \in Nat, n > 0
  PROVE  a % n = 0 <=> \E q \in Nat : a = n * q
<1>1. ASSUME a % n = 0
      PROVE  \E q \in Nat : a = n * q
  <2>1. a \div n \in Nat /\ a = n * (a \div n)
    BY <1>1, ModDef
  <2> QED BY <2>1
<1>2. ASSUME NEW q \in Nat, a = n * q
      PROVE  a % n = 0
  <2>1. (n * q + 0) % n = 0
    BY ModUnique
  <2>2. n * q + 0 = a
    BY <1>2
  <2> QED BY <2>1, <2>2
<1> QED BY <1>1, <1>2

-------------------------------------------------------------------------------
(* Trial division.                                                           *)

(* An odd number has no even divisor.                                        *)
LEMMA OddDivisor ==
  ASSUME NEW n \in Nat, n % 2 = 1, NEW d \in Nat, d > 0, d % 2 = 0
  PROVE  n % d # 0
<1> SUFFICES ASSUME n % d = 0
             PROVE  FALSE
  OBVIOUS
<1>1. PICK q \in Nat : n = d * q
  BY Divides
<1>2. PICK h \in Nat : d = 2 * h
  BY Divides
<1>3. n = 2 * (h * q) /\ h * q \in Nat
  BY <1>1, <1>2
<1>4. n % 2 = 0
  BY <1>3, Divides
<1> QED BY <1>4

(* is_prime stops when i * i > n: a divisor above i would have one below.    *)
LEMMA NoDivisorLeft ==
  ASSUME NEW n \in Nat, n >= 2, NEW j \in Nat, j * j > n,
         \A d \in 2..(j - 1) : n % d # 0
  PROVE  IsPrime(n)
<1> SUFFICES ASSUME NEW d \in 2..(n - 1), n % d = 0
             PROVE  FALSE
  BY DEF IsPrime
<1>1. PICK q \in Nat : n = d * q
  BY Divides
<1>2. d >= j
  <2>1. d < j => d \in 2..(j - 1)
    OBVIOUS
  <2>2. d \notin 2..(j - 1)
    OBVIOUS
  <2> QED BY <2>1, <2>2
<1>3. q >= 2
  <2>1. CASE q = 0
    BY <1>1, <2>1
  <2>2. CASE q = 1
    BY <1>1, <2>2
  <2> QED BY <2>1, <2>2
<1>4. q < j
  <2> SUFFICES ASSUME q >= j
               PROVE  FALSE
    BY <1>1
  <2>1. d * q >= j * q /\ j * q >= j * j
    BY <1>1, <1>2
  <2> QED BY <1>1, <2>1
<1>5. n = q * d
  BY <1>1
<1>6. n % q = 0
  BY <1>1, <1>3, <1>5, Divides
<1> QED BY <1>3, <1>4, <1>6

-------------------------------------------------------------------------------
(* The constants.                                                            *)

(* Powers of two, counted as the subsets of k elements.                      *)
LEMMA PowerOfTwo ==
  ASSUME NEW k \in Nat
  PROVE  2^k \in Nat /\ (k >= 2 => 2^k >= 3)
<1> DEFINE S == 1..k
<1>1. IsFiniteSet(S) /\ Cardinality(S) = k
  BY FS_Interval
<1>2. IsFiniteSet(SUBSET S) /\ Cardinality(SUBSET S) = 2^k
  BY <1>1, FS_SUBSET
<1>3. 2^k \in Nat
  BY <1>2, FS_CardinalityType
<1>4. ASSUME k >= 2
      PROVE  2^k >= 3
  <2> DEFINE A == {{}}
  <2> DEFINE B == A \cup {{1}}
  <2> DEFINE C == B \cup {{2}}
  <2>1. IsFiniteSet(A) /\ Cardinality(A) = 1
    BY FS_Singleton
  <2>2. {1} \notin A /\ {2} \notin B /\ C \subseteq SUBSET S
    BY <1>4
  <2>3. IsFiniteSet(B) /\ Cardinality(B) = 2
    <3>1. IsFiniteSet(B) /\ Cardinality(B) = Cardinality(A) + 1
      BY <2>1, <2>2, FS_AddElement
    <3> QED BY <2>1, <3>1
  <2> HIDE DEF B
  <2>4. IsFiniteSet(C) /\ Cardinality(C) = 3
    <3>1. IsFiniteSet(C) /\ Cardinality(C) = Cardinality(B) + 1
      BY <2>2, <2>3, FS_AddElement
    <3> QED BY <2>3, <3>1
  <2>5. Cardinality(C) <= Cardinality(SUBSET S)
    BY <1>2, <2>2, FS_Subset
  <2> QED BY <1>2, <2>4, <2>5
<1> QED BY <1>3, <1>4

(* The ranges of the machine's types and the ring.                           *)
LEMMA Constants ==
  /\ UINT \in Nat /\ UINT >= 3
  /\ LONG_MAX \in Nat /\ LONG_MAX >= 2
  /\ CAPACITY \in Nat /\ REPORTED \in Nat /\ REPORTED <= CAPACITY
  /\ REPORTED >= 1
  /\ SLOTS \in Nat /\ SLOTS > CAPACITY
  /\ SIZE \in Nat /\ SLOTS = CAPACITY + SIZE
  /\ UNDEFINED \notin Int /\ FOREIGN \notin Int /\ UNDEFINED # FOREIGN
<1>1. W \in Nat /\ W >= 2
  BY WidthAssumption
<1>2. UINT \in Nat /\ UINT >= 3
  BY <1>1, PowerOfTwo DEF UINT
<1>3. 2 * W - 1 \in Nat /\ 2 * W - 1 >= 2
  BY <1>1
<1>4. 2^(2 * W - 1) \in Nat /\ 2^(2 * W - 1) >= 3
  BY <1>3, PowerOfTwo
<1>5. LONG_MAX \in Nat /\ LONG_MAX >= 2
  BY <1>4 DEF LONG_MAX
<1> QED BY <1>2, <1>5, RingAssumption, UndefinedAssumption DEF SLOTS

(* truncate() returns an unsigned int, and as_int() an int.                  *)
LEMMA Conversions ==
  /\ \A n \in Nat : truncate(n) \in 0..(UINT - 1)
  /\ \A u \in 0..(UINT - 1) : as_int(u) \in Int
<1>1. ASSUME NEW n \in Nat
      PROVE  truncate(n) \in 0..(UINT - 1)
  BY Constants, ModDef DEF truncate
<1>2. ASSUME NEW u \in 0..(UINT - 1)
      PROVE  as_int(u) \in Int
  BY Constants DEF as_int
<1> QED BY <1>1, <1>2

(* A report shows a number as an int, and other memory for what it is.       *)
LEMMA Printed ==
  ASSUME NEW v \in 0..(UINT - 1) \cup {UNDEFINED, FOREIGN}
  PROVE  /\ printed(v) \in Values
         /\ printed(v) = UNDEFINED => v = UNDEFINED
         /\ printed(v) = FOREIGN => v = FOREIGN
         /\ v \in 0..(UINT - 1) => printed(v) = as_int(v)
<1>1. CASE v \in 0..(UINT - 1)
  <2>1. as_int(v) \in Int
    BY <1>1, Conversions
  <2>2. v \notin {UNDEFINED, FOREIGN}
    BY <1>1, Constants
  <2>3. printed(v) = as_int(v)
    BY <2>2 DEF printed
  <2> QED BY <2>1, <2>3, Constants DEF Values
<1>2. CASE v \in {UNDEFINED, FOREIGN}
  <2>1. printed(v) = v
    BY <1>2 DEF printed
  <2>2. v \notin 0..(UINT - 1)
    BY <1>2, Constants
  <2> QED BY <1>2, <2>1, <2>2 DEF Values
<1> QED BY <1>1, <1>2

(* The slot of the next position.                                            *)
LEMMA AdvanceSlot ==
  ASSUME NEW a \in Nat
  PROVE  /\ advance(a % SLOTS) = (a + 1) % SLOTS
         /\ a % SLOTS \in 0..(SLOTS - 1)
<1>1. SLOTS \in Nat /\ SLOTS > 0
  BY Constants
<1>2. (a + 1) % SLOTS
        = IF (a % SLOTS) + 1 = SLOTS THEN 0 ELSE (a % SLOTS) + 1
  BY <1>1, ModStep
<1>3. a % SLOTS \in 0..(SLOTS - 1)
  BY <1>1, ModDef
<1> QED BY <1>2, <1>3 DEF advance

(* A position stays in the ring.                                             *)
LEMMA AdvanceType ==
  ASSUME NEW k \in 0..(SLOTS - 1)
  PROVE  advance(k) \in 0..(SLOTS - 1) /\ advance(k) = Wrapped(k + 1)
  BY Constants DEF advance, Wrapped

-------------------------------------------------------------------------------
(* Every step preserves the types.                                           *)

(* A divisor that is left is below the candidate.                            *)
LEMMA DivisorBound ==
  ASSUME PTypes, DivideInv, divisor_left(truncate(num))
  PROVE  i \in Nat /\ i + 2 <= truncate(num) /\ i + 2 <= UINT
<1>1. i \in Nat /\ i >= 3 /\ num \in Nat /\ UINT \in Nat
  BY Constants DEF PTypes, TypeOK, DivideInv
<1>2. truncate(num) \in 0..(UINT - 1)
  BY <1>1, Conversions
<1>3. i * i >= 3 * i
  BY <1>1
<1>4. i * i <= truncate(num)
  BY DEF divisor_left
<1> HIDE DEF truncate
<1> QED BY <1>1, <1>2, <1>3, <1>4

(* No step leaves the types: positions, counts and numbers keep their ranges. *)
LEMMA TypesStep == Inv /\ [Next]_vars => PTypes'
<1> SUFFICES ASSUME Inv, [Next]_vars
             PROVE  PTypes'
  OBVIOUS
<1> USE DEF Inv
<1>0. /\ num \in 1..LONG_MAX /\ i \in 0..UINT
      /\ head \in 0..(SLOTS - 1) /\ tail \in 0..(SLOTS - 1)
      /\ count \in Nat /\ counted \in Nat
      /\ found \in Seq(1..LONG_MAX) /\ shown \in Seq(Values)
      /\ Len(found) <= Decided /\ Len(found) \in Nat
      /\ pc \in {"for", "divide", "push", "advance", "count", "exited"}
      /\ pc \notin {"for", "exited"} => num < LONG_MAX
      /\ UINT \in Nat /\ UINT >= 3 /\ LONG_MAX \in Nat
  BY Constants DEF PTypes, TypeOK, SearchInv
<1>1. CASE is_prime
  BY <1>0, <1>1 DEF is_prime, next_num, Main, PTypes, TypeOK
<1>2. CASE divide
  <2>1. pc = "divide" /\ DivideInv
    BY <1>2 DEF divide, Main, SearchInv
  <2>2. divisor_left(truncate(num)) => i + 2 \in 0..UINT
    BY <1>0, <2>1, DivisorBound
  <2>3. i' \in 0..UINT
    BY <1>0, <1>2, <2>2 DEF divide
  <2>4. num' \in 1..LONG_MAX /\ pc' \in {"for", "divide", "push"}
    BY <1>0, <1>2, <2>1 DEF divide, next_num
  <2> QED BY <1>0, <1>2, <2>3, <2>4 DEF divide, PTypes, TypeOK
<1>3. CASE push_copy
  <2>1. found' \in Seq(1..LONG_MAX) /\ Len(found') = Len(found) + 1
    BY <1>0, <1>3 DEF push_copy
  <2>2. Len(found') \in 0..LONG_MAX
    BY <1>0, <1>3, <2>1 DEF push_copy, Main, Decided, Pushing
  <2>3. truncate(num) \in 0..(UINT - 1)
    <3>1. num \in Nat
      BY <1>0
    <3> QED BY <3>1, Conversions
  <2>4. buffer' \in [0..(SLOTS - 1) -> 0..(UINT - 1) \cup {UNDEFINED}]
    BY <1>3, <2>3 DEF push_copy, PTypes, TypeOK
  <2> QED BY <1>3, <2>1, <2>2, <2>4 DEF push_copy, PTypes, TypeOK
<1>4. CASE push_advance
  BY <1>4, AdvanceType DEF push_advance, PTypes, TypeOK
<1>5. CASE push_count
  BY <1>0, <1>5 DEF push_count, next_num, Main, PTypes, TypeOK
<1>6. CASE end_of_main
  BY <1>6 DEF end_of_main, PTypes, TypeOK
<1>7. CASE pop_copy
  <2>1. tail \in 0..(SLOTS - 1)
        /\ buffer[tail] \in 0..(UINT - 1) \cup {UNDEFINED}
    BY DEF PTypes, TypeOK
  <2>2. PICK v \in Readable(tail) : shown' = Append(shown, printed(v))
    BY <1>7 DEF pop_copy
  <2>3. v \in 0..(UINT - 1) \cup {UNDEFINED, FOREIGN}
    BY <2>1, <2>2 DEF Readable
  <2>4. printed(v) \in Values
    BY <2>3, Printed
  <2>5. shown' \in Seq(Values) /\ Len(shown') = Len(shown) + 1
    BY <1>0, <2>2, <2>4
  <2>6. Len(shown') \in 0..REPORTED
    BY <1>0, <1>7, <2>5, Constants DEF pop_copy, PTypes, TypeOK
  <2> QED BY <1>7, <2>5, <2>6 DEF pop_copy, mainVars, PTypes, TypeOK
<1>8. CASE pop_advance
  BY <1>8, AdvanceType DEF pop_advance, mainVars, PTypes, TypeOK
<1>9. CASE pop_count
  <2>1. count' \in Nat
    BY <1>0, <1>9 DEF pop_count, ReportInv
  <2> QED BY <1>9, <2>1 DEF pop_count, mainVars, PTypes, TypeOK
<1>10. CASE exit
  BY <1>10 DEF exit, mainVars, PTypes, TypeOK
<1>11. CASE \E sig \in Signals : handler(sig)
  <2>1. shown' = <<>> /\ counted' \in Nat
    BY <1>0, <1>11 DEF handler
  <2>2. shown' \in Seq(Values) /\ Len(shown') \in 0..REPORTED
    BY <2>1, Constants
  <2> QED BY <1>11, <2>1, <2>2 DEF handler, mainVars, PTypes, TypeOK
<1>12. CASE UNCHANGED vars
  BY <1>12 DEF vars, mainVars, PTypes, TypeOK
<1> QED
  BY <1>1, <1>2, <1>3, <1>4, <1>5, <1>6, <1>7, <1>8, <1>9, <1>10, <1>11,
     <1>12 DEF Next, report

-------------------------------------------------------------------------------
(* Every step preserves what is known about the search.                      *)

(* A candidate that is no prime adds nothing.                                *)
LEMMA SkipCandidate ==
  ASSUME num \in Nat, num >= 1, FoundIs(num - 1), ~IsPrime(truncate(num))
  PROVE  FoundIs(num)
<1> SUFFICES ASSUME NEW n \in Nat
             PROVE  n \in 1..num /\ IsPrime(truncate(n))
                      <=> n \in 1..(num - 1) /\ IsPrime(truncate(n))
  BY DEF FoundIs
<1>1. n \in 1..num <=> n \in 1..(num - 1) \/ n = num
  OBVIOUS
<1> QED BY <1>1

(* The candidates that is_prime refuses at once, or after a divisor.         *)
LEMMA NotPrime ==
  ASSUME NEW n \in Nat
  PROVE  /\ n < 2 => ~IsPrime(n)
         /\ \A d \in 2..(n - 1) : n % d = 0 => ~IsPrime(n)
<1>1. n < 2 => ~(n >= 2)
  OBVIOUS
<1>2. IsPrime(n) => n >= 2 /\ \A d \in 2..(n - 1) : n % d # 0
  BY DEF IsPrime
<1> QED BY <1>1, <1>2

(* Two is a prime.                                                           *)
LEMMA TwoIsPrime == IsPrime(2)
  BY DEF IsPrime

(* The remainder of an odd number and two.                                   *)
LEMMA OddRemainder ==
  ASSUME NEW n \in Nat
  PROVE  n % 2 = 0 \/ n % 2 = 1
<1>1. n % 2 \in 0..1
  BY ModDef
<1> QED BY <1>1

(* is_prime goes on to the next odd divisor.                                 *)
LEMMA NextDivisor ==
  ASSUME NEW n \in Nat, n % 2 = 1, NEW j \in Nat, j >= 3, j % 2 = 1,
         \A d \in 2..(j - 1) : n % d # 0, n % j # 0
  PROVE  (j + 2) % 2 = 1 /\ \A d \in 2..(j + 1) : n % d # 0
<1>1. (j + 1) % 2 = 0
  <2>1. (j + 1) % 2 = IF (j % 2) + 1 = 2 THEN 0 ELSE (j % 2) + 1
    BY ModStep
  <2> QED BY <2>1
<1>2. (j + 2) % 2 = 1
  <2>1. j + 1 \in Nat /\ (j + 1) + 1 = j + 2
    OBVIOUS
  <2>2. ((j + 1) + 1) % 2
          = IF ((j + 1) % 2) + 1 = 2 THEN 0 ELSE ((j + 1) % 2) + 1
    BY <2>1, ModStep
  <2> QED BY <1>1, <2>1, <2>2
<1>3. n % (j + 1) # 0
  BY <1>1, OddDivisor
<1>4. ASSUME NEW d \in 2..(j + 1)
      PROVE  n % d # 0
  <2>1. d \in 2..(j - 1) \/ d = j \/ d = j + 1
    OBVIOUS
  <2> QED BY <1>3, <2>1
<1> QED BY <1>2, <1>4

(* No step of is_prime or cb_push_back forgets what has been excluded.       *)
LEMMA SearchStep == Inv /\ [Next]_vars => SearchInv'
<1> SUFFICES ASSUME Inv, [Next]_vars
             PROVE  SearchInv'
  OBVIOUS
<1> USE DEF Inv
<1>0. /\ num \in Nat /\ num >= 1 /\ i \in Nat /\ LONG_MAX \in Nat
      /\ found \in Seq(1..LONG_MAX) /\ Len(found) \in Nat
      /\ truncate(num) \in Nat
  <2>1. num \in Nat /\ num >= 1 /\ i \in Nat
    BY Constants DEF PTypes, TypeOK
  <2>2. truncate(num) \in 0..(UINT - 1)
    BY <2>1, Conversions
  <2> QED BY <2>1, <2>2, Constants DEF PTypes
(* A candidate that is no prime leads to the next one.                       *)
<1>A. ASSUME next_num, pc \in {"for", "divide"}, found' = found,
             ~IsPrime(truncate(num))
      PROVE  SearchInv'
  <2>1. Decided = num - 1 /\ Decided' = num
    BY <1>0, <1>A DEF next_num, Decided, Pushing
  <2>2. FoundIs(num)
    BY <1>0, <1>A, <2>1, SkipCandidate DEF SearchInv
  <2>3. FoundIs(Decided)'
    BY <1>A, <2>1, <2>2 DEF FoundIs
  <2>4. Len(found') <= Decided' /\ Ascending'
    BY <1>0, <1>A, <2>1 DEF SearchInv, Ascending
  <2> QED BY <1>A, <2>3, <2>4 DEF SearchInv, next_num, Pushing
(* Nothing is decided.                                                       *)
<1>B. ASSUME Decided' = Decided, found' = found
      PROVE  /\ FoundIs(Decided)' /\ Ascending' /\ Len(found') <= Decided'
  BY <1>B DEF SearchInv, FoundIs, Ascending
<1>1. CASE is_prime
  <2> DEFINE n == truncate(num)
  <2>0. pc = "for" /\ num < LONG_MAX /\ found' = found /\ n \in Nat
    BY <1>0, <1>1 DEF is_prime, Main
  <2> HIDE DEF n
  <2>1. CASE (n < 2 \/ (n # 2 /\ n % 2 = 0)) /\ next_num
    <3>1. ~IsPrime(n)
      <4>1. n >= 2 /\ n # 2 => 2 \in 2..(n - 1)
        BY <2>0
      <4> QED BY <2>0, <2>1, <4>1, NotPrime
    <3> QED BY <2>0, <2>1, <3>1, <1>A DEF n
  <2>2. CASE n = 2 /\ pc' = "push" /\ UNCHANGED <<num, i>>
    <3>1. Decided' = Decided
      BY <2>0, <2>2 DEF Decided, Pushing
    <3>2. IsPrime(truncate(num))'
      BY <2>2, TwoIsPrime DEF n, truncate
    <3> QED BY <2>0, <2>2, <3>1, <3>2, <1>B DEF SearchInv, Pushing
  <2>3. CASE n > 2 /\ n % 2 # 0 /\ pc' = "divide" /\ i' = 3 /\ UNCHANGED num
    <3>1. Decided' = Decided
      BY <2>0, <2>3 DEF Decided, Pushing
    <3>2. n % 2 = 1 /\ 3 % 2 = 1
      <4>1. 2 % 2 = IF (1 % 2) + 1 = 2 THEN 0 ELSE (1 % 2) + 1
        BY ModStep
      <4>2. 1 % 2 = 1
        BY ModSmall
      <4>3. 3 % 2 = IF (2 % 2) + 1 = 2 THEN 0 ELSE (2 % 2) + 1
        BY ModStep
      <4> QED BY <2>0, <2>3, <4>1, <4>2, <4>3, OddRemainder
    <3>3. \A d \in 2..(3 - 1) : n % d # 0
      BY <2>3
    <3>4. DivideInv'
      <4>1. n' = n
        BY <2>3 DEF n, truncate
      <4> QED BY <2>3, <3>2, <3>3, <4>1 DEF DivideInv, n
    <3> QED BY <2>0, <2>3, <3>1, <3>4, <1>B DEF SearchInv, Pushing
  <2> QED BY <1>1, <2>1, <2>2, <2>3 DEF is_prime, n
<1>2. CASE divide
  <2> DEFINE n == truncate(num)
  <2>0. /\ pc = "divide" /\ DivideInv /\ found' = found /\ n \in Nat
        /\ num < LONG_MAX
    BY <1>0, <1>2 DEF divide, Main, SearchInv
  <2>i. /\ n > 2 /\ n % 2 = 1 /\ i >= 3 /\ i % 2 = 1
        /\ \A d \in 2..(i - 1) : n % d # 0
    BY <2>0 DEF DivideInv
  <2>1. CASE divisor_left(n) /\ n % i = 0 /\ next_num
    <3>1. i \in 2..(n - 1)
      <4>1. i + 2 <= n
        BY <2>0, <2>1, DivisorBound
      <4> HIDE DEF n
      <4> QED BY <1>0, <2>0, <2>i, <4>1
    <3>2. ~IsPrime(n)
      BY <2>0, <2>1, <3>1, NotPrime
    <3> QED BY <2>0, <2>1, <3>2, <1>A
  <2>2. CASE divisor_left(n) /\ n % i # 0 /\ i' = i + 2 /\ UNCHANGED <<num, pc>>
    <3>1. Decided' = Decided
      BY <2>2 DEF Decided, Pushing
    <3>2. (i + 2) % 2 = 1 /\ \A d \in 2..(i + 1) : n % d # 0
      <4> HIDE DEF n
      <4> QED BY <1>0, <2>0, <2>i, <2>2, NextDivisor
    <3>3. DivideInv'
      <4>1. n' = n
        BY <2>2 DEF truncate
      <4>2. i' >= 3 /\ i' - 1 = i + 1
        BY <1>0, <2>i, <2>2
      <4> QED BY <2>i, <2>2, <3>2, <4>1, <4>2 DEF DivideInv
    <3> QED BY <2>0, <2>2, <3>1, <3>3, <1>B DEF SearchInv, Pushing
  <2>3. CASE ~divisor_left(n) /\ pc' = "push" /\ UNCHANGED num
    <3>1. Decided' = Decided
      BY <2>0, <2>3 DEF Decided, Pushing
    <3>2. i * i > n
      <4>1. i * i \in Int /\ ~(i * i <= n)
        BY <1>0, <2>3 DEF divisor_left
      <4> HIDE DEF n
      <4> QED BY <2>0, <4>1
    <3>3. IsPrime(n)
      <4>1. n >= 2
        BY <2>0, <2>i
      <4> HIDE DEF n
      <4> QED BY <1>0, <2>0, <2>i, <3>2, <4>1, NoDivisorLeft
    <3>4. IsPrime(truncate(num))'
      BY <2>3, <3>3 DEF truncate
    <3> QED BY <2>0, <2>3, <3>1, <3>4, <1>B DEF SearchInv, Pushing
  <2> QED BY <1>2, <2>1, <2>2, <2>3 DEF divide
<1>3. CASE push_copy
  <2>0. /\ pc = "push" /\ pc' = "advance" /\ num' = num
        /\ found' = Append(found, num) /\ IsPrime(truncate(num))
        /\ num < LONG_MAX
    BY <1>3 DEF push_copy, Main, SearchInv
  <2>1. Decided = num - 1 /\ Decided' = num /\ Pushing'
    BY <2>0 DEF Decided, Pushing
  <2>2. /\ Len(found') = Len(found) + 1
        /\ \A k \in 1..Len(found) : found'[k] = found[k]
        /\ found'[Len(found) + 1] = num
    BY <1>0, <2>0
  <2>3. \A k \in 1..Len(found) : found[k] \in Nat /\ found[k] < num
    <3> SUFFICES ASSUME NEW k \in 1..Len(found)
                 PROVE  found[k] \in Nat /\ found[k] < num
      OBVIOUS
    <3>1. found[k] \in Nat
      BY <1>0
    <3>2. found[k] \in 1..(num - 1)
      BY <2>1, <3>1 DEF SearchInv, FoundIs
    <3> QED BY <1>0, <3>1, <3>2
  <2>4. FoundIs(Decided)'
    <3> SUFFICES ASSUME NEW n \in Nat
                 PROVE  (\E k \in 1..Len(found') : found'[k] = n)
                          <=> n \in 1..num /\ IsPrime(truncate(n))
      BY <2>1 DEF FoundIs, IsPrime, truncate
    <3>1. (\E k \in 1..Len(found') : found'[k] = n)
            <=> (\E k \in 1..Len(found) : found[k] = n) \/ n = num
      <4>1. \A k : k \in 1..Len(found')
                     <=> k \in 1..Len(found) \/ k = Len(found) + 1
        BY <1>0, <2>2
      <4> QED BY <2>2, <4>1
    <3>2. n \in 1..num <=> n \in 1..(num - 1) \/ n = num
      BY <1>0
    <3>3. (\E k \in 1..Len(found) : found[k] = n)
            <=> n \in 1..(num - 1) /\ IsPrime(truncate(n))
      BY <2>1 DEF SearchInv, FoundIs
    <3> QED BY <2>0, <3>1, <3>2, <3>3
  <2>5. Ascending'
    <3> SUFFICES ASSUME NEW k \in 1..Len(found'), k > 1
                 PROVE  found'[k - 1] < found'[k]
      BY DEF Ascending
    <3>1. CASE k \in 1..Len(found)
      <4>1. k - 1 \in 1..Len(found)
        BY <1>0, <3>1
      <4> QED BY <2>2, <3>1, <4>1 DEF SearchInv, Ascending
    <3>2. CASE k = Len(found) + 1
      <4>1. k - 1 \in 1..Len(found)
        BY <1>0, <3>2
      <4> QED BY <2>2, <2>3, <3>2, <4>1
    <3> QED BY <1>0, <2>2, <3>1, <3>2
  <2>6. Len(found') <= Decided' /\ Len(found') > 0
    BY <1>0, <2>1, <2>2 DEF SearchInv
  <2> QED BY <2>0, <2>4, <2>5, <2>6 DEF SearchInv
<1>4. CASE push_advance
  <2>1. /\ pc = "advance" /\ pc' = "count" /\ num' = num /\ found' = found
    BY <1>4 DEF push_advance, Main
  <2>2. Decided' = Decided /\ Pushing
    BY <2>1 DEF Decided, Pushing
  <2> QED BY <2>1, <2>2, <1>B DEF SearchInv
<1>5. CASE push_count
  <2>1. /\ pc = "count" /\ pc' = "for" /\ num' = num + 1 /\ found' = found
    BY <1>5 DEF push_count, Main, next_num
  <2>2. Decided' = Decided
    BY <1>0, <2>1 DEF Decided, Pushing
  <2> QED BY <2>1, <2>2, <1>B DEF SearchInv, Pushing
<1>6. CASE end_of_main
  <2>1. /\ pc = "for" /\ pc' = "exited" /\ num' = num /\ found' = found
    BY <1>6 DEF end_of_main, Main
  <2>2. Decided' = Decided
    BY <2>1 DEF Decided, Pushing
  <2> QED BY <2>1, <2>2, <1>B DEF SearchInv, Pushing
<1>7. CASE UNCHANGED mainVars
  <2>1. pc' = pc /\ num' = num /\ i' = i /\ found' = found
    BY <1>7 DEF mainVars
  <2>2. Decided' = Decided /\ (Pushing <=> Pushing')
    BY <2>1 DEF Decided, Pushing
  <2>3. truncate(num)' = truncate(num) /\ (DivideInv <=> DivideInv')
    BY <2>1 DEF truncate, DivideInv
  <2> QED BY <2>1, <2>2, <2>3, <1>B DEF SearchInv
<1>8. UNCHANGED mainVars \/ is_prime \/ divide \/ push_copy \/ push_advance
        \/ push_count \/ end_of_main
  BY DEF Next, report, pop_copy, pop_advance, pop_count, exit, handler, vars,
         mainVars
<1> QED BY <1>1, <1>2, <1>3, <1>4, <1>5, <1>6, <1>7, <1>8

-------------------------------------------------------------------------------
(* Every step preserves what is known about the ring and its counts.         *)

(* A push overwrites the slot that is a whole round old, and no other.       *)
LEMMA RingStep == Inv /\ [Next]_vars => RingInv'
<1> SUFFICES ASSUME Inv, [Next]_vars
             PROVE  RingInv'
  OBVIOUS
<1> USE DEF Inv
<1>0. /\ SLOTS \in Nat /\ SLOTS > 0 /\ num \in Nat
      /\ found \in Seq(1..LONG_MAX) /\ Len(found) \in Nat
      /\ buffer \in [0..(SLOTS - 1) -> 0..(UINT - 1) \cup {UNDEFINED}]
  BY Constants DEF PTypes, TypeOK
<1>1. CASE push_copy
  <2> DEFINE L == Len(found)
  <2> DEFINE t == truncate(num)
  <2>1. /\ pc = "push" /\ pc' = "advance" /\ head' = head
        /\ buffer' = [buffer EXCEPT ![head] = t]
        /\ found' = Append(found, num)
    BY <1>1 DEF push_copy, Main
  <2>2. /\ Len(found') = L + 1
        /\ \A m \in 1..L : found'[m] = found[m]
        /\ found'[L + 1] = num
    BY <1>0, <2>1
  <2>3. head = L % SLOTS /\ head \in 0..(SLOTS - 1)
    BY <1>0, <2>1, ModDef DEF RingInv
  <2>4. t \in 0..(UINT - 1) /\ t # UNDEFINED
    <3>1. t \in 0..(UINT - 1)
      BY <1>0, Conversions
    <3>2. t \in Int
      BY <3>1, Constants
    <3> QED BY <3>1, <3>2, Constants
  <2>5. \A k \in 0..(SLOTS - 1) : buffer'[k] = IF k = head THEN t ELSE buffer[k]
    BY <1>0, <2>1
  <2> HIDE DEF t
  <2>6. ASSUME NEW m \in 1..Len(found'), m + SLOTS > Len(found')
        PROVE  buffer'[(m - 1) % SLOTS] = truncate(found'[m])
    <3>1. CASE m = L + 1
      <4>1. m - 1 = L
        BY <1>0, <3>1
      <4> QED BY <2>2, <2>3, <2>5, <3>1, <4>1 DEF t, truncate
    <3>2. CASE m \in 1..L
      <4>1. m - 1 \in Nat /\ m - 1 < L /\ L < (m - 1) + SLOTS
            /\ m + SLOTS > Len(found)
        BY <1>0, <2>2, <2>6, <3>2
      <4>2. (m - 1) % SLOTS # L % SLOTS
        BY <1>0, <4>1, ModApart
      <4>3. (m - 1) % SLOTS \in 0..(SLOTS - 1)
        BY <1>0, <4>1, ModDef
      <4>4. buffer[(m - 1) % SLOTS] = truncate(found[m])
        BY <3>2, <4>1 DEF RingInv
      <4> QED BY <2>2, <2>3, <2>5, <3>2, <4>2, <4>3, <4>4 DEF truncate
    <3> QED BY <1>0, <2>2, <3>1, <3>2
  <2>7. ASSUME NEW k \in 0..(SLOTS - 1), k < Len(found')
        PROVE  buffer'[k] # UNDEFINED
    <3>1. CASE k < L
      BY <2>4, <2>5, <3>1 DEF RingInv
    <3>2. CASE k = L
      <4>1. L % SLOTS = k
        BY <1>0, <3>2, ModSmall
      <4> QED BY <2>3, <2>4, <2>5, <4>1
    <3> QED BY <1>0, <2>2, <2>7, <3>1, <3>2
  <2>8. head' = (Len(found') - 1) % SLOTS
    <3>1. Len(found') - 1 = L
      BY <1>0, <2>2
    <3> QED BY <2>1, <2>3, <3>1
  <2> QED BY <2>1, <2>6, <2>7, <2>8 DEF RingInv
<1>2. CASE push_advance
  <2>1. /\ pc = "advance" /\ pc' = "count" /\ head' = advance(head)
        /\ buffer' = buffer /\ found' = found
    BY <1>2 DEF push_advance, Main
  <2>2. Len(found) - 1 \in Nat /\ (Len(found) - 1) + 1 = Len(found)
    BY <1>0, <2>1 DEF SearchInv, Pushing
  <2>3. head = (Len(found) - 1) % SLOTS
    BY <2>1 DEF RingInv
  <2>4. advance(head) = ((Len(found) - 1) + 1) % SLOTS
    BY <2>2, <2>3, AdvanceSlot
  <2>5. head' = Len(found') % SLOTS
    BY <2>1, <2>2, <2>4
  <2> QED BY <2>1, <2>5 DEF RingInv, truncate
<1>3. CASE /\ found' = found /\ buffer' = buffer /\ head' = head
           /\ (pc = "advance") <=> (pc' = "advance")
  BY <1>3 DEF RingInv, truncate
<1>4. \/ push_copy \/ push_advance
      \/ /\ found' = found /\ buffer' = buffer /\ head' = head
         /\ (pc = "advance") <=> (pc' = "advance")
  BY DEF Next, is_prime, divide, push_count, end_of_main, next_num, Main,
         report, pop_copy, pop_advance, pop_count, exit, handler, vars, mainVars
<1> QED BY <1>1, <1>2, <1>3, <1>4

(* head and count follow what has been found, up to a push under way.        *)
LEMMA CountStep == Inv /\ [Next]_vars => CountInv'
<1> SUFFICES ASSUME Inv, [Next]_vars
             PROVE  CountInv'
  OBVIOUS
<1> USE DEF Inv
<1>0. found \in Seq(1..LONG_MAX) /\ Len(found) \in Nat /\ count \in Nat
  BY DEF PTypes, TypeOK
<1>1. CASE push_copy
  <2>1. Len(found') = Len(found) + 1 /\ pc = "push" /\ pc' = "advance"
    BY <1>0, <1>1 DEF push_copy, Main
  <2>2. Counted' = Counted
    BY <1>0, <2>1 DEF Counted, Pushing
  <2> QED BY <1>1, <2>2 DEF push_copy, Main, CountInv
<1>2. CASE push_count
  <2>1. Counted' = Counted + 1
    BY <1>0, <1>2 DEF push_count, Main, next_num, Counted, Pushing
  <2> QED BY <1>2, <2>1 DEF push_count, Main, CountInv
<1>3. CASE is_prime \/ divide \/ push_advance \/ end_of_main
  <2>1. found' = found /\ (Pushing <=> Pushing')
    BY <1>3 DEF is_prime, divide, push_advance, end_of_main, Main, next_num,
                Pushing
  <2>2. Counted' = Counted
    BY <2>1 DEF Counted
  <2>3. /\ caught = {} /\ caught' = caught /\ hpc' = hpc /\ shown' = shown
        /\ tail' = tail /\ count' = count
    BY <1>3 DEF is_prime, divide, push_advance, end_of_main, Main
  <2> QED BY <2>2, <2>3 DEF CountInv
<1>4. CASE \E sig \in Signals : handler(sig)
  <2>1. Counted' = Counted
    BY <1>4 DEF handler, mainVars, Counted, Pushing
  <2>2. caught' # {} /\ hpc' = "pop"
        /\ counted' = IF caught = {} THEN count ELSE counted
    BY <1>4 DEF handler
  <2> QED BY <2>1, <2>2 DEF CountInv
<1>5. CASE report
  <2>1. /\ UNCHANGED <<mainVars, caught, counted>> /\ hpc # "none"
        /\ hpc' # "none"
    BY <1>5 DEF report, pop_copy, pop_advance, pop_count, exit
  <2>2. Counted' = Counted
    BY <2>1 DEF mainVars, Counted, Pushing
  <2> QED BY <2>1, <2>2 DEF CountInv
<1>6. CASE UNCHANGED vars
  BY <1>6 DEF vars, mainVars, CountInv, Counted, Pushing
<1> QED BY <1>1, <1>2, <1>3, <1>4, <1>5, <1>6 DEF Next

-------------------------------------------------------------------------------
(* Every step preserves what is known about a report.                        *)

(* What a report may count on: the numbers counted are in the buffer.        *)
LEMMA CountedBound ==
  ASSUME Inv, caught # {}
  PROVE  counted \in Nat /\ counted <= Len(found) /\ Len(found) \in Nat
<1>1. counted = Counted /\ Len(found) \in Nat /\ counted \in Nat
  BY DEF Inv, PTypes, TypeOK, CountInv
<1> QED BY <1>1 DEF Counted

(* cb_pop_front after the copy, and the end of a report, keep its course.    *)
LEMMA WalkOn ==
  ASSUME Inv, NEW b \in 0..REPORTED, NEW e \in {0, 1}, Walk(b, e),
         pop_advance \/ pop_count \/ exit
  PROVE  Walk(b, e)'
<1> DEFINE P == b + Len(shown)
<1>0. /\ P \in Nat /\ count \in Nat /\ counted \in Nat
      /\ tail \in 0..(SLOTS - 1) /\ SLOTS \in Nat /\ P < 2 * SLOTS
      /\ hpc = "advance" => P >= 1
  BY Constants DEF Inv, PTypes, TypeOK, ReportInv
<1>1. shown' = shown /\ counted' = counted /\ P' = P
  BY DEF pop_advance, pop_count, exit
<1>2. \A k \in 1..Len(shown') :
        /\ shown'[k] = UNDEFINED => b + k - 1 = counted'
        /\ shown'[k] = FOREIGN => b + k - 1 \in CAPACITY..(SLOTS - 1)
  BY <1>1 DEF Walk
<1> HIDE DEF P
<1>3. CASE pop_advance
  <2>1. /\ hpc = "advance" /\ hpc' = "count" /\ count' = count
        /\ tail' = advance(tail)
    BY <1>3 DEF pop_advance
  <2>2. tail = Wrapped(P - 1) /\ count + P = counted + e + 1
    BY <2>1 DEF Walk, P
  <2>3. advance(tail) = Wrapped(P)
    BY <1>0, <2>1, <2>2 DEF advance, Wrapped
  <2> QED BY <1>1, <1>2, <2>1, <2>2, <2>3 DEF Walk, P
<1>4. CASE pop_count
  <2>1. /\ hpc = "count" /\ hpc' = "pop" /\ count' = count - 1
        /\ tail' = tail
    BY <1>4 DEF pop_count
  <2>2. tail = Wrapped(P) /\ count + P = counted + e + 1
    BY <2>1 DEF Walk, P
  <2>3. count' + P = counted + e
    BY <1>0, <2>1, <2>2
  <2> QED BY <1>1, <1>2, <2>1, <2>2, <2>3 DEF Walk, P
<1>5. CASE exit
  <2>1. /\ hpc = "pop" /\ hpc' = "exited" /\ count' = count /\ tail' = tail
    BY <1>5 DEF exit
  <2> QED BY <1>1, <1>2, <2>1 DEF Walk, P
<1> QED BY <1>3, <1>4, <1>5

(* cb_pop_front copies what lies at the position of the report: a slot that  *)
(* was not written to only behind what was counted.                          *)
LEMMA WalkCopy ==
  ASSUME Inv, pop_copy, caught # {}, NEW b \in 0..REPORTED, NEW e \in {0, 1},
         Walk(b, e)
  PROVE  Walk(b, e)'
<1> DEFINE L == Len(shown)
<1> DEFINE P == b + L
<1>0. /\ L \in Nat /\ P \in Nat /\ count \in Nat /\ counted \in Nat
      /\ tail \in 0..(SLOTS - 1) /\ SLOTS \in Nat /\ CAPACITY \in Nat
      /\ shown \in Seq(Values) /\ Len(found) \in Nat /\ counted <= Len(found)
      /\ REPORTED \in Nat /\ REPORTED <= CAPACITY /\ CAPACITY < SLOTS
  BY Constants, CountedBound DEF Inv, PTypes, TypeOK
<1>1. /\ hpc = "pop" /\ hpc' = "advance" /\ tail' = tail /\ count' = count
      /\ counted' = counted /\ L < REPORTED /\ count # 0
  BY DEF pop_copy
<1>2. tail = Wrapped(P) /\ count + P = counted + e
  BY <1>0, <1>1 DEF Walk
<1>3. PICK v \in Readable(tail) : shown' = Append(shown, printed(v))
  BY DEF pop_copy
<1>4. v \in 0..(UINT - 1) \cup {UNDEFINED, FOREIGN}
  BY <1>0, <1>3 DEF Inv, PTypes, TypeOK, Readable
<1> DEFINE w == printed(v)
<1>5. /\ w \in Values /\ shown' = Append(shown, w)
      /\ w = UNDEFINED => v = UNDEFINED
      /\ w = FOREIGN => v = FOREIGN
  BY <1>3, <1>4, Printed
<1> HIDE DEF w
<1>6. /\ Len(shown') = L + 1 /\ shown'[L + 1] = w
      /\ \A k \in 1..L : shown'[k] = shown[k]
  BY <1>0, <1>5
<1>a. P <= counted /\ P < CAPACITY + SLOTS
  BY <1>0, <1>1, <1>2
<1>b. ASSUME v = UNDEFINED
      PROVE  P = counted
  <2> SUFFICES ASSUME P # counted
               PROVE  FALSE
    OBVIOUS
  <2>1. tail < Len(found)
    BY <1>0, <1>2, <1>a DEF Wrapped
  <2>2. buffer[tail] # UNDEFINED
    BY <1>0, <2>1 DEF Inv, RingInv
  <2> QED BY <1>3, <1>b, <2>2, Constants DEF Readable
<1>c. ASSUME v = FOREIGN
      PROVE  P \in CAPACITY..(SLOTS - 1)
  <2>1. buffer[tail] # FOREIGN
    <3>1. buffer[tail] \in 0..(UINT - 1) \cup {UNDEFINED}
      BY <1>0 DEF Inv, PTypes, TypeOK
    <3> QED BY <3>1, Constants
  <2>2. tail >= CAPACITY
    BY <1>0, <1>3, <1>c, <2>1 DEF Readable
  <2> QED BY <1>0, <1>2, <1>a, <2>2 DEF Wrapped
<1>7. ASSUME NEW k \in 1..Len(shown')
      PROVE  /\ shown'[k] = UNDEFINED => b + k - 1 = counted'
             /\ shown'[k] = FOREIGN => b + k - 1 \in CAPACITY..(SLOTS - 1)
  <2>1. CASE k \in 1..L
    BY <1>1, <1>6, <1>7, <2>1 DEF Walk
  <2>2. CASE k = L + 1
    <3>1. b + k - 1 = P
      BY <1>0, <2>2
    <3> QED BY <1>1, <1>5, <1>6, <1>b, <1>c, <2>2, <3>1
  <2> QED BY <1>0, <1>6, <2>1, <2>2
<1>8. b + Len(shown') = P + 1
  BY <1>0, <1>6
<1>9. /\ tail' = Wrapped(b + Len(shown') - 1)
      /\ count' + (b + Len(shown')) = counted' + e + 1
  <2>1. b + Len(shown') - 1 = P
    BY <1>0, <1>8
  <2> QED BY <1>0, <1>1, <1>2, <1>8, <2>1
<1> QED BY <1>1, <1>7, <1>9 DEF Walk

(* A report keeps its course; a nested one starts where the first one is.    *)
LEMMA ReportStep == Inv /\ [Next]_vars => ReportInv'
<1> SUFFICES ASSUME Inv, [Next]_vars
             PROVE  ReportInv'
  OBVIOUS
<1>0. /\ count \in Nat /\ counted \in Nat /\ Len(shown) \in Nat
      /\ SLOTS \in Nat /\ CAPACITY \in Nat /\ REPORTED \in Nat
      /\ REPORTED <= CAPACITY /\ CAPACITY < SLOTS
      /\ tail \in 0..(SLOTS - 1) /\ Len(shown) <= REPORTED
      /\ shown \in Seq(Values) /\ caught \subseteq Signals
  BY Constants DEF Inv, PTypes, TypeOK
(* main() runs only before a report.                                         *)
<1>1. CASE is_prime \/ divide \/ push_copy \/ push_advance \/ push_count
             \/ end_of_main
  <2>1. caught = {} /\ caught' = {} /\ hpc' = hpc
    BY <1>1 DEF is_prime, divide, push_copy, push_advance, push_count,
                end_of_main, Main
  <2>2. hpc = "none"
    BY <2>1 DEF Inv, CountInv
  <2> QED BY <2>1, <2>2 DEF ReportInv, OneSignal
(* A report steps on.                                                        *)
<1>2. CASE report
  <2>0. /\ caught # {} /\ caught' = caught /\ counted' = counted
        /\ found' = found /\ buffer' = buffer
    BY <1>2 DEF report, pop_copy, pop_advance, pop_count, exit, Inv, CountInv,
                mainVars
  <2>1. counted <= Len(found) /\ Len(found) \in Nat
    BY <2>0, CountedBound
  <2>2. CASE pop_copy
    <3>0. /\ hpc = "pop" /\ hpc' = "advance" /\ Len(shown) < REPORTED
          /\ count # 0 /\ count' = count
      BY <2>2 DEF pop_copy
    <3>1. PICK w : shown' = Append(shown, w)
      BY <2>2 DEF pop_copy
    <3>2. Len(shown') = Len(shown) + 1
      BY <1>0, <3>1
    <3>3. ASSUME OneSignal
          PROVE  /\ Walk(0, 0)'
                 /\ \A k \in 1..Len(shown') : shown'[k] = as_int(buffer[k - 1])
      <4> DEFINE L == Len(shown)
      <4>1. /\ Walk(0, 0)
            /\ \A k \in 1..L : shown[k] = as_int(buffer[k - 1])
        BY <3>3 DEF Inv, ReportInv
      <4>2. tail = L /\ count + L = counted
        BY <1>0, <3>0, <4>1 DEF Walk, Wrapped
      <4>3. L < Len(found) /\ L < CAPACITY /\ L \in 0..(SLOTS - 1)
        BY <1>0, <2>1, <3>0, <4>2
      <4>4. Readable(tail) = {buffer[L]} /\ buffer[L] \in 0..(UINT - 1)
        <5>1. buffer[L] # UNDEFINED
          BY <4>3 DEF Inv, RingInv
        <5>2. buffer[L] \in 0..(UINT - 1) \cup {UNDEFINED}
          BY <4>3 DEF Inv, PTypes, TypeOK
        <5> QED BY <4>2, <4>3, <5>1, <5>2 DEF Readable
      <4>5. Walk(0, 0)'
        <5>1. 0 \in 0..REPORTED /\ 0 \in {0, 1}
          BY <1>0
        <5> QED BY <2>0, <2>2, <4>1, <5>1, WalkCopy
      <4>6. shown' = Append(shown, as_int(buffer[L]))
        <5>1. printed(buffer[L]) = as_int(buffer[L])
          BY <4>4, Printed
        <5> QED BY <2>2, <4>4, <5>1 DEF pop_copy
      <4>7. /\ shown'[L + 1] = as_int(buffer[L])
            /\ \A k \in 1..L : shown'[k] = shown[k]
        BY <1>0, <4>6
      <4>8. \A k \in 1..Len(shown') : k \in 1..L \/ (k = L + 1 /\ k - 1 = L)
        BY <1>0, <3>2
      <4> QED BY <4>1, <4>5, <4>7, <4>8
    <3>4. \E b \in 0..REPORTED, e \in {0, 1} : Walk(b, e)'
      <4>1. PICK b \in 0..REPORTED, e \in {0, 1} : Walk(b, e)
        BY <2>0 DEF Inv, ReportInv
      <4>2. Walk(b, e)'
        BY <2>0, <2>2, <4>1, WalkCopy
      <4> QED BY <4>2
    <3>5. (hpc \in {"advance", "count"} => count >= 1 /\ Len(shown) >= 1)'
      BY <1>0, <3>0, <3>2
    <3>6. OneSignal' <=> OneSignal
      BY <2>0 DEF OneSignal
    <3> QED BY <2>0, <3>0, <3>3, <3>4, <3>5, <3>6 DEF ReportInv, as_int
  <2>3. CASE pop_advance \/ pop_count \/ exit
    <3>1. shown' = shown
      BY <2>3 DEF pop_advance, pop_count, exit
    <3>2. ASSUME OneSignal
          PROVE  /\ Walk(0, 0)'
                 /\ \A k \in 1..Len(shown') : shown'[k] = as_int(buffer[k - 1])
      <4>1. /\ Walk(0, 0)
            /\ \A k \in 1..Len(shown) : shown[k] = as_int(buffer[k - 1])
        BY <3>2 DEF Inv, ReportInv
      <4>2. Walk(0, 0)'
        <5>1. 0 \in 0..REPORTED /\ 0 \in {0, 1}
          BY <1>0
        <5> QED BY <2>3, <4>1, <5>1, WalkOn
      <4> QED BY <3>1, <4>1, <4>2
    <3>3. \E b \in 0..REPORTED, e \in {0, 1} : Walk(b, e)'
      <4>1. PICK b \in 0..REPORTED, e \in {0, 1} : Walk(b, e)
        BY <2>0 DEF Inv, ReportInv
      <4>2. Walk(b, e)'
        BY <2>3, <4>1, WalkOn
      <4> QED BY <4>2
    <3>4. (hpc \in {"advance", "count"} => count >= 1 /\ Len(shown) >= 1)'
      BY <2>3, <3>1 DEF pop_advance, pop_count, exit, Inv, ReportInv
    <3>5. (hpc = "exited" => Len(shown) = REPORTED \/ count = 0)'
      BY <2>3, <3>1 DEF pop_advance, pop_count, exit
    <3>6. OneSignal' <=> OneSignal
      BY <2>0 DEF OneSignal
    <3> QED BY <2>0, <3>2, <3>3, <3>4, <3>5, <3>6 DEF ReportInv, as_int
  <2> QED BY <1>2, <2>2, <2>3 DEF report
(* A report starts, on its own or within another one.                        *)
<1>3. CASE \E sig \in Signals : handler(sig)
  <2>1. PICK sig \in Signals : handler(sig)
    BY <1>3
  <2>2. /\ sig \notin caught /\ caught' = caught \cup {sig}
        /\ hpc # "exited" /\ hpc' = "pop" /\ shown' = <<>> /\ tail' = tail
        /\ count' = count /\ found' = found
        /\ counted' = IF caught = {} THEN count ELSE counted
    BY <2>1 DEF handler, mainVars
  <2>3. Len(shown') = 0
    BY <2>2
  <2>4. ASSUME NEW b \in 0..REPORTED, NEW e \in {0, 1},
               tail = Wrapped(b), count + b = counted' + e
        PROVE  Walk(b, e)'
    <3>1. b + Len(shown') = b
      BY <2>3
    <3> QED BY <2>2, <2>3, <2>4, <3>1 DEF Walk
  <2>5. CASE caught = {}
    <3>1. tail = Wrapped(0) /\ count + 0 = counted' + 0
      BY <1>0, <2>2, <2>5 DEF Inv, CountInv, Wrapped
    <3>2. Walk(0, 0)' /\ 0 \in 0..REPORTED
      BY <1>0, <2>4, <3>1
    <3> QED BY <2>2, <2>3, <3>2 DEF ReportInv
  <2>6. CASE caught # {}
    <3>1. OneSignal /\ ~OneSignal'
      <4>1. caught' = Signals
        BY <1>0, <2>2, <2>6 DEF Signals
      <4> QED BY <2>2, <2>6, <4>1 DEF OneSignal, Signals
    <3>2. Walk(0, 0) /\ counted' = counted
      BY <2>2, <2>6, <3>1 DEF Inv, ReportInv
    <3>3. hpc \in {"pop", "advance", "count"}
      BY <2>2, <2>6 DEF Inv, PTypes, TypeOK, CountInv
    <3> DEFINE L == Len(shown)
    <3>4. CASE hpc = "pop"
      <4>1. tail = Wrapped(L) /\ count + L = counted' + 0
        BY <1>0, <3>2, <3>4 DEF Walk
      <4>2. PICK t \in 0..REPORTED : t = L
        BY <1>0
      <4>3. Walk(t, 0)'
        BY <2>4, <4>1, <4>2
      <4> QED BY <2>2, <3>1, <4>3 DEF ReportInv
    <3>5. CASE hpc = "advance"
      <4>1. tail = L - 1 /\ count + L = counted' + 1 /\ L >= 1
        <5>1. L >= 1
          BY <3>5 DEF Inv, ReportInv
        <5> QED BY <1>0, <3>2, <3>5, <5>1 DEF Walk, Wrapped
      <4>2. tail \in 0..REPORTED /\ tail = Wrapped(tail) /\ count + tail = counted' + 0
        BY <1>0, <2>2, <3>2, <4>1 DEF Wrapped
      <4>3. PICK t \in 0..REPORTED : t = tail
        BY <4>2
      <4>4. Walk(t, 0)'
        BY <2>4, <4>2, <4>3
      <4> QED BY <2>2, <3>1, <4>4 DEF ReportInv
    <3>6. CASE hpc = "count"
      <4>1. tail = Wrapped(L) /\ count + L = counted' + 1
        BY <1>0, <3>2, <3>6 DEF Walk
      <4>2. PICK t \in 0..REPORTED : t = L
        BY <1>0
      <4>3. Walk(t, 1)'
        BY <2>4, <4>1, <4>2
      <4> QED BY <2>2, <3>1, <4>3 DEF ReportInv
    <3> QED BY <3>3, <3>4, <3>5, <3>6
  <2> QED BY <2>5, <2>6
<1>4. CASE UNCHANGED vars
  BY <1>4 DEF vars, mainVars, Inv, ReportInv, OneSignal, Walk, as_int
<1> QED BY <1>1, <1>2, <1>3, <1>4 DEF Next

(* The number that was put into slot k - 1 last.                             *)
LEMMA OccupantSlot ==
  ASSUME NEW k \in Nat, k >= 1, k <= Len(found), k - 1 < SLOTS,
         Len(found) \in Nat
  PROVE  /\ Occupant(k) \in k..Len(found) /\ Occupant(k) + SLOTS > Len(found)
         /\ (Occupant(k) - 1) % SLOTS = k - 1
<1>0. SLOTS \in Nat /\ SLOTS > 0 /\ Len(found) - k \in Nat
  BY Constants
<1> DEFINE q == (Len(found) - k) \div SLOTS
<1> DEFINE r == (Len(found) - k) % SLOTS
<1>1. q \in Nat /\ r \in 0..(SLOTS - 1) /\ Len(found) - k = SLOTS * q + r
  BY <1>0, ModDef
<1>2. Occupant(k) = Len(found) - r
  BY DEF Occupant
<1> HIDE DEF q, r
<1>3. SLOTS * q \in Nat
  BY <1>0, <1>1
<1>4. Occupant(k) = k + SLOTS * q /\ Occupant(k) - 1 = SLOTS * q + (k - 1)
  BY <1>0, <1>1, <1>2, <1>3
<1>5. (SLOTS * q + (k - 1)) % SLOTS = k - 1
  <2>1. PICK j \in 0..(SLOTS - 1) : j = k - 1
    BY <1>0
  <2>2. (SLOTS * q + j) % SLOTS = j
    BY <1>0, <1>1, ModUnique
  <2> QED BY <2>1, <2>2
<1>6. Occupant(k) \in k..Len(found) /\ Occupant(k) + SLOTS > Len(found)
  BY <1>0, <1>1, <1>2, <1>3, <1>4
<1> QED BY <1>4, <1>5, <1>6

-------------------------------------------------------------------------------
(* The theorems.                                                             *)

(* The invariant holds when main() starts.                                   *)
LEMMA InitInv == Init => Inv
<1> SUFFICES ASSUME Init
             PROVE  Inv
  OBVIOUS
<1> USE DEF Init, cb_init
<1>0. Len(found) = 0 /\ Len(shown) = 0 /\ DOMAIN found = {}
  OBVIOUS
<1>1. PTypes
  BY <1>0, Constants DEF PTypes, TypeOK
<1>2. SearchInv
  <2>1. Decided = 0 /\ ~Pushing
    BY DEF Decided, Pushing
  <2> QED BY <1>0, <2>1 DEF SearchInv, FoundIs, Ascending
<1>3. RingInv
  <2>1. 0 % SLOTS = 0
    BY Constants, ModSmall
  <2> QED BY <1>0, <2>1 DEF RingInv
<1>4. CountInv
  BY <1>0 DEF CountInv, Counted, Pushing
<1>5. ReportInv
  BY DEF ReportInv, OneSignal
<1> QED BY <1>1, <1>2, <1>3, <1>4, <1>5 DEF Inv

(* The search and its handlers keep the inductive invariant, for ints of any *)
(* width, any ring and any signals.                                          *)
THEOREM Invariance == Spec => []Inv
<1>1. Inv /\ [Next]_vars => Inv'
  BY TypesStep, SearchStep, RingStep, CountStep, ReportStep DEF Inv
<1> QED BY InitInv, <1>1, PTL DEF Spec

(* cb_push_back and cb_pop_front stay inside the CAPACITY + SIZE slots, the  *)
(* divisor of is_prime stays an unsigned int, and count never falls below    *)
(* zero although a nested report counts down once too often.                 *)
THEOREM TypeCorrect == Spec => []TypeOK
<1>1. Inv => TypeOK
  BY DEF Inv, PTypes
<1> QED BY <1>1, Invariance, PTL

(* is_prime: trial division by the odd numbers up to the root of the         *)
(* truncated candidate finds exactly the candidates whose lower bits are a   *)
(* prime, each once and in order.                                            *)
THEOREM SearchAlwaysExact == Spec => []FoundExactly
<1>1. Inv => FoundExactly
  <2> SUFFICES ASSUME Inv, pc = "for"
               PROVE  /\ {found[k] : k \in DOMAIN found} =
                           {n \in 1..(num - 1) : IsPrime(truncate(n))}
                      /\ \A k \in DOMAIN found :
                           k > 1 => found[k - 1] < found[k]
    BY DEF FoundExactly
  <2>1. /\ found \in Seq(1..LONG_MAX) /\ LONG_MAX \in Nat /\ num \in Nat
        /\ DOMAIN found = 1..Len(found)
    BY Constants DEF Inv, PTypes, TypeOK
  <2>2. FoundIs(num - 1) /\ Ascending
    BY DEF Inv, SearchInv, Decided, Pushing
  <2>3. \A k \in 1..Len(found) : found[k] \in Nat
    BY <2>1
  <2>4. \A n \in 1..(num - 1) : n \in Nat
    BY <2>1
  <2>5. \A n : n \in {found[k] : k \in DOMAIN found}
                 <=> n \in {m \in 1..(num - 1) : IsPrime(truncate(m))}
    BY <2>1, <2>2, <2>3, <2>4 DEF FoundIs
  <2> QED BY <2>1, <2>2, <2>5 DEF Ascending
<1> QED BY <1>1, Invariance, PTL

(* report(): one signal, at any step of main(), shows what was put last into *)
(* the first slots of the ring; a second one, at any step of the first       *)
(* report, at most one number that was never put into the buffer and at most *)
(* SIZE from the memory behind it.                                           *)
THEOREM ReportAlwaysShows == Spec => []ReportShows
<1>1. Inv => ReportShows
  <2> SUFFICES ASSUME Inv
               PROVE  ReportShows
    OBVIOUS
  <2>0. /\ Len(shown) \in Nat /\ count \in Nat /\ SLOTS \in Nat
        /\ CAPACITY \in Nat /\ REPORTED \in Nat /\ REPORTED <= CAPACITY
        /\ CAPACITY < SLOTS /\ caught \subseteq Signals
        /\ Len(shown) <= REPORTED /\ SIZE \in Nat /\ SLOTS = CAPACITY + SIZE
        /\ UNDEFINED \notin Int /\ FOREIGN \notin Int
        /\ shown \in Seq(Values) /\ DOMAIN shown = 1..Len(shown)
    BY Constants DEF Inv, PTypes, TypeOK
  <2>1. ASSUME Cardinality(caught) = 1
        PROVE  OneSignal
    <3>1. Cardinality({}) = 0 /\ Cardinality(Signals) = 2
      <4>1. IsFiniteSet({"SIGINT"}) /\ Cardinality({"SIGINT"}) = 1
        BY FS_Singleton
      <4>2. Signals = {"SIGINT"} \cup {"SIGQUIT"} /\ "SIGQUIT" \notin {"SIGINT"}
        BY DEF Signals
      <4>3. Cardinality(Signals) = 1 + 1
        BY <4>1, <4>2, FS_AddElement
      <4> QED BY <4>3, FS_EmptySet
    <3> QED BY <2>1, <3>1 DEF OneSignal
  (* One report, from the first slot on.                                     *)
  <2>2. ASSUME OneSignal
        PROVE  /\ counted <= Len(found) /\ counted \in Nat /\ Len(found) \in Nat
               /\ Len(shown) <= counted
               /\ \A k \in 1..Len(shown) : shown[k] = as_int(buffer[k - 1])
    <3>1. counted <= Len(found) /\ counted \in Nat /\ Len(found) \in Nat
      BY <2>2, CountedBound DEF OneSignal
    <3>2. hpc \in {"pop", "advance", "count", "exited"}
      BY <2>2 DEF Inv, PTypes, TypeOK, CountInv, OneSignal
    <3>3. Walk(0, 0) /\ \A k \in 1..Len(shown) : shown[k] = as_int(buffer[k - 1])
      BY <2>2 DEF Inv, ReportInv
    <3>4. hpc \in {"advance", "count"} => count >= 1
      BY DEF Inv, ReportInv
    <3>5. Len(shown) <= counted
      BY <2>0, <3>1, <3>2, <3>3, <3>4 DEF Walk
    <3> QED BY <3>1, <3>3, <3>5
  <2>3. ASSUME OneSignal
        PROVE  ShownAs(UNDEFINED) = {} /\ ShownAs(FOREIGN) = {}
    <3> SUFFICES ASSUME NEW k \in 1..Len(shown)
                 PROVE  shown[k] # UNDEFINED /\ shown[k] # FOREIGN
      BY <2>0 DEF ShownAs
    <3>1. k - 1 \in 0..(SLOTS - 1) /\ k - 1 < Len(found)
      BY <2>0, <2>2, <2>3
    <3>2. buffer[k - 1] \in 0..(UINT - 1)
      <4>1. buffer[k - 1] # UNDEFINED
        BY <3>1 DEF Inv, RingInv
      <4> QED BY <3>1, <4>1 DEF Inv, PTypes, TypeOK
    <3>3. as_int(buffer[k - 1]) \in Int
      BY <3>2, Conversions
    <3> QED BY <2>0, <2>2, <2>3, <3>3
  <2>4. ASSUME hpc = "exited", OneSignal
        PROVE  shown = [k \in 1..Reported |-> AsPrinted(found[Occupant(k)])]
    <3> DEFINE n == Reported
    <3> DEFINE L == Len(found)
    <3>0. /\ counted \in Nat /\ Len(shown) <= counted /\ Walk(0, 0)
          /\ counted <= L /\ L \in Nat
      BY <2>2, <2>4 DEF Inv, ReportInv
    <3>1. Len(shown) = n /\ n \in Nat
      <4>1. count + Len(shown) = counted
        BY <2>0, <2>4, <3>0 DEF Walk
      <4>2. Len(shown) = REPORTED \/ count = 0
        BY <2>4 DEF Inv, ReportInv
      <4>3. /\ Len(shown) \in Nat /\ count \in Nat /\ REPORTED \in Nat
            /\ Len(shown) <= REPORTED
        BY <2>0
      <4>4. CASE counted < REPORTED
        BY <3>0, <4>1, <4>2, <4>3, <4>4 DEF Reported
      <4>5. CASE ~(counted < REPORTED)
        BY <3>0, <4>1, <4>2, <4>3, <4>5 DEF Reported
      <4> QED BY <4>4, <4>5
    <3>2. n <= counted /\ n <= REPORTED /\ n < SLOTS
      BY <2>0, <3>0 DEF Reported
    <3>4. \A k \in 1..n : shown[k] = AsPrinted(found[Occupant(k)])
      <4> SUFFICES ASSUME NEW k \in 1..n
                   PROVE  shown[k] = AsPrinted(found[Occupant(k)])
        OBVIOUS
      <4>1. k \in Nat /\ k >= 1 /\ k <= L /\ k - 1 < SLOTS /\ L - k \in Nat
        BY <2>0, <3>0, <3>1, <3>2
      <4>2. /\ Occupant(k) \in k..L /\ Occupant(k) + SLOTS > L
            /\ (Occupant(k) - 1) % SLOTS = k - 1
        BY <2>0, <3>0, <4>1, OccupantSlot
      <4>3. Occupant(k) \in 1..Len(found)
        BY <3>0, <4>1, <4>2
      <4>4. buffer[k - 1] = truncate(found[Occupant(k)])
        BY <4>2, <4>3 DEF Inv, RingInv
      <4>5. shown[k] = as_int(buffer[k - 1])
        BY <2>2, <2>4, <3>1
      <4> QED BY <4>4, <4>5 DEF AsPrinted
    <3>5. shown = [k \in 1..n |-> shown[k]]
      BY <2>0, <3>1
    <3> QED BY <3>4, <3>5
  (* A report of any kind: where it has started decides what it may show.    *)
  <2>5. CASE caught = {}
    <3>1. shown = <<>>
      BY <2>5 DEF Inv, CountInv
    <3>2. ShownAs(UNDEFINED) = {} /\ ShownAs(FOREIGN) = {}
      BY <3>1 DEF ShownAs
    <3>3. Cardinality(caught) # 1
      BY <2>5, FS_EmptySet
    <3> QED BY <2>0, <3>2, <3>3, FS_EmptySet DEF ReportShows
  <2>6. CASE caught # {}
    <3>1. PICK b \in 0..REPORTED, e \in {0, 1} : Walk(b, e)
      BY <2>6 DEF Inv, ReportInv
    <3>2. Cardinality(ShownAs(UNDEFINED)) <= 1
      <4>1. counted \in Nat
        BY DEF Inv, PTypes, TypeOK
      <4>2. \A k \in ShownAs(UNDEFINED) : k \in Nat /\ b + k - 1 = counted
        BY <2>0, <3>1 DEF Walk, ShownAs
      <4>3. \A j, k \in ShownAs(UNDEFINED) : j = k
        BY <3>1, <4>1, <4>2
      <4>4. CASE ShownAs(UNDEFINED) = {}
        BY <4>4, FS_EmptySet
      <4>5. CASE ShownAs(UNDEFINED) # {}
        <5>1. PICK k : ShownAs(UNDEFINED) = {k}
          BY <4>3, <4>5
        <5> QED BY <5>1, FS_Singleton
      <4> QED BY <4>4, <4>5
    <3>3. Cardinality(ShownAs(FOREIGN)) <= SIZE
      <4> DEFINE lo == CAPACITY - b + 1
      <4> DEFINE hi == SLOTS - b
      <4>1. lo \in Int /\ hi \in Int /\ hi - lo + 1 = SIZE /\ b \in Int
        BY <2>0
      <4>2. ShownAs(FOREIGN) \subseteq lo..hi
        <5> SUFFICES ASSUME NEW k \in ShownAs(FOREIGN)
                     PROVE  k \in lo..hi
          OBVIOUS
        <5>1. k \in 1..Len(shown) /\ shown[k] = FOREIGN
          BY <2>0 DEF ShownAs
        <5>2. b + k - 1 \in CAPACITY..(SLOTS - 1)
          BY <3>1, <5>1 DEF Walk
        <5> QED BY <2>0, <4>1, <5>1, <5>2
      <4> HIDE DEF lo, hi
      <4>3. IsFiniteSet(lo..hi) /\ Cardinality(lo..hi) <= SIZE
        <5>1. /\ IsFiniteSet(lo..hi)
              /\ Cardinality(lo..hi) = IF lo > hi THEN 0 ELSE hi - lo + 1
          BY <4>1, FS_Interval
        <5> QED BY <2>0, <4>1, <5>1
      <4>4. /\ Cardinality(ShownAs(FOREIGN)) <= Cardinality(lo..hi)
            /\ IsFiniteSet(ShownAs(FOREIGN))
        BY <4>2, <4>3, FS_Subset
      <4>5. /\ Cardinality(ShownAs(FOREIGN)) \in Nat
            /\ Cardinality(lo..hi) \in Nat
        BY <4>3, <4>4, FS_CardinalityType
      <4> QED BY <2>0, <4>3, <4>4, <4>5
    <3> QED BY <2>1, <2>3, <2>4, <3>2, <3>3 DEF ReportShows
  <2> QED BY <2>5, <2>6
<1> QED BY <1>1, Invariance, PTL
===============================================================================
