------------------------------ MODULE WalkLemmas ------------------------------
(***************************************************************************)
(* Facts about sequences and about walks along pointers that the proofs     *)
(* about the linked structures share: src/pp_2/queue_utils.c and            *)
(* src/pp_1_server/list.c.                                                  *)
(*                                                                          *)
(* The induction theorems of the library take an operator as a parameter,   *)
(* which the provers cannot instantiate.  Induction over numbers is done    *)
(* by looking at a least counterexample instead.                            *)
(***************************************************************************)
EXTENDS Integers, Sequences, FiniteSets, SequencesExt, SequenceTheorems,
        FiniteSetTheorems, WellFoundedInduction, TLAPS

(* A set of natural numbers that is not empty has a least element.           *)
LEMMA LeastNumber ==
  ASSUME NEW T \in SUBSET Nat, T # {}
  PROVE  \E x \in T : \A y \in T : x <= y
<1> DEFINE R == OpToRel(<, Nat)
<1>1. IsWellFoundedOn(R, Nat)
  BY NatLessThanWellFounded, Zenon
<1>2. \A x, y \in Nat : y < x => <<y, x>> \in R
  BY DEF OpToRel
<1> HIDE DEF R
<1>3. PICK x \in T : \A y \in T : <<y, x>> \notin R
  BY <1>1, WFMin
<1>4. ASSUME NEW y \in T
      PROVE  x <= y
  <2>1. x \in Nat /\ y \in Nat /\ ~(y < x)
    BY <1>2, <1>3
  <2> QED BY <2>1
<1> QED BY <1>4

(* RemoveFirst takes out the entry at the first position that holds x.       *)
LEMMA RemoveFirstAt ==
  ASSUME NEW S, NEW s \in Seq(S), NEW k \in 1..Len(s), NEW x,
         s[k] = x, \A m \in 1..(k - 1) : s[m] # x
  PROVE  /\ RemoveFirst(s, x) \in Seq(S)
         /\ Len(RemoveFirst(s, x)) = Len(s) - 1
         /\ \A m \in 1..(Len(s) - 1) :
              RemoveFirst(s, x)[m] = IF m < k THEN s[m] ELSE s[m + 1]
<1> DEFINE I == {m \in 1..Len(s) : s[m] = x}
<1>1. Len(s) \in Nat
  BY LenProperties
<1>2. k \in I /\ \A m \in I : k <= m
  BY <1>1
<1>3. Min(I) = k
  BY <1>1, <1>2 DEF Min
<1>4. SelectInSeq(s, LAMBDA v : v = x) = k
  BY <1>2, <1>3 DEF SelectInSeq
<1>5. RemoveFirst(s, x) = SubSeq(s, 1, k - 1) \o SubSeq(s, k + 1, Len(s))
  BY <1>4 DEF RemoveFirst, RemoveAt
<1> DEFINE a == SubSeq(s, 1, k - 1)
           b == SubSeq(s, k + 1, Len(s))
<1>6. /\ a \in Seq(S) /\ Len(a) = k - 1
      /\ \A m \in 1..(k - 1) : a[m] = s[m]
  BY <1>1, SubSeqProperties, ElementOfSeq
<1>7. /\ b \in Seq(S) /\ Len(b) = Len(s) - k
      /\ \A m \in 1..(Len(s) - k) : b[m] = s[k + m]
  BY <1>1, SubSeqProperties, ElementOfSeq
<1> HIDE DEF a, b
<1>8. /\ a \o b \in Seq(S) /\ Len(a \o b) = Len(a) + Len(b)
      /\ \A m \in 1..(Len(a) + Len(b)) :
           (a \o b)[m] = IF m <= Len(a) THEN a[m] ELSE b[m - Len(a)]
  BY <1>6, <1>7, ConcatProperties
<1>9. Len(a) + Len(b) = Len(s) - 1
  BY <1>1, <1>6, <1>7
<1>10. ASSUME NEW m \in 1..(Len(s) - 1)
       PROVE  (a \o b)[m] = IF m < k THEN s[m] ELSE s[m + 1]
  <2>1. (a \o b)[m] = IF m <= k - 1 THEN a[m] ELSE b[m - (k - 1)]
    BY <1>6, <1>8, <1>9
  <2>2. CASE m < k
    BY <2>1, <2>2, <1>1, <1>6
  <2>3. CASE m >= k
    <3>1. m - (k - 1) \in 1..(Len(s) - k) /\ k + (m - (k - 1)) = m + 1
      BY <1>1, <2>3
    <3> QED BY <2>1, <2>3, <3>1, <1>1, <1>7
  <2>4. m < k \/ m >= k
    BY <1>1
  <2> QED BY <2>2, <2>3, <2>4
<1> QED
  BY <1>5, <1>8, <1>9, <1>10 DEF a, b

(* RemoveFirst leaves a sequence alone that does not hold x ...              *)
LEMMA RemoveFirstAbsent ==
  ASSUME NEW s, NEW x, \A m \in 1..Len(s) : s[m] # x
  PROVE  RemoveFirst(s, x) = s
BY DEF RemoveFirst

(* ... gives a sequence of the same kind ...                                 *)
LEMMA RemoveFirstSeq ==
  ASSUME NEW S, NEW s \in Seq(S), NEW x
  PROVE  RemoveFirst(s, x) \in Seq(S)
<1> DEFINE T == {m \in 1..Len(s) : s[m] = x}
<1>1. Len(s) \in Nat /\ T \in SUBSET Nat
  BY LenProperties
<1>2. CASE T = {}
  BY <1>2, RemoveFirstAbsent
<1>3. CASE T # {}
  <2>1. PICK k \in T : \A m \in T : k <= m
    <3> HIDE DEF T
    <3> QED BY <1>1, <1>3, LeastNumber
  <2>2. k \in 1..Len(s) /\ s[k] = x /\ \A m \in 1..(k - 1) : s[m] # x
    BY <1>1, <2>1
  <2> QED BY <2>2, RemoveFirstAt
<1> QED BY <1>2, <1>3

(* ... takes the head off one that starts with x ...                         *)
LEMMA RemoveFirstHead ==
  ASSUME NEW S, NEW s \in Seq(S), s # <<>>
  PROVE  RemoveFirst(s, s[1]) = Tail(s)
<1>1. Len(s) \in Nat \ {0} /\ 1 \in 1..Len(s) /\ 1..(1 - 1) = {}
  BY EmptySeq, LenProperties
<1>2. /\ Tail(s) \in Seq(S) /\ Len(Tail(s)) = Len(s) - 1
      /\ \A m \in 1..(Len(s) - 1) : Tail(s)[m] = s[m + 1]
  BY HeadTailProperties
<1> DEFINE r == RemoveFirst(s, s[1])
<1>3. /\ r \in Seq(S) /\ Len(r) = Len(s) - 1
      /\ \A m \in 1..(Len(s) - 1) : r[m] = IF m < 1 THEN s[m] ELSE s[m + 1]
  BY <1>1, RemoveFirstAt
<1> HIDE DEF r
<1>4. \A m \in 1..Len(r) : r[m] = Tail(s)[m]
  BY <1>1, <1>2, <1>3
<1>5. r = Tail(s)
  BY <1>2, <1>3, <1>4, SeqEqual
<1> QED BY <1>5 DEF r

(* ... and works on the tail of any other.                                   *)
LEMMA RemoveFirstLater ==
  ASSUME NEW S, NEW s \in Seq(S), s # <<>>, NEW x, s[1] # x
  PROVE  /\ RemoveFirst(Tail(s), x) \in Seq(S)
         /\ RemoveFirst(s, x) = <<s[1]>> \o RemoveFirst(Tail(s), x)
<1>1. Len(s) \in Nat \ {0} /\ 1 \in 1..Len(s) /\ s[1] \in S
  <2>1. Len(s) \in Nat \ {0}
    BY EmptySeq
  <2> QED BY <2>1, ElementOfSeq
<1> DEFINE t == Tail(s)
<1>2. /\ t \in Seq(S) /\ Len(t) = Len(s) - 1
      /\ \A m \in 1..(Len(s) - 1) : t[m] = s[m + 1]
  BY HeadTailProperties
<1> HIDE DEF t
<1>3. ASSUME NEW u \in Seq(S)
      PROVE  /\ <<s[1]>> \o u \in Seq(S) /\ Len(<<s[1]>> \o u) = Len(u) + 1
             /\ \A m \in 1..(Len(u) + 1) :
                  (<<s[1]>> \o u)[m] = IF m = 1 THEN s[1] ELSE u[m - 1]
  <2>1. Len(u) \in Nat
    BY LenProperties
  <2>2. <<s[1]>> \in Seq(S) /\ Len(<<s[1]>>) = 1 /\ <<s[1]>>[1] = s[1]
    BY <1>1
  <2>3. /\ <<s[1]>> \o u \in Seq(S)
        /\ Len(<<s[1]>> \o u) = Len(<<s[1]>>) + Len(u)
        /\ \A m \in 1..(Len(<<s[1]>>) + Len(u)) : (<<s[1]>> \o u)[m] =
             IF m <= Len(<<s[1]>>) THEN <<s[1]>>[m] ELSE u[m - Len(<<s[1]>>)]
    BY <2>2, ConcatProperties
  <2>4. 1 + Len(u) = Len(u) + 1 /\ \A m \in 1..(Len(u) + 1) : m <= 1 <=> m = 1
    BY <2>1, SMTT(60)
  <2> QED BY <2>2, <2>3, <2>4
<1>4. CASE \A m \in 1..Len(s) : s[m] # x
  <2>1. \A m \in 1..Len(t) : t[m] # x
    BY <1>1, <1>2, <1>4
  <2>2. RemoveFirst(s, x) = s /\ RemoveFirst(t, x) = t
    BY <1>4, <2>1, RemoveFirstAbsent
  <2>3. s = <<s[1]>> \o t
    <3> DEFINE v == <<s[1]>> \o t
    <3>1. /\ v \in Seq(S) /\ Len(v) = Len(s)
          /\ \A m \in 1..Len(s) : v[m] = IF m = 1 THEN s[1] ELSE t[m - 1]
      BY <1>1, <1>2, <1>3
    <3> HIDE DEF v
    <3>2. \A m \in 1..Len(s) : v[m] = s[m]
      BY <1>1, <1>2, <3>1
    <3>3. v = s
      BY <3>1, <3>2, SeqEqual
    <3> QED BY <3>3 DEF v
  <2> QED BY <1>2, <2>2, <2>3 DEF t
<1>5. CASE \E m \in 1..Len(s) : s[m] = x
  <2> DEFINE T == {m \in 1..Len(s) : s[m] = x}
  <2>1. T \in SUBSET Nat /\ T # {}
    BY <1>1, <1>5
  <2>2. PICK k \in T : \A m \in T : k <= m
    <3> HIDE DEF T
    <3> QED BY <2>1, LeastNumber
  <2>3. /\ k \in 1..Len(s) /\ s[k] = x /\ k # 1
        /\ \A m \in 1..(k - 1) : s[m] # x
    <3>1. \A m \in 1..(k - 1) : m \in 1..Len(s) /\ ~(k <= m)
      BY <1>1
    <3> QED BY <2>2, <3>1
  <2>4. PICK j \in 1..Len(t) :
          j = k - 1 /\ t[j] = x /\ \A m \in 1..(j - 1) : t[m] # x
    BY <1>1, <1>2, <2>3
  <2> DEFINE r == RemoveFirst(s, x)
             u == RemoveFirst(t, x)
             v == <<s[1]>> \o u
  <2>5. /\ r \in Seq(S) /\ Len(r) = Len(s) - 1
        /\ \A m \in 1..(Len(s) - 1) : r[m] = IF m < k THEN s[m] ELSE s[m + 1]
    BY <2>3, RemoveFirstAt
  <2>6. /\ u \in Seq(S) /\ Len(u) = Len(t) - 1
        /\ \A m \in 1..(Len(t) - 1) :
             u[m] = IF m < j THEN t[m] ELSE t[m + 1]
    <3>1. t \in Seq(S)
      BY <1>2
    <3>2. t[j] = x
      BY <2>4
    <3>3. \A m \in 1..(j - 1) : t[m] # x
      BY <2>4
    <3> QED BY <3>1, <3>2, <3>3, RemoveFirstAt, ZenonT(60)
  <2>7. /\ v \in Seq(S) /\ Len(v) = Len(u) + 1
        /\ \A m \in 1..(Len(u) + 1) : v[m] = IF m = 1 THEN s[1] ELSE u[m - 1]
    <3> HIDE DEF u
    <3> QED BY <1>3, <2>6
  <2> HIDE DEF r, u, v
  <2>8. Len(r) = Len(v)
    BY <1>1, <1>2, <2>5, <2>6, <2>7
  <2>9. ASSUME NEW m \in 1..Len(r)
        PROVE  r[m] = v[m]
    <3>1. CASE m = 1
      BY <1>1, <1>2, <2>3, <2>5, <2>6, <2>7, <3>1
    <3>2. CASE m # 1
      <4>1. /\ m \in 1..(Len(s) - 1) /\ m \in 1..(Len(u) + 1)
            /\ m - 1 \in 1..(Len(t) - 1)
            /\ m - 1 \in 1..(Len(s) - 1) /\ m - 1 + 1 = m
        BY <1>1, <1>2, <2>5, <2>6, <3>2
      <4>2. v[m] = IF m - 1 < k - 1 THEN t[m - 1] ELSE t[m]
        BY <3>2, <4>1, <2>4, <2>6, <2>7
      <4>3. t[m - 1] = s[m] /\ t[m] = s[m + 1]
        BY <4>1, <1>2
      <4>4. m - 1 < k - 1 <=> m < k
        BY <2>3, <4>1
      <4> QED BY <2>5, <4>1, <4>2, <4>3, <4>4
    <3> QED BY <3>1, <3>2
  <2>10. r = v
    BY <2>5, <2>7, <2>8, <2>9, SeqEqual
  <2> QED BY <2>6, <2>10 DEF r, u, v, t
<1> QED BY <1>4, <1>5

-------------------------------------------------------------------------------
(* A walk starts at first and follows field while it is at one of the cells; *)
(* at[k] is where it is after k steps.                                       *)
IsWalk(at, Cells, first, field, end) ==
  at = [k \in 0..Cardinality(Cells) |->
          IF k = 0 THEN first
          ELSE IF at[k - 1] \in Cells THEN field[at[k - 1]] ELSE end]

(* The pointers lead from first through the cells of s, once, to end.        *)
Leads(s, Cells, first, field, end) ==
  /\ IsFiniteSet(Cells) /\ s \in Seq(Cells) /\ end \notin Cells
  /\ \A k, m \in 1..Len(s) : s[k] = s[m] => k = m
  /\ first = IF 0 < Len(s) THEN s[1] ELSE end
  /\ \A k \in 1..Len(s) : field[s[k]] = IF k < Len(s) THEN s[k + 1] ELSE end

(* A sequence without repetition has no more entries than there are cells.   *)
LEMMA NoLongerThanCells ==
  ASSUME NEW Cells, IsFiniteSet(Cells), NEW s \in Seq(Cells),
         \A k, m \in 1..Len(s) : s[k] = s[m] => k = m
  PROVE  Len(s) <= Cardinality(Cells)
<1>1. s \in [1..Len(s) -> Cells] /\ Len(s) \in Nat
  BY LenProperties
<1>2. s \in Injection(1..Len(s), Cells)
  BY <1>1 DEF Injection, IsInjective
<1>3. Cardinality(1..Len(s)) <= Cardinality(Cells)
  BY <1>2, FS_Injection
<1>4. Cardinality(1..Len(s)) = IF 1 > Len(s) THEN 0 ELSE Len(s) - 1 + 1
  <2>1. 1 \in Int /\ Len(s) \in Int
    BY <1>1
  <2> QED BY <2>1, FS_Interval
<1> QED BY <1>1, <1>3, <1>4

(* There is a walk, and so CHOOSE in its recursive definition finds one.     *)
LEMMA WalkExists ==
  ASSUME NEW Cells, NEW s, NEW first, NEW field, NEW end,
         Leads(s, Cells, first, field, end)
  PROVE  \E at : IsWalk(at, Cells, first, field, end)
<1> DEFINE N == Cardinality(Cells)
           g == [k \in 0..N |-> IF k < Len(s) THEN s[k + 1] ELSE end]
<1>1. Len(s) \in Nat /\ N \in Nat /\ DOMAIN s = 1..Len(s)
  BY LenProperties, FS_CardinalityType DEF Leads
<1>2. \A k \in 1..Len(s) : s[k] \in Cells
  BY ElementOfSeq DEF Leads
<1>3. ASSUME NEW k \in 0..N
      PROVE  g[k] = IF k = 0 THEN first
                    ELSE IF g[k - 1] \in Cells THEN field[g[k - 1]] ELSE end
  <2>1. CASE k = 0
    BY <1>1, <2>1 DEF Leads
  <2>2. CASE k # 0 /\ k - 1 < Len(s)
    <3>1. k - 1 \in 0..N /\ k \in 1..Len(s) /\ k - 1 + 1 = k
      BY <1>1, <2>2
    <3>2. g[k - 1] = s[k]
      BY <3>1, <2>2
    <3>3. g[k] = IF k < Len(s) THEN s[k + 1] ELSE end
      OBVIOUS
    <3> HIDE DEF g
    <3> QED BY <1>2, <2>2, <3>1, <3>2, <3>3 DEF Leads
  <2>3. CASE k # 0 /\ ~(k - 1 < Len(s))
    <3>1. k - 1 \in 0..N /\ ~(k < Len(s))
      BY <1>1, <2>3
    <3>2. g[k - 1] = end /\ g[k] = end
      BY <3>1, <2>3
    <3> HIDE DEF g
    <3> QED BY <2>3, <3>2 DEF Leads
  <2> QED BY <2>1, <2>2, <2>3
<1>4. IsWalk(g, Cells, first, field, end)
  <2>1. g = [k \in 0..N |-> g[k]]
    OBVIOUS
  <2> HIDE DEF g
  <2> QED BY <1>3, <2>1 DEF IsWalk
<1> QED BY <1>4

(* Every walk along these pointers meets exactly the cells of s, in order.   *)
LEMMA WalkMeets ==
  ASSUME NEW Cells, NEW s, NEW first, NEW field, NEW end, NEW at,
         Leads(s, Cells, first, field, end),
         IsWalk(at, Cells, first, field, end)
  PROVE  [k \in 1..Cardinality({m \in 0..Cardinality(Cells) : at[m] \in Cells})
            |-> at[k - 1]] = s
<1> DEFINE N == Cardinality(Cells)
           Right(k) == at[k] = IF k < Len(s) THEN s[k + 1] ELSE end
           Wrong == {k \in 0..N : ~Right(k)}
<1>1. Len(s) \in Nat /\ N \in Nat /\ DOMAIN s = 1..Len(s)
  BY LenProperties, FS_CardinalityType DEF Leads
<1>2. \A k \in 1..Len(s) : s[k] \in Cells
  BY ElementOfSeq DEF Leads
<1>3. Len(s) <= N
  BY NoLongerThanCells DEF Leads
<1>4. Wrong = {}
  <2> SUFFICES ASSUME Wrong # {} PROVE FALSE
    OBVIOUS
  <2>1. Wrong \in SUBSET Nat
    BY <1>1
  <2>2. PICK k \in Wrong : \A m \in Wrong : k <= m
    <3> HIDE DEF Wrong
    <3> QED BY <2>1, LeastNumber
  <2>3. k \in 0..N /\ ~Right(k)
    OBVIOUS
  <2>4. k # 0
    BY <1>1, <2>3 DEF IsWalk, Leads
  <2>5. k - 1 \in 0..N /\ k - 1 + 1 = k
    BY <1>1, <2>3, <2>4
  <2>6. Right(k - 1)
    <3>1. ~(k <= k - 1)
      BY <2>3, <1>1
    <3>2. k - 1 \notin Wrong
      BY <2>2, <3>1
    <3> QED BY <2>5, <3>2
  <2>7. at[k] = IF at[k - 1] \in Cells THEN field[at[k - 1]] ELSE end
    BY <2>3, <2>4 DEF IsWalk
  <2>8. CASE k - 1 < Len(s)
    <3>1. k \in 1..Len(s) /\ at[k - 1] = s[k]
      BY <1>1, <2>3, <2>4, <2>5, <2>6, <2>8
    <3>2. at[k] = field[s[k]]
      BY <1>2, <2>7, <3>1
    <3> QED BY <2>3, <3>1, <3>2 DEF Leads
  <2>9. CASE ~(k - 1 < Len(s))
    <3>1. at[k - 1] = end /\ ~(k < Len(s))
      BY <1>1, <2>3, <2>6, <2>9
    <3> QED BY <2>3, <2>7, <3>1 DEF Leads
  <2> QED BY <2>8, <2>9
<1>5. \A k \in 0..N : Right(k)
  BY <1>4
<1>6. {m \in 0..N : at[m] \in Cells} = 0..(Len(s) - 1)
  <2>1. ASSUME NEW m \in 0..N
        PROVE  at[m] \in Cells <=> m < Len(s)
    <3>1. CASE m < Len(s)
      <4>1. m + 1 \in 1..Len(s)
        BY <1>1, <3>1
      <4> QED BY <1>2, <1>5, <3>1, <4>1
    <3>2. CASE ~(m < Len(s))
      BY <1>5, <3>2 DEF Leads
    <3> QED BY <3>1, <3>2
  <2> QED BY <1>1, <1>3, <2>1
<1>7. Cardinality(0..(Len(s) - 1)) = Len(s)
  <2>1. 0 \in Int /\ Len(s) - 1 \in Int
    BY <1>1
  <2>2. Cardinality(0..(Len(s) - 1)) =
          IF 0 > Len(s) - 1 THEN 0 ELSE Len(s) - 1 - 0 + 1
    BY <2>1, FS_Interval
  <2> QED BY <1>1, <2>2
<1>8. ASSUME NEW k \in 1..Len(s)
      PROVE  at[k - 1] = s[k]
  <2>1. k - 1 \in 0..N /\ k - 1 < Len(s) /\ k - 1 + 1 = k
    BY <1>1, <1>3
  <2> QED BY <1>5, <2>1
<1>9. s = [k \in 1..Len(s) |-> s[k]]
  BY LenProperties DEF Leads
<1> QED BY <1>6, <1>7, <1>8, <1>9
===============================================================================
