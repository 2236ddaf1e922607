---------------------------- MODULE MiniGrepProofs ----------------------------
(***************************************************************************)
(* Proofs about MiniGrep for any file tree, any number of threads, both     *)
(* ways of load balancing and any deletions: no two threads ever have work  *)
(* in common, the queues and results that are used without a lock are used  *)
(* by one thread only, and both searches count the same.                    *)
(*                                                                          *)
(* What a search has still to look at is a set of paths, each standing for  *)
(* the part of the tree below it.  The argument is that these parts never   *)
(* overlap, and that together with what was counted they hold every file.   *)
(***************************************************************************)
EXTENDS MiniGrep, SequenceTheorems, FunctionTheorems, FiniteSetTheorems, TLAPS

(* The part of a file tree that a search started at p comes to: the smallest *)
(* set with p and what the directories in it list.                           *)
Entries(f, p) == IF p \in f.denied THEN {} ELSE f.children[p]

SearchClosed(f, S) == \A x \in S : Entries(f, x) \subseteq S

Below(f, p) ==
  {x \in Paths : \A S \in SUBSET Paths : p \in S /\ SearchClosed(f, S) => x \in S}

(* The files whose tokens count.                                             *)
Searchable(f) == {x \in Paths : f.kind[x] = "reg" /\ x \notin f.denied}

-------------------------------------------------------------------------------
(* File trees.                                                               *)

(* What IsFileTree says of the entries.                                      *)
LEMMA EntriesOfTree ==
  ASSUME NEW f \in FileTrees
  PROVE  /\ \A p \in Paths : Entries(f, p) \subseteq Paths \ {Root}
         /\ \A p \in Paths : Entries(f, p) \subseteq f.children[p]
         /\ \A p, q \in Paths : \A x : x \in Entries(f, p) /\ x \in Entries(f, q) => p = q
         /\ \A p \in Paths : f.kind[p] # "dir" => Entries(f, p) = {}
<1>1. IsFileTree(f)
  BY TreeAssumption
<1>2. /\ f.children \in [Paths -> SUBSET (Paths \ {Root})]
      /\ \A p \in Paths : f.kind[p] # "dir" => f.children[p] = {}
      /\ \A p, q \in Paths : p # q => f.children[p] \cap f.children[q] = {}
  BY <1>1 DEF IsFileTree
<1> QED BY <1>2 DEF Entries

(* A path is below itself, with its entries and what is below these.         *)
LEMMA BelowBasics ==
  ASSUME NEW f \in FileTrees, NEW p \in Paths
  PROVE  /\ p \in Below(f, p) /\ Below(f, p) \subseteq Paths
         /\ SearchClosed(f, Below(f, p))
         /\ \A S \in SUBSET Paths : p \in S /\ SearchClosed(f, S) => Below(f, p) \subseteq S
         /\ \A c \in Below(f, p) : Below(f, c) \subseteq Below(f, p)
         /\ \A c \in Entries(f, p) : Below(f, c) \subseteq Below(f, p)
<1>1. p \in Below(f, p) /\ Below(f, p) \subseteq Paths
  BY DEF Below
<1>2. \A S \in SUBSET Paths : p \in S /\ SearchClosed(f, S) => Below(f, p) \subseteq S
  BY DEF Below
<1>3. ASSUME NEW x \in Below(f, p), NEW c \in Entries(f, x)
      PROVE  c \in Below(f, p)
  <2>1. x \in Paths /\ c \in Paths
    BY <1>1, EntriesOfTree
  <2>2. ASSUME NEW S \in SUBSET Paths, p \in S, SearchClosed(f, S)
        PROVE  c \in S
    BY <1>2, <2>2 DEF SearchClosed
  <2> QED BY <2>1, <2>2 DEF Below
<1>4. SearchClosed(f, Below(f, p))
  BY <1>3 DEF SearchClosed
<1>5. ASSUME NEW c \in Below(f, p)
      PROVE  Below(f, c) \subseteq Below(f, p)
  BY <1>1, <1>4 DEF Below
<1>6. \A c \in Entries(f, p) : c \in Below(f, p)
  BY <1>1, <1>3
<1> QED BY <1>1, <1>2, <1>4, <1>5, <1>6

(* What is below a path, other than itself, is an entry of something there,  *)
(* and below one of its own entries.                                         *)
LEMMA BelowSplits ==
  ASSUME NEW f \in FileTrees, NEW p \in Paths, NEW x \in Below(f, p), x # p
  PROVE  /\ \E q \in Below(f, p) : x \in Entries(f, q)
         /\ \E c \in Entries(f, p) : x \in Below(f, c)
<1>1. /\ p \in Below(f, p) /\ Below(f, p) \subseteq Paths /\ SearchClosed(f, Below(f, p))
      /\ \A S \in SUBSET Paths : p \in S /\ SearchClosed(f, S) => Below(f, p) \subseteq S
  BY BelowBasics
<1>2. \E q \in Below(f, p) : x \in Entries(f, q)
  <2> DEFINE S == {y \in Below(f, p) : y = p \/ \E q \in Below(f, p) : y \in Entries(f, q)}
  <2>1. S \in SUBSET Paths /\ p \in S
    BY <1>1
  <2>2. SearchClosed(f, S)
    BY <1>1 DEF SearchClosed
  <2>3. x \in S
    <3> HIDE DEF S
    <3> QED BY <1>1, <2>1, <2>2
  <2> QED BY <2>3
<1>3. \E c \in Entries(f, p) : x \in Below(f, c)
  <2> DEFINE S == {y \in Paths : y = p \/ \E c \in Entries(f, p) : y \in Below(f, c)}
  <2>1. S \in SUBSET Paths /\ p \in S
    OBVIOUS
  <2>2. ASSUME NEW y \in S, NEW z \in Entries(f, y)
        PROVE  z \in S
    <3>1. y \in Paths /\ z \in Paths
      BY EntriesOfTree
    <3>2. CASE y = p
      BY <3>1, <3>2, BelowBasics
    <3>3. CASE \E c \in Entries(f, p) : y \in Below(f, c)
      <4>1. PICK c \in Entries(f, p) : y \in Below(f, c)
        BY <3>3
      <4>2. c \in Paths
        BY EntriesOfTree
      <4>3. z \in Below(f, c)
        BY <4>1, <4>2, BelowBasics DEF SearchClosed
      <4> QED BY <3>1, <4>3
    <3> QED BY <3>2, <3>3
  <2>3. SearchClosed(f, S)
    BY <2>2 DEF SearchClosed
  <2>4. x \in S
    <3> HIDE DEF S
    <3> QED BY <1>1, <2>1, <2>3
  <2> QED BY <2>4
<1> QED BY <1>2, <1>3

(* No search that starts at the root comes back to where it was.             *)
LEMMA NoCycles ==
  ASSUME NEW f \in FileTrees, NEW p \in Below(f, Root), NEW c \in Entries(f, p)
  PROVE  p \notin Below(f, c)
<1> DEFINE S == {x \in Paths : \A d \in Entries(f, x) : x \notin Below(f, d)}
<1>1. Root \in S
  <2>1. ASSUME NEW d \in Entries(f, Root)
        PROVE  Root \notin Below(f, d)
    <3>1. d \in Paths \ {Root} /\ Root \in Paths
      BY TreeAssumption, EntriesOfTree
    <3>2. SearchClosed(f, Paths \ {Root})
      BY EntriesOfTree DEF SearchClosed
    <3> QED BY <3>1, <3>2, BelowBasics
  <2> QED BY <2>1, TreeAssumption
<1>2. ASSUME NEW x \in S, NEW y \in Entries(f, x)
      PROVE  y \in S
  <2>1. x \in Paths /\ y \in Paths
    BY EntriesOfTree
  <2>2. ASSUME NEW d \in Entries(f, y), y \in Below(f, d)
        PROVE  FALSE
    <3>1. d \in Paths
      BY <2>1, EntriesOfTree
    <3>2. x \in Below(f, d)
      <4>1. CASE y = d
        BY <2>1, <2>2, <3>1, <4>1, EntriesOfTree
      <4>2. CASE y # d
        <5>1. PICK q \in Below(f, d) : y \in Entries(f, q)
          BY <2>2, <3>1, <4>2, BelowSplits
        <5>2. q = x
          BY <2>1, <3>1, <5>1, BelowBasics, EntriesOfTree
        <5> QED BY <5>1, <5>2
      <4> QED BY <4>1, <4>2
    <3>3. Below(f, d) \subseteq Below(f, y)
      BY <2>1, BelowBasics
    <3> QED BY <3>2, <3>3
  <2> QED BY <2>1, <2>2
<1>3. SearchClosed(f, S) /\ S \in SUBSET Paths
  BY <1>2 DEF SearchClosed
<1>4. p \in S
  <2> HIDE DEF S
  <2> QED BY <1>1, <1>3, TreeAssumption, BelowBasics
<1> QED BY <1>4

(* ... nor finds anything below two entries of a directory.                  *)
LEMMA EntriesApart ==
  ASSUME NEW f \in FileTrees, NEW p \in Below(f, Root),
         NEW c \in Entries(f, p), NEW d \in Entries(f, p), c # d
  PROVE  Below(f, c) \cap Below(f, d) = {}
<1>1. p \in Paths /\ c \in Paths /\ d \in Paths
  BY TreeAssumption, BelowBasics, EntriesOfTree
<1>2. p \notin Below(f, c) /\ p \notin Below(f, d)
  BY NoCycles
<1> DEFINE S == Below(f, c) \ Below(f, d)
<1>3. c \in S
  <2>1. c \in Below(f, c)
    BY <1>1, BelowBasics
  <2>2. ASSUME c \in Below(f, d)
        PROVE  FALSE
    <3>1. PICK q \in Below(f, d) : c \in Entries(f, q)
      BY <1>1, <2>2, BelowSplits
    <3>2. q = p
      BY <1>1, <3>1, BelowBasics, EntriesOfTree
    <3> QED BY <1>2, <3>1, <3>2
  <2> QED BY <2>1, <2>2
<1>4. ASSUME NEW y \in S, NEW z \in Entries(f, y)
      PROVE  z \in S
  <2>1. y \in Paths /\ z \in Below(f, c)
    BY <1>1, BelowBasics DEF SearchClosed
  <2>2. ASSUME z \in Below(f, d)
        PROVE  FALSE
    <3>1. CASE z = d
      <4>1. y = p
        BY <1>1, <2>1, <3>1, EntriesOfTree
      <4> QED BY <1>2, <4>1
    <3>2. CASE z # d
      <4>1. PICK q \in Below(f, d) : z \in Entries(f, q)
        BY <1>1, <2>2, <3>2, BelowSplits
      <4>2. q = y
        BY <1>1, <2>1, <4>1, BelowBasics, EntriesOfTree
      <4> QED BY <4>1, <4>2
    <3> QED BY <3>1, <3>2
  <2> QED BY <2>1, <2>2
<1>5. SearchClosed(f, S) /\ S \in SUBSET Paths
  BY <1>1, <1>4, BelowBasics DEF SearchClosed
<1>6. Below(f, c) \subseteq S
  <2> HIDE DEF S
  <2> QED BY <1>1, <1>3, <1>5, BelowBasics
<1> QED BY <1>6

(* Nothing is below what is not a directory, or cannot be opened.            *)
LEMMA NothingBelow ==
  ASSUME NEW f \in FileTrees, NEW p \in Paths, Entries(f, p) = {}
  PROVE  Below(f, p) = {p}
BY BelowSplits, BelowBasics

-------------------------------------------------------------------------------
(* Queues of paths.                                                          *)

(* What is below the paths of a queue.                                       *)
Cover(f, s) == UNION {Below(f, s[k]) : k \in 1..Len(s)}

(* Nothing is below two of them.                                             *)
Spread(f, s) ==
  \A k, m \in 1..Len(s) : k # m => Below(f, s[k]) \cap Below(f, s[m]) = {}

(* The elements of a queue.                                                  *)
LEMMA QueueBasics ==
  ASSUME NEW s \in Seq(Paths)
  PROVE  /\ Len(s) \in Nat /\ DOMAIN s = 1..Len(s)
         /\ \A k \in 1..Len(s) : s[k] \in Paths
BY LenProperties, ElementOfSeq

(* The empty queue.                                                          *)
LEMMA EmptyQueue ==
  ASSUME NEW f
  PROVE  /\ <<>> \in Seq(Paths) /\ Len(<<>>) = 0 /\ Cover(f, <<>>) = {}
         /\ Spread(f, <<>>)
<1>1. <<>> \in Seq(Paths) /\ Len(<<>>) = 0
  BY EmptySeq
<1>2. 1..Len(<<>>) = {}
  BY <1>1
<1> QED BY <1>1, <1>2 DEF Cover, Spread

(* A queue covers its elements.                                              *)
LEMMA CoversElements ==
  ASSUME NEW f \in FileTrees, NEW s \in Seq(Paths)
  PROVE  /\ \A k \in 1..Len(s) : s[k] \in Cover(f, s) /\ Below(f, s[k]) \subseteq Cover(f, s)
         /\ Cover(f, s) \subseteq Paths
<1>1. \A k \in 1..Len(s) : s[k] \in Below(f, s[k]) /\ Below(f, s[k]) \subseteq Paths
  BY QueueBasics, BelowBasics
<1> QED BY <1>1 DEF Cover

(* remove_element: the first path leaves.                                    *)
LEMMA QueueRemoves ==
  ASSUME NEW f \in FileTrees, NEW s \in Seq(Paths), s # <<>>, Spread(f, s)
  PROVE  /\ Head(s) \in Paths /\ Tail(s) \in Seq(Paths) /\ Spread(f, Tail(s))
         /\ Below(f, Head(s)) \cap Cover(f, Tail(s)) = {}
         /\ Cover(f, s) = Below(f, Head(s)) \cup Cover(f, Tail(s))
         /\ 1 \in 1..Len(s) /\ Head(s) = s[1]
         /\ \A k \in 1..Len(Tail(s)) : \E m \in 1..Len(s) : Tail(s)[k] = s[m]
<1> DEFINE t == Tail(s)
<1>1. Len(s) \in Nat /\ Len(s) # 0
  BY EmptySeq, LenProperties
<1>2. /\ Head(s) \in Paths /\ t \in Seq(Paths) /\ Len(t) = Len(s) - 1 /\ Head(s) = s[1]
      /\ \A k \in 1..(Len(s) - 1) : t[k] = s[k + 1]
  <2>1. 1 \in 1..Len(s)
    BY <1>1
  <2> QED BY <2>1, HeadTailProperties, ElementOfSeq
<1> HIDE DEF t
<1>3. /\ \A k \in 1..Len(t) : k + 1 \in 1..Len(s) /\ k + 1 # 1 /\ t[k] = s[k + 1]
      /\ \A k \in 1..Len(s) : k # 1 => k - 1 \in 1..Len(t) /\ t[k - 1] = s[k]
  <2>1. \A k \in 1..Len(t) : k + 1 \in 1..Len(s) /\ k + 1 # 1 /\ t[k] = s[k + 1]
    BY <1>1, <1>2
  <2>2. ASSUME NEW k \in 1..Len(s), k # 1
        PROVE  k - 1 \in 1..Len(t) /\ t[k - 1] = s[k]
    <3>1. k - 1 \in 1..(Len(s) - 1) /\ (k - 1) + 1 = k
      BY <1>1, <2>2
    <3> QED BY <1>2, <3>1
  <2> QED BY <2>1, <2>2
<1>4. 1 \in 1..Len(s)
  BY <1>1
<1>5. Spread(f, t)
  <2> SUFFICES ASSUME NEW k \in 1..Len(t), NEW m \in 1..Len(t), k # m
               PROVE  Below(f, t[k]) \cap Below(f, t[m]) = {}
    BY DEF Spread
  <2>1. k + 1 # m + 1
    OBVIOUS
  <2> QED BY <1>3, <2>1 DEF Spread
<1>6. Below(f, Head(s)) \cap Cover(f, t) = {}
  <2>1. \A k \in 1..Len(t) : Below(f, s[1]) \cap Below(f, t[k]) = {}
    BY <1>3, <1>4 DEF Spread
  <2> QED BY <1>2, <2>1 DEF Cover
<1>7. Cover(f, s) = Below(f, Head(s)) \cup Cover(f, t)
  <2>1. Cover(f, s) \subseteq Below(f, Head(s)) \cup Cover(f, t)
    BY <1>2, <1>3 DEF Cover
  <2>2. Below(f, Head(s)) \cup Cover(f, t) \subseteq Cover(f, s)
    BY <1>2, <1>3, <1>4 DEF Cover
  <2> QED BY <2>1, <2>2
<1> QED BY <1>2, <1>3, <1>4, <1>5, <1>6, <1>7 DEF t

(* insert_element: paths join at the end.                                    *)
LEMMA QueueInserts ==
  ASSUME NEW f \in FileTrees, NEW s \in Seq(Paths), NEW t \in Seq(Paths),
         Spread(f, s), Spread(f, t), Cover(f, s) \cap Cover(f, t) = {}
  PROVE  /\ s \o t \in Seq(Paths) /\ Spread(f, s \o t)
         /\ Cover(f, s \o t) = Cover(f, s) \cup Cover(f, t)
<1> DEFINE u == s \o t
<1>1. Len(s) \in Nat /\ Len(t) \in Nat
  BY LenProperties
<1>2. /\ u \in Seq(Paths) /\ Len(u) = Len(s) + Len(t)
      /\ \A k \in 1..(Len(s) + Len(t)) :
           u[k] = IF k <= Len(s) THEN s[k] ELSE t[k - Len(s)]
  BY ConcatProperties
<1> HIDE DEF u
<1>3. \A k \in 1..Len(u) :
        \/ k \in 1..Len(s) /\ u[k] = s[k]
        \/ k - Len(s) \in 1..Len(t) /\ u[k] = t[k - Len(s)] /\ k \notin 1..Len(s)
  BY <1>1, <1>2
<1>4. \A k \in 1..Len(s) : k \in 1..Len(u) /\ u[k] = s[k]
  BY <1>1, <1>2
<1>5. ASSUME NEW k \in 1..Len(t)
      PROVE  k + Len(s) \in 1..Len(u) /\ u[k + Len(s)] = t[k]
  <2>1. k + Len(s) \in 1..Len(u) /\ ~(k + Len(s) <= Len(s)) /\ (k + Len(s)) - Len(s) = k
    BY <1>1, <1>2
  <2> QED BY <1>2, <2>1
<1>6. Cover(f, u) = Cover(f, s) \cup Cover(f, t)
  <2>1. Cover(f, u) \subseteq Cover(f, s) \cup Cover(f, t)
    BY <1>3 DEF Cover
  <2>2. Cover(f, s) \cup Cover(f, t) \subseteq Cover(f, u)
    BY <1>4, <1>5 DEF Cover
  <2> QED BY <2>1, <2>2
<1>7. Spread(f, u)
  <2> SUFFICES ASSUME NEW k \in 1..Len(u), NEW m \in 1..Len(u), k # m
               PROVE  Below(f, u[k]) \cap Below(f, u[m]) = {}
    BY DEF Spread
  <2>1. CASE k \in 1..Len(s) /\ m \in 1..Len(s)
    BY <1>4, <2>1 DEF Spread
  <2>2. CASE k \in 1..Len(s) /\ m \notin 1..Len(s)
    BY <1>3, <2>2 DEF Cover
  <2>3. CASE k \notin 1..Len(s) /\ m \in 1..Len(s)
    BY <1>3, <2>3 DEF Cover
  <2>4. CASE k \notin 1..Len(s) /\ m \notin 1..Len(s)
    <3>1. k - Len(s) # m - Len(s)
      BY <1>1, <1>2
    <3> QED BY <1>3, <2>4, <3>1 DEF Spread
  <2> QED BY <2>1, <2>2, <2>3, <2>4
<1> QED BY <1>2, <1>6, <1>7 DEF u

(* insert_element of a single path.                                          *)
LEMMA QueueAppends ==
  ASSUME NEW f \in FileTrees, NEW s \in Seq(Paths), NEW x \in Paths,
         Spread(f, s), Cover(f, s) \cap Below(f, x) = {}
  PROVE  /\ Append(s, x) \in Seq(Paths) /\ Spread(f, Append(s, x))
         /\ Cover(f, Append(s, x)) = Cover(f, s) \cup Below(f, x)
         /\ \A k \in 1..Len(Append(s, x)) :
              \/ k \in 1..Len(s) /\ Append(s, x)[k] = s[k]
              \/ Append(s, x)[k] = x
<1> DEFINE u == Append(s, x)
<1>1. Len(s) \in Nat
  BY LenProperties
<1>2. /\ u \in Seq(Paths) /\ Len(u) = Len(s) + 1 /\ u[Len(s) + 1] = x
      /\ \A k \in 1..Len(s) : u[k] = s[k]
  BY AppendProperties
<1> HIDE DEF u
<1>3. \A k \in 1..Len(u) : \/ k \in 1..Len(s) /\ u[k] = s[k]
                           \/ k = Len(s) + 1 /\ u[k] = x
  BY <1>1, <1>2
<1>4. \A k \in 1..Len(s) : k \in 1..Len(u)
  BY <1>1, <1>2
<1>5. Len(s) + 1 \in 1..Len(u)
  BY <1>1, <1>2
<1>6. Cover(f, u) = Cover(f, s) \cup Below(f, x)
  <2>1. Cover(f, u) \subseteq Cover(f, s) \cup Below(f, x)
    BY <1>3 DEF Cover
  <2>2. Cover(f, s) \cup Below(f, x) \subseteq Cover(f, u)
    BY <1>2, <1>4, <1>5 DEF Cover
  <2> QED BY <2>1, <2>2
<1>7. Spread(f, u)
  <2> SUFFICES ASSUME NEW k \in 1..Len(u), NEW m \in 1..Len(u), k # m
               PROVE  Below(f, u[k]) \cap Below(f, u[m]) = {}
    BY DEF Spread
  <2>1. CASE k \in 1..Len(s) /\ m \in 1..Len(s)
    BY <1>2, <2>1 DEF Spread
  <2>2. CASE k \in 1..Len(s) /\ m \notin 1..Len(s)
    BY <1>3, <2>2 DEF Cover
  <2>3. CASE k \notin 1..Len(s) /\ m \in 1..Len(s)
    BY <1>3, <2>3 DEF Cover
  <2> QED BY <1>3, <2>1, <2>2, <2>3
<1> QED BY <1>2, <1>3, <1>6, <1>7 DEF u

(* Queue s falls into a, of length n, and b.                                 *)
Split(f, s, n, a, b) ==
  /\ a \in Seq(Paths) /\ Spread(f, a) /\ b \in Seq(Paths) /\ Spread(f, b)
  /\ Cover(f, a) \cap Cover(f, b) = {}
  /\ Cover(f, s) = Cover(f, a) \cup Cover(f, b)
  /\ Len(b) = Len(s) - n
  /\ \A k \in 1..Len(a) : \E m \in 1..Len(s) : a[k] = s[m]
  /\ \A k \in 1..Len(b) : \E m \in 1..Len(s) : b[k] = s[m]

(* The distribution: the first n paths go to a thread.                       *)
LEMMA QueueSplits ==
  ASSUME NEW f \in FileTrees, NEW s \in Seq(Paths), Spread(f, s),
         NEW n \in 0..Len(s)
  PROVE  Split(f, s, n, SubSeq(s, 1, n), SubSeq(s, n + 1, Len(s)))
<1> DEFINE a == SubSeq(s, 1, n)
           b == SubSeq(s, n + 1, Len(s))
<1>1. Len(s) \in Nat /\ n \in Nat /\ \A k \in 1..Len(s) : s[k] \in Paths
  BY QueueBasics
<1>2. /\ a \in Seq(Paths) /\ Len(a) = n
      /\ \A k \in 1..n : a[k] = s[k]
  <2>1. \A k \in 1..n : s[k] \in Paths
    BY <1>1
  <2>2. /\ a \in Seq(Paths) /\ Len(a) = IF 1 <= n THEN n - 1 + 1 ELSE 0
        /\ \A k \in 1..(n - 1 + 1) : a[k] = s[1 + k - 1]
    BY <1>1, <2>1, SubSeqProperties
  <2> HIDE DEF a
  <2>3. \A k \in 1..n : k \in 1..(n - 1 + 1) /\ 1 + k - 1 = k
    BY <1>1
  <2> QED BY <1>1, <2>2, <2>3
<1>3. /\ b \in Seq(Paths) /\ Len(b) = Len(s) - n
      /\ \A k \in 1..(Len(s) - n) : b[k] = s[k + n]
  <2>1. \A k \in (n + 1)..Len(s) : s[k] \in Paths
    BY <1>1
  <2>2. /\ b \in Seq(Paths)
        /\ Len(b) = IF n + 1 <= Len(s) THEN Len(s) - (n + 1) + 1 ELSE 0
        /\ \A k \in 1..(Len(s) - (n + 1) + 1) : b[k] = s[(n + 1) + k - 1]
    BY <1>1, <2>1, SubSeqProperties
  <2> HIDE DEF b
  <2>3. \A k \in 1..(Len(s) - n) :
          k \in 1..(Len(s) - (n + 1) + 1) /\ (n + 1) + k - 1 = k + n
    BY <1>1
  <2>4. Len(b) = Len(s) - n
    BY <1>1, <2>2
  <2> QED BY <2>2, <2>3, <2>4
<1> HIDE DEF a, b
<1>4. \A k \in 1..Len(a) : k \in 1..Len(s) /\ a[k] = s[k] /\ k <= n
  BY <1>1, <1>2
<1>5. \A k \in 1..Len(b) : k + n \in 1..Len(s) /\ b[k] = s[k + n] /\ ~(k + n <= n)
  BY <1>1, <1>3
<1>6. ASSUME NEW k \in 1..Len(s)
      PROVE  \/ k \in 1..Len(a) /\ a[k] = s[k]
             \/ k - n \in 1..Len(b) /\ b[k - n] = s[k]
  <2>1. CASE k <= n
    BY <1>1, <1>2, <2>1
  <2>2. CASE ~(k <= n)
    <3>1. k - n \in 1..(Len(s) - n) /\ (k - n) + n = k
      BY <1>1, <2>2
    <3> QED BY <1>3, <3>1
  <2> QED BY <2>1, <2>2
<1>7. Spread(f, a)
  BY <1>4 DEF Spread
<1>8. Spread(f, b)
  <2> SUFFICES ASSUME NEW k \in 1..Len(b), NEW m \in 1..Len(b), k # m
               PROVE  Below(f, b[k]) \cap Below(f, b[m]) = {}
    BY DEF Spread
  <2>1. k + n # m + n
    BY <1>1
  <2> QED BY <1>5, <2>1 DEF Spread
<1>9. Cover(f, a) \cap Cover(f, b) = {}
  <2> SUFFICES ASSUME NEW k \in 1..Len(a), NEW m \in 1..Len(b)
               PROVE  Below(f, a[k]) \cap Below(f, b[m]) = {}
    BY SMTT(60) DEF Cover
  <2> QED BY <1>4, <1>5 DEF Spread
<1>10. Cover(f, s) = Cover(f, a) \cup Cover(f, b)
  <2>1. Cover(f, s) \subseteq Cover(f, a) \cup Cover(f, b)
    BY <1>6 DEF Cover
  <2>2. Cover(f, a) \cup Cover(f, b) \subseteq Cover(f, s)
    BY <1>4, <1>5 DEF Cover
  <2> QED BY <2>1, <2>2
<1>11. /\ \A k \in 1..Len(a) : \E m \in 1..Len(s) : a[k] = s[m]
       /\ \A k \in 1..Len(b) : \E m \in 1..Len(s) : b[k] = s[m]
  BY <1>4, <1>5
<1>12. Split(f, s, n, a, b)
  BY <1>2, <1>3, <1>7, <1>8, <1>9, <1>10, <1>11 DEF Split
<1> QED BY <1>12 DEF a, b

(* No queue grows beyond the file tree.                                      *)
LEMMA QueueBounded ==
  ASSUME NEW f \in FileTrees, NEW s \in Seq(Paths), Spread(f, s)
  PROVE  Len(s) <= Cardinality(Paths)
<1>1. Len(s) \in Nat /\ s \in [1..Len(s) -> Paths]
  BY LenProperties
<1>2. \A k, m \in 1..Len(s) : s[k] = s[m] => k = m
  <2> SUFFICES ASSUME NEW k \in 1..Len(s), NEW m \in 1..Len(s), s[k] = s[m], k # m
               PROVE  FALSE
    OBVIOUS
  <2>1. s[k] \in Below(f, s[k]) \cap Below(f, s[m])
    BY QueueBasics, BelowBasics
  <2> QED BY <2>1 DEF Spread
<1>3. s \in Injection(1..Len(s), Paths)
  BY <1>1, <1>2, Fun_IsInj
<1>4. Cardinality(1..Len(s)) <= Cardinality(Paths)
  BY <1>3, FS_Injection, TreeAssumption
<1>5. Cardinality(1..Len(s)) = Len(s)
  BY <1>1, FS_Interval
<1> QED BY <1>4, <1>5

-------------------------------------------------------------------------------
(* Counting.  The number of hits in a set of files is the number of its      *)
(* matching tokens, each of which is known by its file and its number there. *)
Tokens(f, X) == {z \in Paths \X Nat : z[1] \in X /\ z[2] \in 1..f.hits[z[1]]}

Total(f, X) == Cardinality(Tokens(f, X))

(* The tokens of a file.                                                     *)
LEMMA TokensOfFile ==
  ASSUME NEW f \in FileTrees, NEW x \in Paths
  PROVE  IsFiniteSet(Tokens(f, {x})) /\ Total(f, {x}) = f.hits[x] /\ f.hits[x] \in Nat
<1> DEFINE n == f.hits[x]
<1>1. n \in Nat
  BY TreeAssumption DEF IsFileTree
<1>2. Tokens(f, {x}) = {x} \X (1..n)
  BY <1>1 DEF Tokens
<1> HIDE DEF n
<1>3. IsFiniteSet({x}) /\ Cardinality({x}) = 1
  BY FS_Singleton
<1>4. IsFiniteSet(1..n) /\ Cardinality(1..n) = n
  BY <1>1, FS_Interval
<1>5. IsFiniteSet({x} \X (1..n)) /\ Cardinality({x} \X (1..n)) = 1 * n
  <2> DEFINE I == 1..n
             X == {x}
  <2>1. IsFiniteSet(X) /\ IsFiniteSet(I) /\ Cardinality(X) = 1 /\ Cardinality(I) = n
    BY <1>3, <1>4
  <2> HIDE DEF I, X
  <2>2. /\ IsFiniteSet(X \X I)
        /\ Cardinality(X \X I) = Cardinality(X) * Cardinality(I)
    BY <2>1, FS_Product
  <2> QED BY <2>1, <2>2 DEF I, X
<1>6. 1 * n = n
  BY <1>1
<1> QED BY <1>1, <1>2, <1>5, <1>6 DEF Total, n

(* There are finitely many in a file tree.                                   *)
LEMMA TokensFinite ==
  ASSUME NEW f \in FileTrees, NEW X \in SUBSET Paths
  PROVE  IsFiniteSet(Tokens(f, X)) /\ Total(f, X) \in Nat
<1> DEFINE g == [x \in Paths |-> Tokens(f, {x})]
           R == {g[x] : x \in Paths}
<1>1. g \in [Paths -> R] /\ \A y \in R : \E x \in Paths : g[x] = y
  OBVIOUS
<1>2. \A T \in R : IsFiniteSet(T)
  BY TokensOfFile
<1>3. Tokens(f, X) \subseteq UNION R
  <2> SUFFICES ASSUME NEW z \in Tokens(f, X)
               PROVE  z \in g[z[1]] /\ z[1] \in Paths
    OBVIOUS
  <2> QED BY DEF Tokens
<1> HIDE DEF g, R
<1>4. g \in Surjection(Paths, R)
  BY <1>1, Fun_IsSurj
<1>5. IsFiniteSet(R)
  BY <1>4, FS_Surjection, TreeAssumption
<1>6. IsFiniteSet(UNION R)
  BY <1>2, <1>5, FS_UNION
<1>7. IsFiniteSet(Tokens(f, X))
  BY <1>3, <1>6, FS_Subset
<1> QED BY <1>7, FS_CardinalityType DEF Total

(* Files that are counted apart add up.                                      *)
LEMMA TotalAdds ==
  ASSUME NEW f \in FileTrees, NEW X \in SUBSET Paths, NEW Y \in SUBSET Paths,
         X \cap Y = {}
  PROVE  Total(f, X \cup Y) = Total(f, X) + Total(f, Y)
<1>1. Tokens(f, X \cup Y) = Tokens(f, X) \cup Tokens(f, Y)
  BY DEF Tokens
<1>2. Tokens(f, X) \cap Tokens(f, Y) = {}
  BY DEF Tokens
<1>3. Cardinality(Tokens(f, X) \cup Tokens(f, Y)) =
        Cardinality(Tokens(f, X)) + Cardinality(Tokens(f, Y)) - Cardinality({})
  BY <1>2, TokensFinite, FS_Union
<1>4. Total(f, X) \in Nat /\ Total(f, Y) \in Nat /\ Cardinality({}) = 0
  BY TokensFinite, FS_EmptySet
<1>5. Total(f, X \cup Y) = Total(f, X) + Total(f, Y) - 0
  BY <1>1, <1>3, <1>4 DEF Total
<1> QED BY <1>4, <1>5

(* ... and fewer files do not have more hits.                                *)
LEMMA TotalGrows ==
  ASSUME NEW f \in FileTrees, NEW Y \in SUBSET Paths, NEW X \in SUBSET Y
  PROVE  Total(f, X) <= Total(f, Y)
<1>1. Tokens(f, X) \subseteq Tokens(f, Y)
  BY DEF Tokens
<1> QED BY <1>1, TokensFinite, FS_Subset DEF Total

(* No files, no hits.                                                        *)
LEMMA TotalOfNone ==
  ASSUME NEW f
  PROVE  Total(f, {}) = 0
<1>1. Tokens(f, {}) = {}
  BY DEF Tokens
<1> QED BY <1>1, FS_EmptySet DEF Total

-------------------------------------------------------------------------------
(* What a directory lists.                                                   *)

(* What is there has its directories there.                                  *)
PresentInv ==
  \A p \in Paths : \A c \in tree.children[p] : c \in present => p \in present

(* If something below p is there, so is p.                                   *)
LEMMA PresentAbove ==
  ASSUME tree \in FileTrees, PresentInv, NEW p \in Paths, NEW x \in Below(tree, p),
         x \in present
  PROVE  p \in present
<1> DEFINE S == {y \in Paths : y \in present => p \in present}
<1>1. p \in S /\ S \in SUBSET Paths
  OBVIOUS
<1>2. SearchClosed(tree, S)
  <2> SUFFICES ASSUME NEW y \in S, NEW z \in Entries(tree, y)
               PROVE  z \in S
    BY DEF SearchClosed
  <2>1. z \in Paths /\ z \in tree.children[y]
    BY EntriesOfTree
  <2> QED BY <2>1 DEF PresentInv
<1>3. x \in S
  <2> HIDE DEF S
  <2> QED BY <1>1, <1>2, BelowBasics
<1> QED BY <1>3

(* The entries in some order.                                                *)
LEMMA OrderOfSet ==
  ASSUME NEW S \in SUBSET Paths, NEW s \in SetToSeqs(S)
  PROVE  /\ s \in Seq(Paths) /\ \A k \in 1..Len(s) : s[k] \in S
         /\ \A k, m \in 1..Len(s) : k # m => s[k] # s[m]
         /\ \A x \in S : \E k \in 1..Len(s) : s[k] = x
<1> DEFINE n == Cardinality(S)
<1>1. IsFiniteSet(S) /\ n \in Nat
  BY TreeAssumption, FS_Subset, FS_CardinalityType
<1>2. s \in [1..n -> S] /\ \A i, j \in 1..n : i # j => s[i] # s[j]
  BY DEF SetToSeqs
<1>3. s \in [1..n -> Paths]
  BY <1>2
<1>4. s \in Seq(Paths) /\ Len(s) = n
  <2> HIDE DEF n
  <2> QED BY <1>1, <1>3, SeqDef
<1>5. s \in Injection(1..n, S)
  BY <1>2, Fun_IsInj
<1>6. Cardinality(1..n) = n
  BY <1>1, FS_Interval
<1>7. s \in Surjection(1..n, S)
  BY <1>1, <1>5, <1>6, FS_Injection
<1>8. \A x \in S : \E k \in 1..n : s[k] = x
  BY <1>7 DEF Surjection
<1> QED BY <1>2, <1>4, <1>8

(* opendir and readdir_r: the entries are apart, below the directory, and    *)
(* all that is there below it is the directory or below one of them.         *)
LEMMA ListingsApart ==
  ASSUME tree \in FileTrees, PresentInv, NEW p \in Below(tree, Root),
         NEW s \in Listings(p)
  PROVE  /\ s \in Seq(Paths) /\ Spread(tree, s)
         /\ Cover(tree, s) \subseteq Below(tree, p)
         /\ p \notin Cover(tree, s)
         /\ \A x \in Below(tree, p) :
              x \in present /\ x # p => x \in Cover(tree, s)
<1>1. p \in Paths
  BY TreeAssumption, BelowBasics
<1>2. CASE p \in present \ tree.denied
  <2> DEFINE S == tree.children[p] \cap present
  <2>1. Entries(tree, p) = tree.children[p] /\ S \in SUBSET Paths
    BY <1>1, <1>2, EntriesOfTree DEF Entries
  <2>2. s \in SetToSeqs(S)
    BY <1>2 DEF Listings
  <2>3. /\ s \in Seq(Paths) /\ \A k \in 1..Len(s) : s[k] \in S
        /\ \A k, m \in 1..Len(s) : k # m => s[k] # s[m]
        /\ \A x \in S : \E k \in 1..Len(s) : s[k] = x
    BY <2>1, <2>2, OrderOfSet
  <2>4. \A k \in 1..Len(s) : s[k] \in Entries(tree, p)
    BY <2>1, <2>3
  <2>5. Spread(tree, s)
    BY <2>3, <2>4, EntriesApart DEF Spread
  <2>6. \A k \in 1..Len(s) :
          Below(tree, s[k]) \subseteq Below(tree, p) /\ p \notin Below(tree, s[k])
    BY <1>1, <2>4, BelowBasics, NoCycles
  <2>7. ASSUME NEW x \in Below(tree, p), x \in present, x # p
        PROVE  x \in Cover(tree, s)
    <3>1. PICK c \in Entries(tree, p) : x \in Below(tree, c)
      BY <1>1, <2>7, BelowSplits
    <3>2. c \in S
      <4>1. c \in Paths
        BY <1>1, EntriesOfTree
      <4> QED BY <2>1, <2>7, <3>1, <4>1, PresentAbove
    <3> QED BY <2>3, <3>1, <3>2 DEF Cover
  <2> QED BY <2>3, <2>5, <2>6, <2>7 DEF Cover
<1>3. CASE p \notin present \ tree.denied
  <2>1. s = <<>>
    BY <1>3 DEF Listings
  <2>2. ASSUME NEW x \in Below(tree, p), x \in present, x # p
        PROVE  FALSE
    <3>1. p \in present
      BY <1>1, <2>2, PresentAbove
    <3>2. Entries(tree, p) = {}
      BY <1>3, <3>1 DEF Entries
    <3> QED BY <1>1, <2>2, <3>2, NothingBelow
  <2> QED BY <2>1, <2>2, EmptyQueue
<1> QED BY <1>2, <1>3

-------------------------------------------------------------------------------
(* The invariant.                                                            *)

Points == {"idle", "loop", "dir", "reg", "insert", "finished"}

GType ==
  /\ tree \in FileTrees /\ present \subseteq Paths
  /\ mode \in Modes /\ round \in 0..2
  /\ mpc \in {"serial", "start", "create", "join", "tally", "done", "exited",
              "crashed"}
  /\ queue \in Seq(Paths) /\ queue_files \in Seq(Paths)
  /\ created \in 0..NUM_THREADS /\ items_per_thread \in Nat
  /\ mutex_shared \in Threads \cup {Nobody}
  /\ RESULTS \in [Threads -> Nat] /\ num_occurrences \in Nat
  /\ tpc \in [Workers -> Points] /\ tqueue \in [Workers -> Seq(Paths)]
  /\ element \in [Workers -> Paths] /\ count \in [Workers -> Nat]

(* In this round the threads search; in the other they look for files.       *)
SearchRound == mode = "static" \/ round = 2

(* Where main() is, who runs and which queues are empty then.  The elements  *)
(* still to be handed out fit into the shares of the threads to come; the    *)
(* threads that are joined, and those of the first round, have ended.        *)
PhaseInv ==
  /\ mpc = "serial" <=> round = 0
  /\ mpc = "start" => round = 1
  /\ mode = "static" => round # 2 /\ queue_files = <<>>
  /\ round = 2 => queue = <<>>
  /\ mpc # "serial" => tpc[Main] = "finished"
  /\ mpc \in {"serial", "start"} =>
       queue = <<>> /\ queue_files = <<>> /\ \A t \in Threads : tpc[t] = "idle"
  /\ mpc = "create" => \A t \in Threads :
       t >= created => tpc[t] = IF round = 2 THEN "finished" ELSE "idle"
  /\ mpc = "join" => \A t \in Threads : t < created => tpc[t] = "finished"
  /\ mpc = "create" => Len(source) <= items_per_thread * (NUM_THREADS - created)
  /\ mpc \in {"join", "tally", "done"} =>
       queue = <<>> /\ (SearchRound => queue_files = <<>>)
  /\ mpc \in {"tally", "done"} =>
       SearchRound /\ \A t \in Threads : tpc[t] = "finished"
  /\ mpc = "done" => created = NUM_THREADS
  /\ \A w \in Workers : tpc[w] \in {"idle", "finished"} => tqueue[w] = <<>>

(* What a thread does with a path fits its type, and only files are in       *)
(* SHARED.queue_files and handed out in the second round.                    *)
KindInv ==
  /\ \A w \in Workers :
       /\ tpc[w] = "dir" => tree.kind[element[w]] = "dir"
       /\ tpc[w] \in {"reg", "insert"} => tree.kind[element[w]] = "reg"
  /\ \A k \in 1..Len(queue_files) : tree.kind[queue_files[k]] = "reg"
  /\ round = 2 => \A t \in Threads : \A k \in 1..Len(tqueue[t]) :
                    tree.kind[tqueue[t][k]] = "reg"

(* What is left for a worker to look at: below the path in its hands, and    *)
(* below those in its queue.                                                 *)
Hand(w) == IF tpc[w] \in {"dir", "reg", "insert"} THEN Below(tree, element[w]) ELSE {}
Load(w) == Cover(tree, tqueue[w]) \cup Hand(w)

(* The parallel search's pools of work: the threads', the main thread's      *)
(* queue and SHARED.queue_files.                                             *)
MainPool == NUM_THREADS
FilePool == NUM_THREADS + 1
Pools == 0..(NUM_THREADS + 1)
Pool(h) == IF h = MainPool THEN Cover(tree, queue)
           ELSE IF h = FilePool THEN Cover(tree, queue_files) ELSE Load(h)
Pending == UNION {Pool(h) : h \in Pools}

(* Nothing is in two pools, or twice in one.                                 *)
ApartInv ==
  /\ Spread(tree, queue) /\ Spread(tree, queue_files)
  /\ \A w \in Workers :
       Spread(tree, tqueue[w]) /\ Cover(tree, tqueue[w]) \cap Hand(w) = {}
  /\ Load(Main) \subseteq Below(tree, Root)
  /\ \A h \in Pools : Pool(h) \subseteq Below(tree, Root)
  /\ \A g, h \in Pools : g # h => Pool(g) \cap Pool(h) = {}

(* The files below the root that count.                                      *)
Wanted == Searchable(tree) \cap Below(tree, Root)

(* The serial search has counted the files M; what it has not and is there   *)
(* it will come to.                                                          *)
MainCounted(M) ==
  /\ M \subseteq Wanted /\ M \cap Load(Main) = {}
  /\ count[Main] = Total(tree, M)
  /\ \A x \in Wanted : x \in present => x \in M \cup Load(Main)

(* Thread t is still to be created for this round or the one to come.         *)
Fresh(t) == mpc \in {"serial", "start"} \/ (mpc = "create" /\ t >= created)

(* Thread t has searched its share of the files.                             *)
Ended(t) ==
  /\ mpc \in {"create", "join", "tally", "done"} /\ ~Fresh(t)
  /\ SearchRound /\ tpc[t] = "finished"

(* Thread t has counted A[t], files that the serial search has counted and   *)
(* no other thread has; what none has counted and is there one will come to. *)
ThreadsCounted(M, A) ==
  /\ A \in [Threads -> SUBSET M]
  /\ \A t, u \in Threads : t # u => A[t] \cap A[u] = {}
  /\ \A t \in Threads : A[t] \cap Pending = {}
  /\ \A t \in Threads : count[t] = Total(tree, A[t])
  /\ \A t \in Threads : Fresh(t) \/ ~SearchRound => A[t] = {}
  /\ \A t \in Threads : Ended(t) => RESULTS[t] = count[t]
  /\ mpc \notin {"tally", "done"} => num_occurrences = 0
  /\ mpc \in {"tally", "done"} =>
       num_occurrences = Total(tree, UNION {A[t] : t \in 0..(created - 1)})
  /\ tree.kind[Root] = "dir" /\ mpc \notin {"serial", "start", "crashed"} =>
       \A x \in Wanted : x \in present => x \in Pending \/ \E t \in Threads : x \in A[t]
  /\ tree.kind[Root] # "dir" => Pending = {} /\ \A t \in Threads : A[t] = {}

CountInv == \E M \in SUBSET Paths : MainCounted(M) /\
              \E A \in [Threads -> SUBSET M] : ThreadsCounted(M, A)

GInv == GType /\ PresentInv /\ PhaseInv /\ KindInv /\ ApartInv /\ CountInv

(* Pools of work that never overlap: work moves from g to h, N of it is done *)
(* and leaves.                                                               *)
Moves(S, P, Q, B, g, h, N, V) ==
  /\ g \in S /\ h \in S
  /\ \A j \in S : P[j] \subseteq B
  /\ \A i, j \in S : i # j => P[i] \cap P[j] = {}
  /\ \A j \in S : j # g /\ j # h => Q[j] = P[j]
  /\ Q[g] \cup Q[h] \subseteq P[g] \cup P[h]
  /\ g # h => Q[g] \cap Q[h] = {}
  /\ N \subseteq P[g] \cup P[h] /\ N \cap (Q[g] \cup Q[h]) = {}
  /\ \A x \in V : x \in P[g] \cup P[h] => x \in Q[g] \cup Q[h] \cup N

(* Afterwards they do not overlap either, and nothing of V was dropped.      *)
Moved(S, P, Q, B, N, V) ==
  /\ \A j \in S : Q[j] \subseteq B
  /\ \A i, j \in S : i # j => Q[i] \cap Q[j] = {}
  /\ UNION {Q[j] : j \in S} \subseteq UNION {P[j] : j \in S}
  /\ N \subseteq UNION {P[j] : j \in S}
  /\ N \cap UNION {Q[j] : j \in S} = {}
  /\ \A x \in V : x \in UNION {P[j] : j \in S} =>
                    x \in UNION {Q[j] : j \in S} \/ x \in N

(* The two ends of a move.                                                   *)
LEMMA PoolsMove ==
  ASSUME NEW S, NEW P, NEW Q, NEW B, NEW g, NEW h, NEW N, NEW V,
         Moves(S, P, Q, B, g, h, N, V)
  PROVE  Moved(S, P, Q, B, N, V)
<1> USE DEF Moves
<1>1. \A j \in S : Q[j] \subseteq B
  OBVIOUS
<1>2. ASSUME NEW i \in S, NEW j \in S, i # j
      PROVE  Q[i] \cap Q[j] = {}
  <2>1. CASE i \in {g, h} /\ j \in {g, h}
    BY <1>2, <2>1
  <2>2. CASE i \in {g, h} /\ j \notin {g, h}
    BY <1>2, <2>2
  <2>3. CASE i \notin {g, h} /\ j \in {g, h}
    BY <1>2, <2>3
  <2>4. CASE i \notin {g, h} /\ j \notin {g, h}
    BY <1>2, <2>4
  <2> QED BY <2>1, <2>2, <2>3, <2>4
<1>3. ASSUME NEW j \in S, NEW x \in Q[j]
      PROVE  x \in UNION {P[i] : i \in S} /\ x \notin N
  <2>1. CASE j \in {g, h}
    BY <1>3, <2>1
  <2>2. CASE j \notin {g, h}
    BY <1>3, <2>2
  <2> QED BY <2>1, <2>2
<1>4. ASSUME NEW x \in V, NEW j \in S, x \in P[j]
      PROVE  x \in UNION {Q[i] : i \in S} \/ x \in N
  <2>1. CASE j \in {g, h}
    BY <1>4, <2>1
  <2>2. CASE j \notin {g, h}
    BY <1>4, <2>2
  <2> QED BY <2>1, <2>2
<1> QED BY <1>1, <1>2, <1>3, <1>4 DEF Moved

(* Who is who.                                                               *)
LEMMA Numbers ==
  /\ NUM_THREADS \in Nat \ {0}
  /\ Threads \subseteq Nat /\ Main \notin Threads /\ Workers = Threads \cup {Main}
  /\ MainPool \notin Threads /\ FilePool \notin Threads /\ MainPool # FilePool
  /\ Pools = Threads \cup {MainPool, FilePool}
  /\ Main \notin Pools
  /\ \A t \in Threads : t \in Workers /\ t # Main /\ t \in Pools /\ Pool(t) = Load(t)
  /\ Pool(MainPool) = Cover(tree, queue) /\ Pool(FilePool) = Cover(tree, queue_files)
<1>1. NUM_THREADS \in Nat \ {0}
  BY SizesAssumption
<1>2. /\ Threads \subseteq Nat /\ Main \notin Threads /\ Workers = Threads \cup {Main}
      /\ MainPool \notin Threads /\ FilePool \notin Threads /\ MainPool # FilePool
      /\ Main \notin Pools
  BY <1>1 DEF Threads, Main, Workers, MainPool, FilePool, Pools
<1>3. Pools = Threads \cup {MainPool, FilePool}
  BY <1>1 DEF Threads, MainPool, FilePool, Pools
<1>4. /\ \A t \in Threads : t \in Workers /\ t # Main /\ t \in Pools /\ Pool(t) = Load(t)
      /\ Pool(MainPool) = Cover(tree, queue) /\ Pool(FilePool) = Cover(tree, queue_files)
  BY <1>2, <1>3 DEF Pool
<1> QED BY <1>1, <1>2, <1>3, <1>4

-------------------------------------------------------------------------------
(* One turn of the loop of a searching function.                             *)

(* Worker w has less to look at than before; the files N are done, and       *)
(* nothing else that is there and counts has been dropped.                   *)
Turn(w, N) ==
  /\ N \subseteq Load(w) \cap Wanted /\ N \subseteq present
  /\ Spread(tree, tqueue'[w]) /\ Cover(tree, tqueue'[w]) \cap Hand(w)' = {}
  /\ Load(w)' \subseteq Load(w) \ N
  /\ \A x \in Wanted : x \in present /\ x \in Load(w) => x \in Load(w)' \/ x \in N

(* What the invariant says of one worker.                                    *)
LEMMA WorkBasics ==
  ASSUME GType, ApartInv, NEW w \in Workers
  PROVE  /\ tree \in FileTrees /\ tqueue[w] \in Seq(Paths) /\ element[w] \in Paths
         /\ tpc[w] \in Points
         /\ Spread(tree, tqueue[w]) /\ Cover(tree, tqueue[w]) \cap Hand(w) = {}
         /\ Load(w) \subseteq Below(tree, Root) /\ Below(tree, Root) \subseteq Paths
         /\ \A p \in Paths : p \in Below(tree, p) /\ Below(tree, p) \subseteq Paths
<1>1. Load(w) \subseteq Below(tree, Root)
  BY Numbers DEF ApartInv
<1>2. tree \in FileTrees /\ Root \in Paths
  BY TreeAssumption DEF GType
<1> QED BY <1>1, <1>2, BelowBasics DEF ApartInv, GType

(* remove_element, lstat and the choice by type.                             *)
LEMMA NextElement ==
  ASSUME GType, PresentInv, ApartInv, NEW w \in Workers,
         NEW wanted \in SUBSET {"dir", "reg"}, next_element(w, wanted),
         \A k \in 1..Len(tqueue[w]) :
           tree.kind[tqueue[w][k]] \in {"dir", "reg"} => tree.kind[tqueue[w][k]] \in wanted
  PROVE  /\ Turn(w, {})
         /\ tqueue'[w] \in Seq(Paths) /\ element'[w] \in Paths
         /\ tpc'[w] \in {"loop", "dir", "reg"}
         /\ tpc'[w] \in {"dir", "reg"} => tpc'[w] \in wanted /\ tree.kind[element'[w]] = tpc'[w]
         /\ \A k \in 1..Len(tqueue'[w]) : \E m \in 1..Len(tqueue[w]) : tqueue'[w][k] = tqueue[w][m]
<1> DEFINE q == tqueue[w]
           p == Head(q)
<1>1. /\ tree \in FileTrees /\ q \in Seq(Paths) /\ Spread(tree, q)
      /\ Load(w) \subseteq Below(tree, Root) /\ Below(tree, Root) \subseteq Paths
  BY WorkBasics
<1>2. /\ tpc[w] = "loop" /\ q # <<>> /\ element'[w] = p /\ tqueue'[w] = Tail(q)
      /\ tpc'[w] = IF p \in present /\ tree.kind[p] \in wanted THEN tree.kind[p] ELSE "loop"
  BY DEF next_element, GType
<1>3. /\ p \in Paths /\ Tail(q) \in Seq(Paths) /\ Spread(tree, Tail(q))
      /\ Below(tree, p) \cap Cover(tree, Tail(q)) = {}
      /\ Cover(tree, q) = Below(tree, p) \cup Cover(tree, Tail(q))
      /\ 1 \in 1..Len(q) /\ p = q[1]
      /\ \A k \in 1..Len(Tail(q)) : \E m \in 1..Len(q) : Tail(q)[k] = q[m]
  BY <1>1, <1>2, QueueRemoves
<1>4. tree.kind[p] \in {"dir", "reg"} => tree.kind[p] \in wanted
  BY <1>3
<1> HIDE DEF q, p
<1>5. Load(w) = Cover(tree, q)
  BY <1>2 DEF Load, Hand, q
<1>6. CASE p \in present /\ tree.kind[p] \in wanted
  <2>1. tpc'[w] = tree.kind[p] /\ tpc'[w] \in {"dir", "reg"}
    BY <1>2, <1>6
  <2>2. tqueue'[w] = Tail(q) /\ element'[w] = p /\ Hand(w)' = Below(tree, p) 
    BY <1>2, <2>1 DEF Hand, next_element, fsVars
  <2>3. Load(w)' = Cover(tree, Tail(q)) \cup Below(tree, p)
    BY <2>2 DEF Load, next_element, fsVars
  <2>4. Turn(w, {})
    BY <1>3, <1>5, <2>2, <2>3 DEF Turn
  <2> QED BY <1>2, <1>3, <1>6, <2>1, <2>4 DEF q
<1>7. CASE ~(p \in present /\ tree.kind[p] \in wanted)
  <2>1. tpc'[w] = "loop" /\ tqueue'[w] = Tail(q) /\ Hand(w)' = {}
    BY <1>2, <1>7 DEF Hand
  <2>2. Load(w)' = Cover(tree, Tail(q))
    BY <2>1 DEF Load, next_element, fsVars
  <2>3. ASSUME NEW x \in Wanted, x \in present, x \in Below(tree, p)
        PROVE  FALSE
    <3>1. p \in present
      BY <1>1, <1>3, <2>3, PresentAbove
    <3>2. tree.kind[p] \notin {"dir", "reg"}
      BY <1>4, <1>7, <3>1
    <3>3. Entries(tree, p) = {}
      BY <1>1, <1>3, <3>2, EntriesOfTree
    <3>4. x = p
      BY <1>1, <1>3, <2>3, <3>3, NothingBelow
    <3> QED BY <3>2, <3>4 DEF Wanted, Searchable
  <2>4. Turn(w, {})
    BY <1>3, <1>5, <2>1, <2>2, <2>3 DEF Turn
  <2> QED BY <1>2, <1>3, <2>1, <2>4 DEF q
<1> QED BY <1>6, <1>7

(* opendir, readdir_r and the insertion of the entries.                      *)
LEMMA Descends ==
  ASSUME GType, PresentInv, KindInv, ApartInv, NEW w \in Workers, descend(w)
  PROVE  Turn(w, {}) /\ tqueue'[w] \in Seq(Paths) /\ tpc'[w] = "loop"
<1> DEFINE q == tqueue[w]
           p == element[w]
<1>1. /\ tree \in FileTrees /\ q \in Seq(Paths) /\ Spread(tree, q) /\ p \in Paths
      /\ Cover(tree, q) \cap Hand(w) = {}
      /\ Load(w) \subseteq Below(tree, Root) /\ p \in Below(tree, p)
  BY WorkBasics
<1>2. tpc[w] = "dir" /\ tpc'[w] = "loop" /\ tree.kind[p] = "dir"
  BY DEF descend, GType, KindInv
<1>3. PICK s \in Listings(p) : tqueue'[w] = q \o s
  BY DEF descend, GType
<1>4. Hand(w) = Below(tree, p) /\ Load(w) = Cover(tree, q) \cup Below(tree, p)
  BY <1>2 DEF Hand, Load
<1> HIDE DEF q, p
<1>5. p \in Below(tree, Root)
  BY <1>1, <1>4
<1>6. /\ s \in Seq(Paths) /\ Spread(tree, s)
      /\ Cover(tree, s) \subseteq Below(tree, p)
      /\ \A x \in Below(tree, p) : x \in present /\ x # p => x \in Cover(tree, s)
  BY <1>1, <1>5, ListingsApart
<1>7. Cover(tree, q) \cap Cover(tree, s) = {}
  BY <1>1, <1>4, <1>6
<1>8. /\ q \o s \in Seq(Paths) /\ Spread(tree, q \o s)
      /\ Cover(tree, q \o s) = Cover(tree, q) \cup Cover(tree, s)
  BY <1>1, <1>6, <1>7, QueueInserts
<1>9. Hand(w)' = {} /\ Load(w)' = Cover(tree, q \o s)
  BY <1>2, <1>3 DEF Hand, Load, descend, fsVars
<1>10. p \notin Wanted
  BY <1>2 DEF Wanted, Searchable
<1>11. Turn(w, {})
  BY <1>3, <1>4, <1>6, <1>8, <1>9, <1>10 DEF Turn
<1> QED BY <1>2, <1>3, <1>8, <1>11

(* fopen and the count of a file's matching tokens.                          *)
LEMMA SearchesFile ==
  ASSUME GType, PresentInv, KindInv, ApartInv, NEW w \in Workers, search_file(w)
  PROVE  \E N \in SUBSET Paths :
           /\ Turn(w, N) /\ tpc'[w] = "loop"
           /\ count' = [count EXCEPT ![w] = count[w] + Total(tree, N)]
<1> DEFINE p == element[w]
           N == IF p \in present \ tree.denied THEN {p} ELSE {}
<1>1. /\ tree \in FileTrees /\ tqueue[w] \in Seq(Paths) /\ Spread(tree, tqueue[w])
      /\ Cover(tree, tqueue[w]) \cap Hand(w) = {} /\ p \in Paths
      /\ Load(w) \subseteq Below(tree, Root)
  BY WorkBasics
<1>2. tpc[w] = "reg" /\ tpc'[w] = "loop" /\ tree.kind[p] = "reg"
  BY DEF search_file, GType, KindInv
<1>3. Entries(tree, p) = {}
  BY <1>1, <1>2, EntriesOfTree
<1>4. Below(tree, p) = {p}
  BY <1>1, <1>3, NothingBelow
<1>5. Hand(w) = {p} /\ Load(w) = Cover(tree, tqueue[w]) \cup {p}
  BY <1>2, <1>4 DEF Hand, Load
<1>6. Hand(w)' = {} /\ Load(w)' = Cover(tree, tqueue[w]) /\ tqueue' = tqueue
  BY <1>2 DEF Hand, Load, search_file, fsVars
<1>7. N \subseteq Load(w) \cap Wanted /\ N \subseteq present /\ N \in SUBSET Paths
  BY <1>1, <1>2, <1>5 DEF Wanted, Searchable
<1>8. \A x \in Wanted : x \in present /\ x = p => x \in N
  BY DEF Wanted, Searchable
<1>9. Turn(w, N)
  <2> HIDE DEF N, p
  <2>1. N \subseteq {p}
    BY DEF N
  <2> QED BY <1>1, <1>5, <1>6, <1>7, <1>8, <2>1 DEF Turn
<1>10. count' = [count EXCEPT ![w] = count[w] + Total(tree, N)]
  <2>1. CASE p \in present \ tree.denied
    <3>1. Total(tree, {p}) = tree.hits[p]
      BY <1>1, TokensOfFile
    <3> QED BY <2>1, <3>1 DEF search_file
  <2>2. CASE p \notin present \ tree.denied
    <3>1. Total(tree, {}) = 0
      BY TotalOfNone
    <3>2. count[w] \in Nat /\ count \in [Workers -> Nat]
      BY DEF GType
    <3>3. count' = count /\ N = {}
      BY <2>2 DEF search_file
    <3>4. count = [count EXCEPT ![w] = count[w] + 0]
      BY <3>2
    <3> QED BY <3>1, <3>3, <3>4
  <2> QED BY <2>1, <2>2
<1> HIDE DEF N
<1> QED BY <1>2, <1>7, <1>9, <1>10

(* The end of the loop.                                                      *)
LEMMA Finishes ==
  ASSUME GType, ApartInv, NEW w \in Workers, NEW results, finish(w, results)
  PROVE  Turn(w, {}) /\ tpc'[w] = "finished" /\ tqueue'[w] = <<>>
<1>1. tpc[w] = "loop" /\ tpc'[w] = "finished" /\ tqueue[w] = <<>> /\ tqueue' = tqueue
  BY DEF finish, GType
<1>2. Hand(w) = {} /\ Hand(w)' = {} /\ Load(w)' = Load(w)
  BY <1>1 DEF Hand, Load, finish, fsVars
<1>3. Spread(tree, tqueue[w])
  BY WorkBasics
<1> QED BY <1>1, <1>2, <1>3 DEF Turn

(* A file goes to SHARED.queue_files; a thread that locks keeps it.          *)
LEMMA InsertsFile ==
  ASSUME GType, KindInv, ApartInv, NEW t \in Threads,
         tpc[t] = "insert", tpc'[t] = "loop", tqueue' = tqueue, tree' = tree,
         queue_files' = Append(queue_files, element[t])
  PROVE  /\ Spread(tree, queue_files') /\ queue_files' \in Seq(Paths)
         /\ Spread(tree, tqueue'[t]) /\ Cover(tree, tqueue'[t]) \cap Hand(t)' = {}
         /\ Load(t)' \cap Cover(tree, queue_files') = {}
         /\ Load(t)' \cup Cover(tree, queue_files') = Load(t) \cup Cover(tree, queue_files)
         /\ \A k \in 1..Len(queue_files') : tree.kind[queue_files'[k]] = "reg"
<1> DEFINE p == element[t]
<1>1. t \in Workers /\ t \in Pools /\ FilePool \in Pools /\ t # FilePool
  BY Numbers
<1>2. /\ tree \in FileTrees /\ Spread(tree, tqueue[t])
      /\ Cover(tree, tqueue[t]) \cap Hand(t) = {} /\ p \in Paths
  BY <1>1, WorkBasics
<1>3. queue_files \in Seq(Paths) /\ Spread(tree, queue_files)
  BY DEF GType, ApartInv
<1>4. Load(t) \cap Cover(tree, queue_files) = {}
  <2>1. Pool(t) \cap Pool(FilePool) = {}
    BY <1>1 DEF ApartInv
  <2> QED BY <2>1, Numbers
<1>5. Hand(t) = Below(tree, p) /\ Load(t) = Cover(tree, tqueue[t]) \cup Below(tree, p)
  BY DEF Hand, Load
<1>6. Hand(t)' = {} /\ Load(t)' = Cover(tree, tqueue[t])
  BY DEF Hand, Load
<1>7. tree.kind[p] = "reg"
  BY <1>1 DEF KindInv
<1> HIDE DEF p
<1>8. /\ Append(queue_files, p) \in Seq(Paths) /\ Spread(tree, Append(queue_files, p))
      /\ Cover(tree, Append(queue_files, p)) = Cover(tree, queue_files) \cup Below(tree, p)
      /\ \A k \in 1..Len(Append(queue_files, p)) :
           \/ k \in 1..Len(queue_files) /\ Append(queue_files, p)[k] = queue_files[k]
           \/ Append(queue_files, p)[k] = p
  BY <1>2, <1>3, <1>4, <1>5, QueueAppends
<1>9. queue_files' = Append(queue_files, p)
  BY DEF p
<1>10. \A k \in 1..Len(queue_files') : tree.kind[queue_files'[k]] = "reg"
  BY <1>7, <1>8, <1>9 DEF KindInv
<1> QED BY <1>2, <1>4, <1>5, <1>6, <1>8, <1>9, <1>10

-------------------------------------------------------------------------------
(* What the turns do to the invariant.                                       *)

(* Work moves between the pools.                                             *)
LEMMA PoolStep ==
  ASSUME ApartInv, NEW g \in Pools, NEW h \in Pools, NEW N,
         \A j \in Pools : j # g /\ j # h => Pool(j)' = Pool(j),
         Pool(g)' \cup Pool(h)' \subseteq Pool(g) \cup Pool(h),
         g # h => Pool(g)' \cap Pool(h)' = {},
         N \subseteq Pool(g) \cup Pool(h), N \cap (Pool(g)' \cup Pool(h)') = {},
         \A x \in Wanted \cap present :
           x \in Pool(g) \cup Pool(h) => x \in Pool(g)' \cup Pool(h)' \cup N
  PROVE  /\ \A j \in Pools : Pool(j)' \subseteq Below(tree, Root)
         /\ \A i, j \in Pools : i # j => Pool(i)' \cap Pool(j)' = {}
         /\ Pending' \subseteq Pending /\ N \subseteq Pending /\ N \cap Pending' = {}
         /\ \A x \in Wanted \cap present : x \in Pending => x \in Pending' \/ x \in N
<1> DEFINE P == [j \in Pools |-> Pool(j)]
           Q == [j \in Pools |-> Pool(j)']
           B == Below(tree, Root)
           V == Wanted \cap present
<1>1. \A j \in Pools : P[j] = Pool(j) /\ Q[j] = Pool(j)'
  OBVIOUS
<1>2. /\ \A j \in Pools : P[j] \subseteq B
      /\ \A i, j \in Pools : i # j => P[i] \cap P[j] = {}
  BY DEF ApartInv
<1>3. /\ Pending = UNION {P[j] : j \in Pools}
      /\ Pending' = UNION {Q[j] : j \in Pools}
  BY <1>1 DEF Pending, Pools
<1> HIDE DEF P, Q, B, V
<1>4. Moves(Pools, P, Q, B, g, h, N, V)
  BY <1>1, <1>2 DEF Moves, V
<1>5. Moved(Pools, P, Q, B, N, V)
  BY <1>4, PoolsMove
<1> QED BY <1>1, <1>3, <1>5 DEF Moved, B, V

(* While threads run the serial search is over: what is there it has         *)
(* counted.                                                                  *)
LEMMA MainIsDone ==
  ASSUME PhaseInv, NEW M, MainCounted(M), mpc # "serial"
  PROVE  Load(Main) = {} /\ \A x \in Wanted : x \in present => x \in M
<1>1. tpc[Main] = "finished" /\ tqueue[Main] = <<>>
  BY Numbers DEF PhaseInv
<1>2. Load(Main) = {}
  BY <1>1, EmptyQueue DEF Load, Hand
<1> QED BY <1>2 DEF MainCounted

(* The files N, taken from the pools by thread t, are counted once.          *)
LEMMA ThreadCounts ==
  ASSUME GType, PhaseInv, CountInv, NEW t \in Threads, NEW N \in SUBSET Paths,
         mpc \in {"create", "join"}, tree' = tree, present' = present,
         mode' = mode, round' = round, mpc' = mpc, num_occurrences' = num_occurrences,
         Load(Main)' = Load(Main), count'[Main] = count[Main],
         N \subseteq Wanted, N \subseteq present,
         Pending' \subseteq Pending, N \subseteq Pending, N \cap Pending' = {},
         \A x \in Wanted \cap present : x \in Pending => x \in Pending' \/ x \in N,
         \A u \in Threads : u # t =>
           count'[u] = count[u] /\ tpc'[u] = tpc[u] /\ RESULTS'[u] = RESULTS[u],
         \A u \in Threads : u # t => (Fresh(u)' <=> Fresh(u)), ~Fresh(t)',
         count'[t] = (IF Fresh(t) THEN 0 ELSE count[t]) + Total(tree, N),
         N # {} => SearchRound,
         tpc'[t] = "finished" /\ SearchRound => RESULTS'[t] = count'[t]
  PROVE  CountInv'
<1>1. PICK M \in SUBSET Paths : MainCounted(M) /\
             \E A \in [Threads -> SUBSET M] : ThreadsCounted(M, A)
  BY DEF CountInv
<1>2. PICK A \in [Threads -> SUBSET M] : ThreadsCounted(M, A)
  BY <1>1
<1> DEFINE E == [A EXCEPT ![t] = A[t] \cup N]
<1>3. Load(Main) = {} /\ \A x \in Wanted : x \in present => x \in M
  BY <1>1, MainIsDone
<1>4. N \subseteq M
  BY <1>3
<1>5. E \in [Threads -> SUBSET M] /\ E[t] = A[t] \cup N /\ \A u \in Threads : u # t => E[u] = A[u]
  BY <1>2, <1>4
<1>6. Wanted' = Wanted
  BY DEF Wanted
<1>7. MainCounted(M)'
  BY <1>1, <1>6 DEF MainCounted
<1>8. N \cap A[t] = {} /\ \A u \in Threads : N \cap A[u] = {}
  BY <1>2 DEF ThreadsCounted
<1>9. count'[t] = Total(tree, E[t])
  <2>1. Total(tree, A[t] \cup N) = Total(tree, A[t]) + Total(tree, N)
    <3>1. tree \in FileTrees /\ A[t] \in SUBSET Paths
      BY <1>1, <1>2 DEF GType
    <3> QED BY <1>8, <3>1, TotalAdds
  <2>2. Total(tree, A[t]) = IF Fresh(t) THEN 0 ELSE count[t]
    BY <1>2, TotalOfNone DEF ThreadsCounted
  <2> QED BY <1>5, <2>1, <2>2
<1>10. SearchRound' = SearchRound
  BY DEF SearchRound
<1> HIDE DEF E
<1>11. \A u, v \in Threads : u # v => E[u] \cap E[v] = {}
  <2> SUFFICES ASSUME NEW u \in Threads, NEW v \in Threads, u # v
               PROVE  E[u] \cap E[v] = {}
    OBVIOUS
  <2>1. A[u] \cap A[v] = {} /\ A[t] \cap A[v] = A[v] \cap A[t]
    BY <1>2 DEF ThreadsCounted
  <2> QED BY <1>5, <1>8, <2>1
<1>12. \A u \in Threads : E[u] \cap Pending' = {}
  <2>1. \A u \in Threads : A[u] \cap Pending = {}
    BY <1>2 DEF ThreadsCounted
  <2> QED BY <1>5, <2>1
<1>13. \A u \in Threads : count'[u] = Total(tree, E[u])
  BY <1>2, <1>5, <1>9 DEF ThreadsCounted
<1>14. \A u \in Threads : Fresh(u)' \/ ~SearchRound => E[u] = {}
  <2>1. \A u \in Threads : Fresh(u) \/ ~SearchRound => A[u] = {}
    BY <1>2 DEF ThreadsCounted
  <2> QED BY <1>5, <2>1
<1>15. \A u \in Threads : Ended(u)' => RESULTS'[u] = count'[u]
  <2> SUFFICES ASSUME NEW u \in Threads, Ended(u)'
               PROVE  RESULTS'[u] = count'[u]
    OBVIOUS
  <2>1. SearchRound /\ tpc'[u] = "finished" /\ ~Fresh(u)'
    BY <1>10 DEF Ended
  <2>2. CASE u = t
    BY <2>1, <2>2
  <2>3. CASE u # t
    <3>1. Ended(u)
      BY <2>1, <2>3 DEF Ended
    <3> QED BY <1>2, <2>3, <3>1 DEF ThreadsCounted
  <2> QED BY <2>2, <2>3
<1>16. ASSUME tree.kind[Root] = "dir", NEW x \in Wanted, x \in present
       PROVE  x \in Pending' \/ \E u \in Threads : x \in E[u]
  <2>1. x \in Pending \/ \E u \in Threads : x \in A[u]
    BY <1>2, <1>16 DEF ThreadsCounted
  <2> QED BY <1>5, <1>16, <2>1
<1>17. tree.kind[Root] # "dir" => Pending' = {} /\ \A u \in Threads : E[u] = {}
  <2>1. tree.kind[Root] # "dir" => Pending = {} /\ \A u \in Threads : A[u] = {}
    BY <1>2 DEF ThreadsCounted
  <2> QED BY <1>5, <2>1
<1>18. num_occurrences = 0
  BY <1>2 DEF ThreadsCounted
<1>19. ThreadsCounted(M, E)'
  <2>1. mpc' \notin {"tally", "done", "serial", "start", "crashed"}
    OBVIOUS
  <2> QED BY <1>5, <1>6, <1>10, <1>11, <1>12, <1>13, <1>14, <1>15, <1>16, <1>17, <1>18, <2>1
          DEF ThreadsCounted
<1> QED BY <1>5, <1>7, <1>19 DEF CountInv

(* Only worker w has moved.                                                  *)
Elsewhere(w) ==
  \A u \in Workers : u # w =>
    /\ tpc'[u] = tpc[u] /\ tqueue'[u] = tqueue[u] /\ element'[u] = element[u]
    /\ count'[u] = count[u]

(* Where worker w is now, and what it has, fit together.                     *)
Fits(w) ==
  /\ tpc[w] \notin {"idle", "finished"} /\ tpc'[w] # "idle"
  /\ tpc'[w] = "finished" => tqueue'[w] = <<>>
  /\ tpc'[w] = "dir" => tree.kind[element'[w]] = "dir"
  /\ tpc'[w] \in {"reg", "insert"} => tree.kind[element'[w]] = "reg"
  /\ round = 2 /\ w # Main =>
       \A k \in 1..Len(tqueue'[w]) : tree.kind[tqueue'[w][k]] = "reg"

(* The others have what they had.                                            *)
LEMMA LoadElsewhere ==
  ASSUME NEW w, Elsewhere(w), tree' = tree, NEW u \in Workers, u # w
  PROVE  Load(u)' = Load(u) /\ Hand(u)' = Hand(u)
<1>1. Hand(u)' = Hand(u)
  BY DEF Hand, Elsewhere
<1> QED BY <1>1 DEF Load, Elsewhere

(* A thread runs between its creation and the return of main()'s join.       *)
LEMMA ThreadRuns ==
  ASSUME PhaseInv, Running, NEW t \in Threads, tpc[t] \notin {"idle", "finished"}
  PROVE  mpc \in {"create", "join"} /\ tpc[Main] = "finished"
BY DEF PhaseInv, Running

(* It is one of those that were created for this round.                      *)
LEMMA ThreadCreated ==
  ASSUME GInv, Running, NEW t \in Threads, tpc[t] \notin {"idle", "finished"}
  PROVE  ~Fresh(t) /\ (mpc = "create" => t < created) /\ (mpc = "join" => t >= created)
<1>1. PhaseInv /\ mpc \in {"create", "join"}
  BY ThreadRuns DEF GInv
<1>2. t \in Nat /\ created \in Nat
  BY Numbers DEF GInv, GType
<1>3. mpc = "create" => ~(t >= created)
  BY <1>1 DEF PhaseInv
<1>4. mpc = "join" => ~(t < created)
  BY <1>1 DEF PhaseInv
<1> QED BY <1>1, <1>2, <1>3, <1>4 DEF Fresh

(* The parts of the invariant that do not speak of pools, after a turn of a  *)
(* thread.                                                                   *)
LEMMA ThreadPhase ==
  ASSUME GInv, NEW t \in Threads, Running, Elsewhere(t), Fits(t),
         UNCHANGED <<fsVars, mainVars>>,
         mode = "static" \/ round = 2 => queue_files' = queue_files,
         \A k \in 1..Len(queue_files') : tree.kind[queue_files'[k]] = "reg"
  PROVE  PresentInv' /\ PhaseInv' /\ KindInv'
<1>1. mpc \in {"create", "join"} /\ tpc[Main] = "finished" /\ t \in Workers /\ t # Main
  BY ThreadRuns, Numbers DEF GInv, Fits
<1>2. /\ tree' = tree /\ present' = present /\ mode' = mode /\ mpc' = mpc /\ round' = round
      /\ queue' = queue /\ created' = created /\ items_per_thread' = items_per_thread
  BY DEF fsVars, mainVars
<1>3. PresentInv'
  BY <1>2 DEF GInv, PresentInv
<1>4. \A u \in Workers : u # t => tpc'[u] = tpc[u] /\ tqueue'[u] = tqueue[u] /\ element'[u] = element[u]
  BY DEF Elsewhere
<1>5. Main \in Workers /\ \A u \in Threads : u \in Workers /\ u # Main
  BY Numbers
<1>6. PhaseInv'
  <2>1. PhaseInv
    BY DEF GInv
  <2>2. /\ mpc' = "serial" <=> round' = 0
        /\ mpc' = "start" => round' = 1
        /\ mode' = "static" => round' # 2 /\ queue_files' = <<>>
        /\ round' = 2 => queue' = <<>>
        /\ mpc' \notin {"serial", "start", "tally", "done"}
    BY <1>1, <1>2, <2>1 DEF PhaseInv
  <2>3. tpc'[Main] = "finished"
    BY <1>1, <1>4, <1>5
  <2>4. /\ mpc' = "create" => \A u \in Threads :
             u >= created' => tpc'[u] = IF round' = 2 THEN "finished" ELSE "idle"
        /\ mpc' = "join" => \A u \in Threads : u < created' => tpc'[u] = "finished"
    <3>1. (mpc = "create" => ~(t >= created)) /\ (mpc = "join" => ~(t < created))
      BY <2>1 DEF PhaseInv, Fits
    <3> QED BY <1>2, <1>4, <1>5, <2>1, <3>1 DEF PhaseInv
  <2>5. mpc' = "create" => source' = source
    BY <1>2 DEF source
  <2>6. mpc' = "create" => Len(source') <= items_per_thread' * (NUM_THREADS - created')
    BY <1>2, <2>1, <2>5 DEF PhaseInv
  <2>7. mpc' = "join" => queue' = <<>> /\ (SearchRound' => queue_files' = <<>>)
    BY <1>2, <2>1 DEF PhaseInv, SearchRound
  <2>8. \A u \in Workers : tpc'[u] \in {"idle", "finished"} => tqueue'[u] = <<>>
    BY <1>4, <2>1 DEF PhaseInv, Fits
  <2> QED BY <2>2, <2>3, <2>4, <2>6, <2>7, <2>8 DEF PhaseInv
<1>7. KindInv'
  <2>1. KindInv
    BY DEF GInv
  <2>2. \A u \in Workers :
          /\ tpc'[u] = "dir" => tree'.kind[element'[u]] = "dir"
          /\ tpc'[u] \in {"reg", "insert"} => tree'.kind[element'[u]] = "reg"
    BY <1>2, <1>4, <2>1 DEF KindInv, Fits
  <2>3. round' = 2 => \A u \in Threads : \A k \in 1..Len(tqueue'[u]) :
                        tree'.kind[tqueue'[u][k]] = "reg"
    BY <1>1, <1>2, <1>4, <1>5, <2>1 DEF KindInv, Fits
  <2> QED BY <1>2, <2>2, <2>3 DEF KindInv
<1> QED BY <1>3, <1>6, <1>7

(* A turn of a thread that leaves SHARED.queue_files alone.                  *)
LEMMA ThreadTurn ==
  ASSUME GInv, GType', NEW t \in Threads, NEW N \in SUBSET Paths, Running,
         Elsewhere(t), Fits(t), Turn(t, N),
         UNCHANGED <<fsVars, mainVars, queue_files>>,
         count'[t] = count[t] + Total(tree, N), N # {} => SearchRound,
         \A u \in Threads : u # t => RESULTS'[u] = RESULTS[u],
         tpc'[t] = "finished" /\ SearchRound => RESULTS'[t] = count'[t]
  PROVE  GInv'
<1>1. mpc \in {"create", "join"} /\ t \in Workers /\ t # Main /\ t \in Pools /\ Main \in Workers
  BY ThreadRuns, Numbers DEF GInv, Fits
<1>2. /\ tree' = tree /\ present' = present /\ mode' = mode /\ mpc' = mpc /\ round' = round
      /\ queue' = queue /\ queue_files' = queue_files /\ num_occurrences' = num_occurrences
      /\ created' = created
  BY DEF fsVars, mainVars
<1>3. PresentInv' /\ PhaseInv' /\ KindInv'
  <2>1. \A k \in 1..Len(queue_files') : tree.kind[queue_files'[k]] = "reg"
    BY <1>2 DEF GInv, KindInv
  <2> QED BY <1>2, <2>1, ThreadPhase
<1>4. ApartInv
  BY DEF GInv
<1>5. Pool(t) = Load(t) /\ Pool(t)' = Load(t)'
  BY Numbers DEF Pool
<1>6. ASSUME NEW j \in Pools, j # t
      PROVE  Pool(j)' = Pool(j)
  <2>1. CASE j \in Threads
    <3>1. Load(j)' = Load(j)
      BY <1>2, <1>6, <2>1, LoadElsewhere, Numbers
    <3> QED BY <2>1, <3>1, Numbers DEF Pool
  <2>2. CASE j = MainPool
    BY <1>2, <2>2 DEF Pool
  <2>3. CASE j = FilePool
    BY <1>2, <2>3 DEF Pool
  <2> QED BY <1>6, <2>1, <2>2, <2>3, Numbers
<1>7. /\ \A j \in Pools : Pool(j)' \subseteq Below(tree, Root)
      /\ \A i, j \in Pools : i # j => Pool(i)' \cap Pool(j)' = {}
      /\ Pending' \subseteq Pending /\ N \subseteq Pending /\ N \cap Pending' = {}
      /\ \A x \in Wanted \cap present : x \in Pending => x \in Pending' \/ x \in N
  <2>1. /\ Pool(t)' \cup Pool(t)' \subseteq Pool(t) \cup Pool(t)
        /\ N \subseteq Pool(t) \cup Pool(t) /\ N \cap (Pool(t)' \cup Pool(t)') = {}
        /\ \A x \in Wanted \cap present :
             x \in Pool(t) \cup Pool(t) => x \in Pool(t)' \cup Pool(t)' \cup N
    BY <1>5 DEF Turn
  <2> QED BY <1>1, <1>4, <1>6, <2>1, PoolStep
<1>8. Load(Main)' = Load(Main)
  BY <1>1, <1>2, LoadElsewhere
<1>9. ApartInv'
  <2>1. Spread(tree', queue') /\ Spread(tree', queue_files')
    BY <1>2, <1>4 DEF ApartInv
  <2>2. ASSUME NEW w \in Workers
        PROVE  Spread(tree', tqueue'[w]) /\ Cover(tree', tqueue'[w]) \cap Hand(w)' = {}
    <3>1. CASE w = t
      BY <1>2, <3>1 DEF Turn
    <3>2. CASE w # t
      <4>1. Hand(w)' = Hand(w) /\ tqueue'[w] = tqueue[w]
        BY <1>2, <3>2, LoadElsewhere DEF Elsewhere
      <4> QED BY <1>2, <1>4, <4>1 DEF ApartInv
    <3> QED BY <3>1, <3>2
  <2>3. Load(Main)' \subseteq Below(tree', Root)
    BY <1>2, <1>4, <1>8 DEF ApartInv
  <2> QED BY <1>2, <1>7, <2>1, <2>2, <2>3 DEF ApartInv
<1>10. CountInv'
  <2>1. GType /\ PhaseInv /\ CountInv
    BY DEF GInv
  <2>2. N \subseteq Wanted /\ N \subseteq present
    BY DEF Turn
  <2>3. \A u \in Threads : u # t =>
          count'[u] = count[u] /\ tpc'[u] = tpc[u] /\ RESULTS'[u] = RESULTS[u]
    BY Numbers DEF Elsewhere
  <2>4. count'[Main] = count[Main]
    BY <1>1 DEF Elsewhere
  <2>5. ~Fresh(t) /\ \A u \in Threads : Fresh(u)' <=> Fresh(u)
    BY <1>2, ThreadCreated DEF Fits, Fresh
  <2>6. count'[t] = (IF Fresh(t) THEN 0 ELSE count[t]) + Total(tree, N)
    BY <2>5
  <2> QED BY <1>1, <1>2, <1>7, <1>8, <2>1, <2>2, <2>3, <2>4, <2>5, <2>6, ThreadCounts
<1> QED BY <1>3, <1>9, <1>10 DEF GInv

(* A thread puts a file into SHARED.queue_files.                             *)
LEMMA ThreadInserts ==
  ASSUME GInv, GType', NEW t \in Threads, Running, mode = "dynamic", round = 1,
         tpc[t] = "insert", tpc' = [tpc EXCEPT ![t] = "loop"],
         queue_files' = Append(queue_files, element[t]),
         UNCHANGED <<fsVars, mainVars, RESULTS, tqueue, element, count>>
  PROVE  GInv'
<1> DEFINE f == FilePool
           N == {}
<1>0. N = {} /\ N \in SUBSET Paths
  OBVIOUS
<1> HIDE DEF N
<1>1. /\ t \in Workers /\ t # Main /\ t \in Pools /\ Main \in Workers
      /\ f \in Pools /\ f # t
  BY Numbers
<1>2. /\ tree' = tree /\ present' = present /\ mode' = mode /\ mpc' = mpc /\ round' = round
      /\ queue' = queue /\ num_occurrences' = num_occurrences /\ tqueue' = tqueue
      /\ created' = created
  BY DEF fsVars, mainVars
<1>3. tpc'[t] = "loop" /\ \A u \in Workers : u # t => tpc'[u] = tpc[u]
  BY <1>1 DEF GInv, GType
<1>4. Elsewhere(t) /\ Fits(t)
  <2>1. Elsewhere(t)
    BY <1>3 DEF Elsewhere
  <2> QED BY <1>3, <2>1 DEF Fits
<1>5. mpc \in {"create", "join"}
  BY ThreadRuns DEF GInv
<1>6. /\ Spread(tree, queue_files')
      /\ Spread(tree, tqueue'[t]) /\ Cover(tree, tqueue'[t]) \cap Hand(t)' = {}
      /\ Load(t)' \cap Cover(tree, queue_files') = {}
      /\ Load(t)' \cup Cover(tree, queue_files') = Load(t) \cup Cover(tree, queue_files)
      /\ \A k \in 1..Len(queue_files') : tree.kind[queue_files'[k]] = "reg"
  BY <1>2, <1>3, InsertsFile DEF GInv
<1>7. PresentInv' /\ PhaseInv' /\ KindInv'
  BY <1>4, <1>6, ThreadPhase
<1>8. ApartInv
  BY DEF GInv
<1>9. /\ Pool(t) = Load(t) /\ Pool(t)' = Load(t)'
      /\ Pool(f) = Cover(tree, queue_files) /\ Pool(f)' = Cover(tree, queue_files')
  BY <1>2, Numbers DEF Pool
<1>10. ASSUME NEW j \in Pools, j # t, j # f
       PROVE  Pool(j)' = Pool(j)
  <2>1. CASE j \in Threads
    <3>1. Load(j)' = Load(j)
      BY <1>2, <1>4, <1>10, <2>1, LoadElsewhere, Numbers
    <3> QED BY <2>1, <3>1, Numbers DEF Pool
  <2>2. CASE j = MainPool
    BY <1>2, <2>2 DEF Pool
  <2> QED BY <1>10, <2>1, <2>2, Numbers
<1> HIDE DEF f
<1>11. /\ \A j \in Pools : Pool(j)' \subseteq Below(tree, Root)
       /\ \A i, j \in Pools : i # j => Pool(i)' \cap Pool(j)' = {}
       /\ Pending' \subseteq Pending /\ N \subseteq Pending /\ N \cap Pending' = {}
       /\ \A x \in Wanted \cap present : x \in Pending => x \in Pending' \/ x \in N
  <2>2. /\ Pool(t)' \cup Pool(f)' \subseteq Pool(t) \cup Pool(f)
        /\ t # f => Pool(t)' \cap Pool(f)' = {}
        /\ N \subseteq Pool(t) \cup Pool(f) /\ N \cap (Pool(t)' \cup Pool(f)') = {}
        /\ \A x \in Wanted \cap present :
             x \in Pool(t) \cup Pool(f) => x \in Pool(t)' \cup Pool(f)' \cup N
    BY <1>0, <1>6, <1>9
  <2> QED BY <1>1, <1>8, <1>10, <2>2, PoolStep
<1>12. Load(Main)' = Load(Main)
  BY <1>1, <1>2, <1>4, LoadElsewhere
<1>13. ApartInv'
  <2>1. Spread(tree', queue') /\ Spread(tree', queue_files')
    BY <1>2, <1>6, <1>8 DEF ApartInv
  <2>2. ASSUME NEW w \in Workers
        PROVE  Spread(tree', tqueue'[w]) /\ Cover(tree', tqueue'[w]) \cap Hand(w)' = {}
    <3>1. CASE w = t
      BY <1>2, <1>6, <3>1
    <3>2. CASE w # t
      <4>1. Hand(w)' = Hand(w) /\ tqueue'[w] = tqueue[w]
        BY <1>2, <1>4, <3>2, LoadElsewhere
      <4> QED BY <1>2, <1>8, <4>1 DEF ApartInv
    <3> QED BY <3>1, <3>2
  <2>3. Load(Main)' \subseteq Below(tree', Root)
    BY <1>2, <1>8, <1>12 DEF ApartInv
  <2> QED BY <1>2, <1>11, <2>1, <2>2, <2>3 DEF ApartInv
<1>14. CountInv'
  <2>1. GType /\ PhaseInv /\ CountInv
    BY DEF GInv
  <2>2. count[t] \in Nat /\ Total(tree, N) = 0
    BY <1>0, <1>1, TotalOfNone DEF GInv, GType
  <2>3. count'[t] = (IF Fresh(t) THEN 0 ELSE count[t]) + Total(tree, N)
    BY <2>2, ThreadCreated
  <2>4. \A u \in Threads : u # t =>
          count'[u] = count[u] /\ tpc'[u] = tpc[u] /\ RESULTS'[u] = RESULTS[u]
    BY <1>3, Numbers
  <2>5. /\ tpc'[t] # "finished"
        /\ ~Fresh(t) /\ \A u \in Threads : Fresh(u)' <=> Fresh(u)
    BY <1>2, <1>3, ThreadCreated DEF Fresh
  <2>6. N \subseteq Wanted /\ N \subseteq present /\ (N # {} => SearchRound)
    BY <1>0
  <2>7. count'[Main] = count[Main]
    OBVIOUS
  <2> QED BY <1>0, <1>2, <1>5, <1>11, <1>12, <2>1, <2>3, <2>4, <2>5, <2>6, <2>7, ThreadCounts
<1> QED BY <1>7, <1>13, <1>14 DEF GInv

-------------------------------------------------------------------------------
(* The steps of the threads.                                                 *)

(* remove_element.                                                           *)
LEMMA ThreadNext ==
  ASSUME GInv, NEW t \in Threads, Running, NEW wanted, next_element(t, wanted),
         \/ wanted = {"dir", "reg"} /\ round # 2
         \/ wanted = {"reg"} /\ round = 2
  PROVE  GInv'
<1>1. t \in Workers /\ t # Main
  BY Numbers
<1>2. wanted \in SUBSET {"dir", "reg"}
  OBVIOUS
<1>3. \A k \in 1..Len(tqueue[t]) :
        tree.kind[tqueue[t][k]] \in {"dir", "reg"} => tree.kind[tqueue[t][k]] \in wanted
  BY DEF GInv, KindInv
<1>4. /\ Turn(t, {})
      /\ tqueue'[t] \in Seq(Paths) /\ element'[t] \in Paths
      /\ tpc'[t] \in {"loop", "dir", "reg"}
      /\ tpc'[t] \in {"dir", "reg"} => tpc'[t] \in wanted /\ tree.kind[element'[t]] = tpc'[t]
      /\ \A k \in 1..Len(tqueue'[t]) : \E m \in 1..Len(tqueue[t]) : tqueue'[t][k] = tqueue[t][m]
  BY <1>1, <1>2, <1>3, NextElement DEF GInv
<1>5. UNCHANGED <<fsVars, mainVars, sharedVars, count>> /\ tpc[t] = "loop"
  BY DEF next_element
<1>6. Elsewhere(t)
  BY <1>1, <1>5 DEF next_element, Elsewhere, GInv, GType
<1>7. GType'
  <2>1. GType
    BY DEF GInv
  <2>2. /\ tpc' \in [Workers -> Points] /\ tqueue' \in [Workers -> Seq(Paths)]
        /\ element' \in [Workers -> Paths]
    <3>1. tpc'[t] \in Points
      BY <1>4 DEF Points
    <3> QED BY <1>4, <2>1, <3>1 DEF next_element, GType
  <2> QED BY <1>5, <2>1, <2>2 DEF GType, fsVars, mainVars, sharedVars
<1>8. Fits(t)
  BY <1>4, <1>5 DEF Fits, GInv, KindInv
<1>9. count'[t] = count[t] + Total(tree, {})
  <2>1. count[t] \in Nat /\ count' = count
    BY <1>1, <1>5 DEF GInv, GType
  <2> QED BY <2>1, TotalOfNone
<1>10. \A u \in Threads : u # t => RESULTS'[u] = RESULTS[u]
  BY <1>5 DEF sharedVars
<1>11. UNCHANGED <<fsVars, mainVars, queue_files>>
  BY <1>5 DEF sharedVars
<1>12. tpc'[t] # "finished"
  BY <1>4
<1> QED BY <1>4, <1>6, <1>7, <1>8, <1>9, <1>10, <1>11, <1>12, ThreadTurn

(* The listing of a directory.                                               *)
LEMMA ThreadDescends ==
  ASSUME GInv, NEW t \in Threads, Running, descend(t), round # 2
  PROVE  GInv'
<1>1. t \in Workers /\ t # Main
  BY Numbers
<1>2. Turn(t, {}) /\ tqueue'[t] \in Seq(Paths) /\ tpc'[t] = "loop"
  BY <1>1, Descends DEF GInv
<1>3. UNCHANGED <<fsVars, mainVars, sharedVars, element, count>> /\ tpc[t] = "dir"
  BY DEF descend
<1>4. PICK s \in Listings(element[t]) : tqueue' = [tqueue EXCEPT ![t] = @ \o s]
  BY DEF descend
<1>5. Elsewhere(t)
  BY <1>1, <1>3, <1>4 DEF descend, Elsewhere, GInv, GType
<1>6. GType'
  <2>1. GType
    BY DEF GInv
  <2>2. tpc' \in [Workers -> Points]
    BY <2>1 DEF descend, GType, Points
  <2>3. tqueue' \in [Workers -> Seq(Paths)]
    <3>1. DOMAIN tqueue' = Workers /\ tqueue' = [w \in Workers |-> tqueue'[w]]
      BY <1>4, <2>1 DEF GType
    <3>2. \A w \in Workers : tqueue'[w] \in Seq(Paths)
      BY <1>2, <1>5, <2>1 DEF GType, Elsewhere
    <3> QED BY <3>1, <3>2
  <2> QED BY <1>3, <2>1, <2>2, <2>3 DEF GType, fsVars, mainVars, sharedVars
<1>7. Fits(t)
  BY <1>2, <1>3 DEF Fits
<1>8. count'[t] = count[t] + Total(tree, {})
  <2>1. count[t] \in Nat /\ count' = count
    BY <1>1, <1>3 DEF GInv, GType
  <2> QED BY <2>1, TotalOfNone
<1>9. \A u \in Threads : u # t => RESULTS'[u] = RESULTS[u]
  BY <1>3 DEF sharedVars
<1>10. UNCHANGED <<fsVars, mainVars, queue_files>>
  BY <1>3 DEF sharedVars
<1> QED BY <1>2, <1>5, <1>6, <1>7, <1>8, <1>9, <1>10, ThreadTurn

(* The search of a file.                                                     *)
LEMMA ThreadSearches ==
  ASSUME GInv, NEW t \in Threads, Running, search_file(t), SearchRound
  PROVE  GInv'
<1>1. t \in Workers /\ t # Main
  BY Numbers
<1>2. PICK N \in SUBSET Paths :
        /\ Turn(t, N) /\ tpc'[t] = "loop"
        /\ count' = [count EXCEPT ![t] = count[t] + Total(tree, N)]
  BY <1>1, SearchesFile DEF GInv
<1>3. UNCHANGED <<fsVars, mainVars, sharedVars, tqueue, element>> /\ tpc[t] = "reg"
  BY DEF search_file
<1>4. Elsewhere(t)
  BY <1>1, <1>2, <1>3 DEF search_file, Elsewhere, GInv, GType
<1>5. Total(tree, N) \in Nat
  BY TokensFinite DEF GInv, GType
<1>6. GType'
  <2>1. GType
    BY DEF GInv
  <2>2. tpc' \in [Workers -> Points]
    BY <2>1 DEF search_file, GType, Points
  <2>3. count' \in [Workers -> Nat]
    <3>1. count \in [Workers -> Nat] /\ count[t] + Total(tree, N) \in Nat
      BY <1>1, <1>5, <2>1 DEF GType
    <3> QED BY <1>2, <3>1
  <2> QED BY <1>3, <2>1, <2>2, <2>3 DEF GType, fsVars, mainVars, sharedVars
<1>7. Fits(t)
  BY <1>2, <1>3 DEF Fits, GInv, KindInv
<1>8. count'[t] = count[t] + Total(tree, N)
  BY <1>1, <1>2 DEF GInv, GType
<1>9. \A u \in Threads : u # t => RESULTS'[u] = RESULTS[u]
  BY <1>3 DEF sharedVars
<1>10. UNCHANGED <<fsVars, mainVars, queue_files>>
  BY <1>3 DEF sharedVars
<1>11. tpc'[t] # "finished"
  BY <1>2
<1> QED BY <1>2, <1>4, <1>6, <1>7, <1>8, <1>9, <1>10, <1>11, ThreadTurn

(* The end of a thread.                                                      *)
LEMMA ThreadFinishes ==
  ASSUME GInv, NEW t \in Threads, Running, NEW results, finish(t, results),
         \/ results = RESULTS /\ ~SearchRound
         \/ results = store_result(t)
  PROVE  GInv'
<1>1. t \in Workers /\ t # Main
  BY Numbers
<1>2. Turn(t, {}) /\ tpc'[t] = "finished" /\ tqueue'[t] = <<>>
  BY <1>1, Finishes DEF GInv
<1>3. /\ UNCHANGED <<fsVars, mainVars, queue_files, mutex_shared, tqueue, element, count>>
      /\ tpc[t] = "loop"
  BY DEF finish
<1>4. Elsewhere(t)
  BY <1>1, <1>3 DEF finish, Elsewhere, GInv, GType
<1>5. /\ RESULTS' \in [Threads -> Nat]
      /\ \A u \in Threads : u # t => RESULTS'[u] = RESULTS[u]
      /\ SearchRound => RESULTS'[t] = count[t]
  <2>1. RESULTS \in [Threads -> Nat] /\ count[t] \in Nat
    BY <1>1 DEF GInv, GType
  <2> QED BY <2>1 DEF finish, store_result
<1>6. GType'
  <2>1. GType
    BY DEF GInv
  <2>2. tpc' \in [Workers -> Points]
    BY <2>1 DEF finish, GType, Points
  <2> QED BY <1>3, <1>5, <2>1, <2>2 DEF GType, fsVars, mainVars
<1>7. Fits(t)
  <2>1. Len(tqueue'[t]) = 0
    BY <1>2, EmptySeq
  <2> QED BY <1>2, <1>3, <2>1 DEF Fits
<1>8. count'[t] = count[t] + Total(tree, {})
  <2>1. count[t] \in Nat /\ count' = count
    BY <1>1, <1>3 DEF GInv, GType
  <2> QED BY <2>1, TotalOfNone
<1>9. SearchRound => RESULTS'[t] = count'[t]
  BY <1>3, <1>5
<1>10. UNCHANGED <<fsVars, mainVars, queue_files>>
  BY <1>3
<1> QED BY <1>2, <1>4, <1>5, <1>6, <1>7, <1>8, <1>9, <1>10, ThreadTurn

(* The lock for the insertion.                                               *)
LEMMA ThreadLocks ==
  ASSUME GInv, NEW t \in Threads, Running, tpc[t] = "reg",
         tpc' = [tpc EXCEPT ![t] = "insert"], mutex_shared' = t,
         UNCHANGED <<fsVars, mainVars, RESULTS, tqueue, element, count, queue_files>>
  PROVE  GInv'
<1>1. t \in Workers /\ t # Main
  BY Numbers
<1>2. tpc'[t] = "insert" /\ Elsewhere(t)
  BY <1>1 DEF Elsewhere, GInv, GType
<1>3. Hand(t)' = Hand(t) /\ Load(t)' = Load(t)
  BY <1>2 DEF Hand, Load, fsVars
<1>4. Turn(t, {})
  <2>1. Spread(tree, tqueue[t]) /\ Cover(tree, tqueue[t]) \cap Hand(t) = {}
    BY <1>1, WorkBasics DEF GInv
  <2> QED BY <1>3, <2>1 DEF Turn
<1>5. GType'
  <2>1. GType
    BY DEF GInv
  <2>2. tpc' \in [Workers -> Points]
    BY <2>1 DEF GType, Points
  <2> QED BY <2>1, <2>2 DEF GType, fsVars, mainVars
<1>6. Fits(t)
  BY <1>1, <1>2 DEF Fits, GInv, KindInv
<1>7. count'[t] = count[t] + Total(tree, {})
  <2>1. count[t] \in Nat /\ count' = count
    BY <1>1 DEF GInv, GType
  <2> QED BY <2>1, TotalOfNone
<1>8. tpc'[t] # "finished" /\ \A u \in Threads : u # t => RESULTS'[u] = RESULTS[u]
  BY <1>2
<1>9. UNCHANGED <<fsVars, mainVars, queue_files>>
  OBVIOUS
<1> QED BY <1>2, <1>4, <1>5, <1>6, <1>7, <1>8, <1>9, ThreadTurn

(* Any step of a thread.                                                     *)
LEMMA WorkerStep ==
  ASSUME GInv, NEW t \in Threads, Worker(t)
  PROVE  GInv'
<1>1. t \in Workers /\ t # Main
  BY Numbers
<1>2. CASE parallel_search_static_thread(t)
  <2>1. Running /\ SearchRound /\ round # 2
    BY <1>2 DEF parallel_search_static_thread, SearchRound, GInv, PhaseInv
  <2>2. CASE next_element(t, {"dir", "reg"})
    BY <2>1, <2>2, ThreadNext
  <2>3. CASE descend(t)
    BY <2>1, <2>3, ThreadDescends
  <2>4. CASE search_file(t)
    BY <2>1, <2>4, ThreadSearches
  <2>5. CASE finish(t, store_result(t))
    BY <2>1, <2>5, ThreadFinishes
  <2> QED BY <1>2, <2>2, <2>3, <2>4, <2>5 DEF parallel_search_static_thread
<1>3. CASE parallel_search_dynamic_files_thread(t)
  <2>1. Running /\ mode = "dynamic" /\ round = 1
    <3>1. Running /\ mode = "dynamic" /\ ~searches(t)
      BY <1>3 DEF parallel_search_dynamic_files_thread
    <3>2. tpc[t] \in {"loop", "dir", "reg", "insert"}
      BY <1>3 DEF parallel_search_dynamic_files_thread, next_element, descend, finish,
                  SHARED_insert_file_element
    <3>3. mpc \in {"create", "join"} /\ (mpc = "create" => t < created)
      BY <3>1, <3>2, ThreadRuns, ThreadCreated DEF GInv
    <3>4. round \in 0..2 /\ round # 0
      BY <3>3 DEF GInv, GType, PhaseInv
    <3> QED BY <3>1, <3>3, <3>4 DEF searches
  <2>2. CASE next_element(t, {"dir", "reg"})
    BY <2>1, <2>2, ThreadNext
  <2>3. CASE descend(t)
    BY <2>1, <2>3, ThreadDescends
  <2>4. CASE /\ SHARED_insert_file_element(t)
             /\ UNCHANGED <<fsVars, mainVars, RESULTS, tqueue, element, count>>
    <3>1. CASE tpc[t] = "reg"
      <4>1. /\ tpc' = [tpc EXCEPT ![t] = "insert"] /\ mutex_shared' = t
            /\ queue_files' = queue_files
        BY <2>4, <3>1 DEF SHARED_insert_file_element
      <4> QED BY <2>1, <2>4, <3>1, <4>1, ThreadLocks
    <3>2. CASE tpc[t] = "insert"
      <4>1. /\ tpc' = [tpc EXCEPT ![t] = "loop"] /\ mutex_shared' = Nobody
            /\ queue_files' = Append(queue_files, element[t])
        BY <2>4, <3>2 DEF SHARED_insert_file_element, mutex_unlock
      <4>2. GType'
        <5>1. GType
          BY DEF GInv
        <5>2. tpc' \in [Workers -> Points]
          BY <4>1, <5>1 DEF GType, Points
        <5>3. queue_files' \in Seq(Paths)
          BY <1>1, <4>1, <5>1, AppendProperties DEF GType
        <5> QED BY <2>4, <4>1, <5>1, <5>2, <5>3 DEF GType, fsVars, mainVars
      <4> QED BY <2>1, <2>4, <3>2, <4>1, <4>2, ThreadInserts
    <3> QED BY <2>4, <3>1, <3>2 DEF SHARED_insert_file_element
  <2>5. CASE finish(t, RESULTS)
    <3>1. ~SearchRound
      BY <2>1 DEF SearchRound
    <3> QED BY <2>1, <2>5, <3>1, ThreadFinishes
  <2> QED BY <1>3, <2>2, <2>3, <2>4, <2>5 DEF parallel_search_dynamic_files_thread
<1>4. CASE parallel_search_dynamic_search_thread(t)
  <2>1. Running /\ SearchRound /\ round = 2
    BY <1>4 DEF parallel_search_dynamic_search_thread, SearchRound, searches
  <2>2. CASE next_element(t, {"reg"})
    BY <2>1, <2>2, ThreadNext
  <2>3. CASE search_file(t)
    BY <2>1, <2>3, ThreadSearches
  <2>4. CASE finish(t, store_result(t))
    BY <2>1, <2>4, ThreadFinishes
  <2> QED BY <1>4, <2>2, <2>3, <2>4 DEF parallel_search_dynamic_search_thread
<1> QED BY <1>2, <1>3, <1>4 DEF Worker

-------------------------------------------------------------------------------
(* The serial search.                                                        *)

(* A turn of serial_search.                                                  *)
LEMMA MainTurn ==
  ASSUME GInv, GType', NEW N \in SUBSET Paths, mpc = "serial",
         Elsewhere(Main), Fits(Main), Turn(Main, N),
         UNCHANGED <<fsVars, mainVars, queue_files, RESULTS>>,
         count'[Main] = count[Main] + Total(tree, N)
  PROVE  GInv'
<1>1. Main \in Workers /\ \A u \in Threads : u \in Workers /\ u # Main
  BY Numbers
<1>2. /\ tree' = tree /\ present' = present /\ mode' = mode /\ mpc' = mpc /\ round' = round
      /\ queue' = queue /\ queue_files' = queue_files /\ num_occurrences' = num_occurrences
      /\ created' = created /\ RESULTS' = RESULTS
  BY DEF fsVars, mainVars
<1>3. \A u \in Workers : u # Main =>
        /\ tpc'[u] = tpc[u] /\ tqueue'[u] = tqueue[u] /\ element'[u] = element[u]
        /\ count'[u] = count[u]
  BY DEF Elsewhere
<1>4. PresentInv'
  BY <1>2 DEF GInv, PresentInv
<1>5. PhaseInv'
  <2>1. PhaseInv
    BY DEF GInv
  <2>2. round' = 0 /\ queue' = <<>> /\ queue_files' = <<>>
    BY <1>2, <2>1 DEF PhaseInv
  <2>3. \A u \in Threads : tpc'[u] = "idle"
    BY <1>1, <1>3, <2>1 DEF PhaseInv
  <2>4. \A u \in Workers : tpc'[u] \in {"idle", "finished"} => tqueue'[u] = <<>>
    BY <1>3, <2>1 DEF PhaseInv, Fits
  <2> QED BY <1>2, <2>2, <2>3, <2>4 DEF PhaseInv
<1>6. KindInv'
  <2>1. KindInv /\ round # 2
    BY DEF GInv, PhaseInv
  <2>2. \A u \in Workers :
          /\ tpc'[u] = "dir" => tree'.kind[element'[u]] = "dir"
          /\ tpc'[u] \in {"reg", "insert"} => tree'.kind[element'[u]] = "reg"
    BY <1>2, <1>3, <2>1 DEF KindInv, Fits
  <2> QED BY <1>2, <2>1, <2>2 DEF KindInv
<1>7. \A j \in Pools : Pool(j)' = Pool(j)
  <2> SUFFICES ASSUME NEW j \in Pools
               PROVE  Pool(j)' = Pool(j)
    OBVIOUS
  <2>1. CASE j \in Threads
    <3>1. Load(j)' = Load(j)
      BY <1>1, <1>2, <2>1, LoadElsewhere
    <3> QED BY <2>1, <3>1, Numbers DEF Pool
  <2>2. CASE j = MainPool
    BY <1>2, <2>2 DEF Pool
  <2>3. CASE j = FilePool
    BY <1>2, <2>3 DEF Pool
  <2> QED BY <2>1, <2>2, <2>3, Numbers
<1>8. Pending' = Pending
  <2>1. Pending' = UNION {Pool(h)' : h \in Pools}
    BY DEF Pending, Pools
  <2> QED BY <1>7, <2>1 DEF Pending
<1>9. ApartInv'
  <2>1. ApartInv
    BY DEF GInv
  <2>2. Spread(tree', queue') /\ Spread(tree', queue_files')
    BY <1>2, <2>1 DEF ApartInv
  <2>3. ASSUME NEW w \in Workers
        PROVE  Spread(tree', tqueue'[w]) /\ Cover(tree', tqueue'[w]) \cap Hand(w)' = {}
    <3>1. CASE w = Main
      BY <1>2, <3>1 DEF Turn
    <3>2. CASE w # Main
      <4>1. Hand(w)' = Hand(w) /\ tqueue'[w] = tqueue[w]
        BY <1>2, <1>3, <3>2, LoadElsewhere
      <4> QED BY <1>2, <2>1, <4>1 DEF ApartInv
    <3> QED BY <3>1, <3>2
  <2>4. Load(Main)' \subseteq Below(tree', Root)
    BY <1>2, <2>1 DEF ApartInv, Turn
  <2>5. /\ \A h \in Pools : Pool(h)' \subseteq Below(tree', Root)
        /\ \A g, h \in Pools : g # h => Pool(g)' \cap Pool(h)' = {}
    BY <1>2, <1>7, <2>1 DEF ApartInv
  <2> QED BY <2>2, <2>3, <2>4, <2>5 DEF ApartInv
<1>10. CountInv'
  <2>1. PICK M \in SUBSET Paths : MainCounted(M) /\
               \E A \in [Threads -> SUBSET M] : ThreadsCounted(M, A)
    BY DEF GInv, CountInv
  <2>2. PICK A \in [Threads -> SUBSET M] : ThreadsCounted(M, A)
    BY <2>1
  <2> DEFINE L == M \cup N
  <2>3. L \in SUBSET Paths /\ A \in [Threads -> SUBSET L]
    BY <2>1, <2>2
  <2>4. Wanted' = Wanted /\ SearchRound' = SearchRound
    BY <1>2 DEF Wanted, SearchRound
  <2>5. M \cap N = {}
    BY <2>1 DEF MainCounted, Turn
  <2>6. count'[Main] = Total(tree', L)
    <3>1. Total(tree, L) = Total(tree, M) + Total(tree, N)
      BY <2>1, <2>5, TotalAdds DEF GInv, GType
    <3> QED BY <1>2, <2>1, <3>1 DEF MainCounted
  <2>7. MainCounted(L)'
    <3>1. L \subseteq Wanted /\ L \cap Load(Main)' = {}
      BY <2>1 DEF MainCounted, Turn
    <3>2. \A x \in Wanted : x \in present => x \in L \cup Load(Main)'
      BY <2>1 DEF MainCounted, Turn
    <3> QED BY <1>2, <2>4, <2>6, <3>1, <3>2 DEF MainCounted
  <2>8. ThreadsCounted(L, A)'
    <3> HIDE DEF L
    <3>1. \A t \in Threads : count'[t] = count[t] /\ (Fresh(t)' <=> Fresh(t)) /\ ~Ended(t)'
      BY <1>1, <1>2, <1>3 DEF Fresh, Ended
    <3> QED BY <1>2, <1>8, <2>2, <2>3, <2>4, <3>1 DEF ThreadsCounted
  <2> HIDE DEF L
  <2> QED BY <2>3, <2>7, <2>8 DEF CountInv
<1> QED BY <1>4, <1>5, <1>6, <1>9, <1>10 DEF GInv

(* Any step of serial_search.                                                *)
LEMMA SerialStep ==
  ASSUME GInv, serial_search
  PROVE  GInv'
<1>1. mpc = "serial" /\ Main \in Workers /\ round # 2
  BY Numbers DEF serial_search, GInv, PhaseInv
<1>2. GType /\ PresentInv /\ KindInv /\ ApartInv
  BY DEF GInv
<1>3. CASE next_element(Main, {"dir", "reg"})
  <2> DEFINE wanted == {"dir", "reg"}
  <2>1. UNCHANGED <<fsVars, mainVars, sharedVars, count>> /\ tpc[Main] = "loop"
    BY <1>3 DEF next_element
  <2>2. /\ Turn(Main, {})
        /\ tqueue'[Main] \in Seq(Paths) /\ element'[Main] \in Paths
        /\ tpc'[Main] \in {"loop", "dir", "reg"}
        /\ tpc'[Main] \in {"dir", "reg"} => tree.kind[element'[Main]] = tpc'[Main]
    <3>1. wanted \in SUBSET {"dir", "reg"} /\ next_element(Main, wanted)
      BY <1>3
    <3>2. \A k \in 1..Len(tqueue[Main]) :
            tree.kind[tqueue[Main][k]] \in {"dir", "reg"} => tree.kind[tqueue[Main][k]] \in wanted
      OBVIOUS
    <3> HIDE DEF wanted
    <3> QED BY <1>1, <1>2, <3>1, <3>2, NextElement
  <2>3. Elsewhere(Main)
    BY <1>1, <1>2, <1>3, <2>1 DEF next_element, Elsewhere, GType
  <2>4. GType'
    <3>1. /\ tpc' \in [Workers -> Points] /\ tqueue' \in [Workers -> Seq(Paths)]
          /\ element' \in [Workers -> Paths]
      <4>1. tpc'[Main] \in Points
        BY <2>2 DEF Points
      <4> QED BY <1>2, <1>3, <2>2, <4>1 DEF next_element, GType
    <3> QED BY <1>2, <2>1, <3>1 DEF GType, fsVars, mainVars, sharedVars
  <2>5. Fits(Main)
    BY <2>1, <2>2 DEF Fits
  <2>6. count'[Main] = count[Main] + Total(tree, {})
    <3>1. count[Main] \in Nat /\ count' = count
      BY <1>1, <1>2, <2>1 DEF GType
    <3> QED BY <3>1, TotalOfNone
  <2>7. UNCHANGED <<fsVars, mainVars, queue_files, RESULTS>>
    BY <2>1 DEF sharedVars
  <2> QED BY <1>1, <2>2, <2>3, <2>4, <2>5, <2>6, <2>7, MainTurn
<1>4. CASE descend(Main)
  <2>1. UNCHANGED <<fsVars, mainVars, sharedVars, element, count>> /\ tpc[Main] = "dir"
    BY <1>4 DEF descend
  <2>2. Turn(Main, {}) /\ tqueue'[Main] \in Seq(Paths) /\ tpc'[Main] = "loop"
    BY <1>1, <1>2, <1>4, Descends
  <2>3. PICK s \in Listings(element[Main]) : tqueue' = [tqueue EXCEPT ![Main] = @ \o s]
    BY <1>4 DEF descend
  <2>4. Elsewhere(Main)
    BY <1>1, <1>2, <1>4, <2>1, <2>3 DEF descend, Elsewhere, GType
  <2>5. GType'
    <3>1. tpc' \in [Workers -> Points]
      BY <1>2, <1>4 DEF descend, GType, Points
    <3>2. tqueue' \in [Workers -> Seq(Paths)]
      <4>1. DOMAIN tqueue' = Workers /\ tqueue' = [w \in Workers |-> tqueue'[w]]
        BY <1>2, <2>3 DEF GType
      <4>2. \A w \in Workers : tqueue'[w] \in Seq(Paths)
        BY <1>2, <2>2, <2>4 DEF GType, Elsewhere
      <4> QED BY <4>1, <4>2
    <3> QED BY <1>2, <2>1, <3>1, <3>2 DEF GType, fsVars, mainVars, sharedVars
  <2>6. Fits(Main)
    BY <2>1, <2>2 DEF Fits
  <2>7. count'[Main] = count[Main] + Total(tree, {})
    <3>1. count[Main] \in Nat /\ count' = count
      BY <1>1, <1>2, <2>1 DEF GType
    <3> QED BY <3>1, TotalOfNone
  <2>8. UNCHANGED <<fsVars, mainVars, queue_files, RESULTS>>
    BY <2>1 DEF sharedVars
  <2> QED BY <1>1, <2>2, <2>4, <2>5, <2>6, <2>7, <2>8, MainTurn
<1>5. CASE search_file(Main)
  <2>1. UNCHANGED <<fsVars, mainVars, sharedVars, tqueue, element>> /\ tpc[Main] = "reg"
    BY <1>5 DEF search_file
  <2>2. PICK N \in SUBSET Paths :
          /\ Turn(Main, N) /\ tpc'[Main] = "loop"
          /\ count' = [count EXCEPT ![Main] = count[Main] + Total(tree, N)]
    BY <1>1, <1>2, <1>5, SearchesFile
  <2>3. Elsewhere(Main)
    BY <1>1, <1>2, <1>5, <2>1, <2>2 DEF search_file, Elsewhere, GType
  <2>4. GType'
    <3>1. tpc' \in [Workers -> Points]
      BY <1>2, <1>5 DEF search_file, GType, Points
    <3>2. count' \in [Workers -> Nat]
      <4>1. Total(tree, N) \in Nat
        BY <1>2, TokensFinite DEF GType
      <4>2. count \in [Workers -> Nat] /\ count[Main] + Total(tree, N) \in Nat
        BY <1>1, <1>2, <4>1 DEF GType
      <4> QED BY <2>2, <4>2
    <3> QED BY <1>2, <2>1, <3>1, <3>2 DEF GType, fsVars, mainVars, sharedVars
  <2>5. Fits(Main)
    BY <2>1, <2>2 DEF Fits
  <2>6. count'[Main] = count[Main] + Total(tree, N)
    BY <1>1, <1>2, <2>2 DEF GType
  <2>7. UNCHANGED <<fsVars, mainVars, queue_files, RESULTS>>
    BY <2>1 DEF sharedVars
  <2> QED BY <1>1, <2>2, <2>3, <2>4, <2>5, <2>6, <2>7, MainTurn
<1>6. CASE finish(Main, RESULTS)
  <2>1. /\ UNCHANGED <<fsVars, mainVars, queue_files, mutex_shared, tqueue, element, count>>
        /\ tpc[Main] = "loop" /\ RESULTS' = RESULTS
    BY <1>6 DEF finish
  <2>2. Turn(Main, {}) /\ tpc'[Main] = "finished" /\ tqueue'[Main] = <<>>
    BY <1>1, <1>2, <1>6, Finishes
  <2>3. Elsewhere(Main)
    BY <1>1, <1>2, <1>6, <2>1 DEF finish, Elsewhere, GType
  <2>4. GType'
    <3>1. tpc' \in [Workers -> Points]
      BY <1>2, <1>6 DEF finish, GType, Points
    <3> QED BY <1>2, <2>1, <3>1 DEF GType, fsVars, mainVars
  <2>5. Fits(Main)
    BY <2>1, <2>2 DEF Fits
  <2>6. count'[Main] = count[Main] + Total(tree, {})
    <3>1. count[Main] \in Nat /\ count' = count
      BY <1>1, <1>2, <2>1 DEF GType
    <3> QED BY <3>1, TotalOfNone
  <2>7. UNCHANGED <<fsVars, mainVars, queue_files, RESULTS>>
    BY <2>1
  <2> QED BY <1>1, <2>2, <2>3, <2>4, <2>5, <2>6, <2>7, MainTurn
<1> QED BY <1>3, <1>4, <1>5, <1>6 DEF serial_search

-------------------------------------------------------------------------------
(* The steps of the main thread.                                             *)

(* round_up gives the threads shares that together take every element.       *)
LEMMA SharesSuffice ==
  ASSUME NEW L \in Nat
  PROVE  /\ round_up(L, NUM_THREADS) \in Nat
         /\ L <= round_up(L, NUM_THREADS) * (NUM_THREADS - 0)
<1> DEFINE n == NUM_THREADS
           a == L + (n - 1)
           d == a \div n
           r == a % n
<1>1. n \in Nat /\ n > 0
  BY SizesAssumption
<1>2. a \in Nat
  BY <1>1
<1>3. d \in Int /\ r \in 0..(n - 1) /\ a = n * d + r
  <2> HIDE DEF a, n
  <2> QED BY <1>1, <1>2
<1>4. n * d >= L
  <2> HIDE DEF d, r
  <2> QED BY <1>1, <1>3
<1>5. d \in Nat
  <2>1. CASE d >= 0
    BY <1>3, <2>1
  <2>2. CASE d <= -1
    <3>1. n * d <= n * (-1)
      <4> HIDE DEF d, n
      <4> QED BY <1>1, <1>3, <2>2
    <3> QED BY <1>1, <1>4, <3>1
  <2> QED BY <1>3, <2>1, <2>2
<1>6. d * (n - 0) = n * d
  <2> HIDE DEF d, n
  <2> QED BY <1>1, <1>5
<1> QED BY <1>4, <1>5, <1>6 DEF round_up

(* What is left after a share fits into the shares to come.                  *)
LEMMA SharesToCome ==
  ASSUME NEW i \in Nat, NEW c \in Nat, NEW n \in Nat, c < n,
         NEW L \in Nat, L <= i * (n - c),
         NEW s \in Nat, s = IF L < i THEN L ELSE i
  PROVE  L - s <= i * (n - (c + 1)) /\ s \in 0..L
<1> DEFINE k == n - (c + 1)
<1>1. k \in Nat /\ n - c = k + 1
  OBVIOUS
<1> HIDE DEF k
<1>2. i * (k + 1) = i * k + i /\ i * k \in Nat
  BY <1>1
<1>3. L <= i * k + i
  BY <1>1, <1>2
<1>4. L - s <= i * k
  BY <1>2, <1>3
<1> QED BY <1>4 DEF k

(* Who has a path in its hands stays so.                                     *)
SameHands ==
  \A w \in Workers : tpc'[w] \in {"dir", "reg", "insert"} <=> tpc[w] \in {"dir", "reg", "insert"}

(* No work moves.                                                            *)
LEMMA PoolsStay ==
  ASSUME UNCHANGED <<tree, queue, queue_files, tqueue, element>>, SameHands
  PROVE  /\ \A w \in Workers : Load(w)' = Load(w)
         /\ Pending' = Pending /\ Wanted' = Wanted
         /\ ApartInv => ApartInv'
<1>1. ASSUME NEW w \in Workers
      PROVE  Hand(w)' = Hand(w) /\ Load(w)' = Load(w)
  <2>1. Hand(w)' = Hand(w)
    BY DEF Hand, SameHands
  <2> QED BY <2>1 DEF Load
<1>2. ASSUME NEW j \in Pools
      PROVE  Pool(j)' = Pool(j)
  <2>1. CASE j \in Threads
    <3>1. Load(j)' = Load(j)
      BY <1>1, <2>1, Numbers
    <3> QED BY <2>1, <3>1, Numbers DEF Pool
  <2>2. CASE j = MainPool
    BY <2>2 DEF Pool
  <2>3. CASE j = FilePool
    BY <2>3 DEF Pool
  <2> QED BY <2>1, <2>2, <2>3, Numbers
<1>3. Pending' = Pending
  <2>1. Pending' = UNION {Pool(h)' : h \in Pools}
    BY DEF Pending, Pools
  <2> QED BY <1>2, <2>1 DEF Pending
<1>4. ASSUME ApartInv
      PROVE  ApartInv'
  <2>1. Spread(tree', queue') /\ Spread(tree', queue_files')
    BY <1>4 DEF ApartInv
  <2>2. \A w \in Workers :
          Spread(tree', tqueue'[w]) /\ Cover(tree', tqueue'[w]) \cap Hand(w)' = {}
    BY <1>1, <1>4 DEF ApartInv
  <2>3. Load(Main)' \subseteq Below(tree', Root)
    BY <1>1, <1>4, Numbers DEF ApartInv
  <2>4. /\ \A h \in Pools : Pool(h)' \subseteq Below(tree', Root)
        /\ \A g, h \in Pools : g # h => Pool(g)' \cap Pool(h)' = {}
    BY <1>2, <1>4 DEF ApartInv
  <2> QED BY <2>1, <2>2, <2>3, <2>4 DEF ApartInv
<1> QED BY <1>1, <1>3, <1>4 DEF Wanted

(* No thread counts anything, and main() has not begun to add.               *)
LEMMA CountsStay ==
  ASSUME CountInv, UNCHANGED <<tree, queue, queue_files, tqueue, element, count, RESULTS,
                               num_occurrences>>,
         SameHands, present' \subseteq present,
         \A t \in Threads : (Fresh(t)' \/ ~SearchRound') => (Fresh(t) \/ ~SearchRound),
         \A t \in Threads : Ended(t)' => Ended(t),
         \/ mpc' = mpc /\ created' = created
         \/ mpc \notin {"tally", "done"} /\ mpc' \notin {"tally", "done"},
         mpc' \notin {"serial", "start", "crashed"} => mpc \notin {"serial", "start", "crashed"}
  PROVE  CountInv'
<1>1. PICK M \in SUBSET Paths : MainCounted(M) /\
             \E A \in [Threads -> SUBSET M] : ThreadsCounted(M, A)
  BY DEF CountInv
<1>2. PICK A \in [Threads -> SUBSET M] : ThreadsCounted(M, A)
  BY <1>1
<1>3. Load(Main)' = Load(Main) /\ Pending' = Pending /\ Wanted' = Wanted
  BY PoolsStay, Numbers
<1>4. MainCounted(M)'
  BY <1>1, <1>3 DEF MainCounted
<1>5. ThreadsCounted(M, A)'
  <2>1. /\ A \in [Threads -> SUBSET M]
        /\ \A t, u \in Threads : t # u => A[t] \cap A[u] = {}
        /\ \A t \in Threads : A[t] \cap Pending' = {}
        /\ \A t \in Threads : count'[t] = Total(tree', A[t])
        /\ tree'.kind[Root] # "dir" => Pending' = {} /\ \A t \in Threads : A[t] = {}
    BY <1>2, <1>3 DEF ThreadsCounted
  <2>2. \A t \in Threads : Fresh(t)' \/ ~SearchRound' => A[t] = {}
    BY <1>2 DEF ThreadsCounted
  <2>3. \A t \in Threads : Ended(t)' => RESULTS'[t] = count'[t]
    BY <1>2 DEF ThreadsCounted
  <2>4. mpc' \notin {"tally", "done"} => num_occurrences' = 0
    BY <1>2 DEF ThreadsCounted
  <2>5. mpc' \in {"tally", "done"} =>
          num_occurrences' = Total(tree', UNION {A[t] : t \in 0..(created' - 1)})
    BY <1>2 DEF ThreadsCounted
  <2>6. tree'.kind[Root] = "dir" /\ mpc' \notin {"serial", "start", "crashed"} =>
          \A x \in Wanted' : x \in present' => x \in Pending' \/ \E t \in Threads : x \in A[t]
    BY <1>2, <1>3 DEF ThreadsCounted
  <2> QED BY <2>1, <2>2, <2>3, <2>4, <2>5, <2>6 DEF ThreadsCounted
<1> QED BY <1>2, <1>4, <1>5 DEF CountInv

(* The steps of main() at which only its point and its counter change.       *)
LEMMA MainMoves ==
  ASSUME GInv,
         \/ start_parallel \/ overrun_elements \/ create_fails \/ all_created \/ join_thread
  PROVE  GInv'
<1>1. /\ UNCHANGED <<fsVars, mode, queue, items_per_thread, num_occurrences, threadVars,
                     sharedVars>>
      /\ \/ /\ mpc = "serial" /\ tpc[Main] = "finished" /\ mpc' = "start" /\ round' = 1
            /\ created' = created
         \/ /\ mpc = "create" /\ mpc' \in {"crashed", "exited"} /\ round' = round
            /\ created' = created
         \/ /\ mpc = "create" /\ created = NUM_THREADS /\ mpc' = "join" /\ round' = round
            /\ created' = 0
         \/ /\ mpc = "join" /\ ~joins_over /\ mpc' = "join" /\ round' = round
            /\ tpc[created] = "finished" /\ created' = created + 1
  BY DEF start_parallel, overrun_elements, create_fails, all_created, join_thread
<1>2. UNCHANGED <<tree, present, mode, queue, items_per_thread, num_occurrences,
                  tpc, tqueue, element, count, queue_files, mutex_shared, RESULTS>>
  BY <1>1 DEF fsVars, threadVars, sharedVars
<1>3. SameHands
  BY <1>2 DEF SameHands
<1>4. GType /\ PresentInv /\ PhaseInv /\ KindInv /\ ApartInv /\ CountInv
  BY DEF GInv
<1>5. GType' /\ PresentInv'
  <2>1. created \in 0..NUM_THREADS /\ NUM_THREADS \in Nat
    BY <1>4, Numbers DEF GType
  <2>2. created' \in 0..NUM_THREADS
    BY <1>1, <2>1 DEF joins_over
  <2> QED BY <1>1, <1>2, <1>4, <2>2 DEF GType, PresentInv
<1>6. PhaseInv'
  <2>1. CASE /\ mpc = "serial" /\ tpc[Main] = "finished" /\ mpc' = "start" /\ round' = 1
             /\ created' = created
    BY <1>2, <1>4, <2>1 DEF PhaseInv
  <2>2. CASE /\ mpc = "create" /\ mpc' \in {"crashed", "exited"} /\ round' = round
             /\ created' = created
    BY <1>2, <1>4, <2>2 DEF PhaseInv
  <2>3. CASE /\ mpc = "create" /\ created = NUM_THREADS /\ mpc' = "join" /\ round' = round
             /\ created' = 0
    <3>1. source = <<>>
      <4>1. items_per_thread * (NUM_THREADS - created) = 0
        BY <1>4, <2>3, Numbers DEF GType
      <4>2. source \in Seq(Paths) /\ Len(source) <= 0
        BY <1>4, <2>3, <4>1 DEF GType, PhaseInv, source
      <4> QED BY <4>2, EmptySeq, LenProperties
    <3>2. queue = <<>> /\ (SearchRound => queue_files = <<>>)
      BY <1>4, <3>1 DEF PhaseInv, SearchRound, source
    <3>3. \A t \in Threads : ~(t < created')
      BY <2>3, Numbers
    <3> QED BY <1>2, <1>4, <2>3, <3>2, <3>3 DEF PhaseInv, SearchRound
  <2>4. CASE /\ mpc = "join" /\ ~joins_over /\ mpc' = "join" /\ round' = round
             /\ tpc[created] = "finished" /\ created' = created + 1
    <3>1. created \in Nat /\ \A t \in Threads : t \in Nat
      BY <1>4, Numbers DEF GType
    <3>2. \A t \in Threads : t < created' => t < created \/ t = created
      BY <2>4, <3>1
    <3>3. \A t \in Threads : t < created' => tpc'[t] = "finished"
      BY <1>2, <1>4, <2>4, <3>2 DEF PhaseInv
    <3> QED BY <1>2, <1>4, <2>4, <3>3 DEF PhaseInv, SearchRound
  <2> QED BY <1>1, <2>1, <2>2, <2>3, <2>4
<1>7. KindInv'
  <2>1. round' = 2 => round = 2
    BY <1>1
  <2> QED BY <1>2, <1>4, <2>1 DEF KindInv
<1>8. ApartInv'
  BY <1>2, <1>3, <1>4, PoolsStay
<1>9. CountInv'
  <2>1. SearchRound' <=> SearchRound
    BY <1>1, <1>2, <1>4 DEF SearchRound, PhaseInv
  <2>2. mpc \notin {"tally", "done"} /\ mpc' \notin {"tally", "done"}
    BY <1>1
  <2>3. mpc' \notin {"serial", "start", "crashed"} => mpc \notin {"serial", "start", "crashed"}
    BY <1>1
  <2>4. \A t \in Threads : Fresh(t)' => Fresh(t)
    BY <1>1 DEF Fresh
  <2>5. \A t \in Threads : t \in Nat /\ (created = NUM_THREADS => ~(t >= created))
    BY Numbers DEF Threads
  <2>6. \A t \in Threads : Ended(t)' => Ended(t)
    BY <1>1, <1>2, <2>1, <2>5 DEF Ended, Fresh
  <2> QED BY <1>2, <1>3, <1>4, <2>1, <2>2, <2>3, <2>4, <2>6, CountsStay
<1> QED BY <1>5, <1>6, <1>7, <1>8, <1>9 DEF GInv

(* After the last pthread_join every thread has ended.                       *)
LEMMA JoinsOver ==
  ASSUME GInv, mpc = "join", joins_over
  PROVE  \A t \in Threads : tpc[t] = "finished"
<1>1. created \in 0..NUM_THREADS /\ NUM_THREADS \in Nat /\ PhaseInv
  BY Numbers DEF GInv, GType
<1>2. \A t \in Threads : t < created
  BY <1>1, Numbers DEF joins_over, Threads
<1> QED BY <1>1, <1>2 DEF PhaseInv

(* The threads that looked for files are gone; their files are distributed.  *)
LEMMA JoinFiles ==
  ASSUME GInv, join_files
  PROVE  GInv'
<1>1. /\ mpc = "join" /\ joins_over /\ mode = "dynamic" /\ round = 1 /\ round' = 2
      /\ items_per_thread' = round_up(Len(queue_files), NUM_THREADS)
      /\ created' = 0 /\ mpc' = "create"
  BY DEF join_files, distribute
<1>2. UNCHANGED <<tree, present, mode, queue, num_occurrences, tpc, tqueue, element, count,
                  queue_files, mutex_shared, RESULTS>>
  BY DEF join_files, fsVars, threadVars, sharedVars
<1>3. GType /\ PresentInv /\ PhaseInv /\ KindInv /\ ApartInv /\ CountInv
  BY DEF GInv
<1>4. /\ \A t \in Threads : tpc[t] = "finished" /\ tqueue[t] = <<>>
      /\ tpc[Main] = "finished" /\ tqueue[Main] = <<>>
  BY <1>1, <1>3, Numbers, JoinsOver DEF PhaseInv
<1>5. SameHands
  BY <1>2 DEF SameHands
<1>6. Len(queue_files) \in Nat
  BY <1>3, LenProperties DEF GType
<1>7. GType' /\ PresentInv'
  <2>1. items_per_thread' \in Nat /\ created' \in 0..NUM_THREADS
    BY <1>1, <1>6, SharesSuffice, Numbers
  <2> QED BY <1>1, <1>2, <1>3, <2>1 DEF GType, PresentInv
<1>8. PhaseInv'
  <2>1. Len(source') <= items_per_thread' * (NUM_THREADS - created')
    BY <1>1, <1>2, <1>6, SharesSuffice DEF source
  <2>2. \A w \in Workers : tqueue'[w] = <<>>
    BY <1>2, <1>4, Numbers
  <2> QED BY <1>1, <1>2, <1>3, <1>4, <2>1, <2>2 DEF PhaseInv
<1>9. KindInv'
  <2>1. \A t \in Threads : \A k \in 1..Len(tqueue'[t]) : FALSE
    <3>1. \A t \in Threads : Len(tqueue'[t]) = 0
      BY <1>2, <1>4, EmptySeq
    <3> QED BY <3>1
  <2>2. \A w \in Workers : tpc'[w] = "finished"
    BY <1>2, <1>4, Numbers
  <2> QED BY <1>2, <1>3, <2>1, <2>2 DEF KindInv
<1>10. ApartInv'
  BY <1>2, <1>3, <1>5, PoolsStay
<1>11. CountInv'
  <2>1. ~SearchRound
    BY <1>1 DEF SearchRound
  <2>2. \A t \in Threads : ~Ended(t)'
    BY <1>1, Numbers DEF Ended, Fresh
  <2>3. mpc \notin {"tally", "done"} /\ mpc' \notin {"tally", "done"}
    BY <1>1
  <2>4. mpc \notin {"serial", "start", "crashed"}
    BY <1>1
  <2> QED BY <1>2, <1>3, <1>5, <2>1, <2>2, <2>3, <2>4, CountsStay
<1> QED BY <1>7, <1>8, <1>9, <1>10, <1>11 DEF GInv

(* Somebody deletes an entry.                                                *)
LEMMA DeleteEntry ==
  ASSUME GInv, delete_entry
  PROVE  GInv'
<1>1. PICK p \in present : tree.children[p] \cap present = {} /\ present' = present \ {p}
  BY DEF delete_entry
<1>2. UNCHANGED <<tree, mainVars, threadVars, sharedVars>>
  BY DEF delete_entry
<1>3. UNCHANGED <<tree, mode, mpc, round, queue, created, items_per_thread, num_occurrences,
                  tpc, tqueue, element, count, queue_files, mutex_shared, RESULTS>>
  BY <1>2 DEF mainVars, threadVars, sharedVars
<1>4. GType /\ PresentInv /\ PhaseInv /\ KindInv /\ ApartInv /\ CountInv
  BY DEF GInv
<1>5. SameHands
  BY <1>3 DEF SameHands
<1>6. GType'
  BY <1>1, <1>3, <1>4 DEF GType
<1>7. PresentInv'
  BY <1>1, <1>3, <1>4 DEF PresentInv
<1>8. PhaseInv' /\ KindInv'
  <2>1. SearchRound' = SearchRound /\ source' = source
    BY <1>3 DEF SearchRound, source
  <2>2. PhaseInv'
    BY <1>3, <1>4, <2>1 DEF PhaseInv
  <2>3. KindInv'
    BY <1>3, <1>4 DEF KindInv
  <2> QED BY <2>2, <2>3
<1>9. ApartInv'
  BY <1>3, <1>4, <1>5, PoolsStay
<1>10. CountInv'
  <2>1. /\ SearchRound' = SearchRound /\ present' \subseteq present
        /\ \A t \in Threads : (Fresh(t)' <=> Fresh(t)) /\ (Ended(t)' <=> Ended(t))
    BY <1>1, <1>3 DEF SearchRound, Fresh, Ended
  <2> QED BY <1>3, <1>4, <1>5, <2>1, CountsStay
<1> QED BY <1>6, <1>7, <1>8, <1>9, <1>10 DEF GInv

(* Nothing changes.                                                          *)
LEMMA Stutters ==
  ASSUME GInv, UNCHANGED vars
  PROVE  GInv'
<1>1. UNCHANGED <<tree, present, mode, mpc, round, queue, created, items_per_thread,
                  num_occurrences, tpc, tqueue, element, count, queue_files, mutex_shared,
                  RESULTS>>
  BY DEF vars, fsVars, mainVars, threadVars, sharedVars
<1>2. GType /\ PresentInv /\ PhaseInv /\ KindInv /\ ApartInv /\ CountInv
  BY DEF GInv
<1>3. SameHands /\ SearchRound' = SearchRound /\ source' = source
  BY <1>1 DEF SameHands, SearchRound, source
<1>4. GType' /\ PresentInv'
  BY <1>1, <1>2 DEF GType, PresentInv
<1>5. PhaseInv'
  BY <1>1, <1>2, <1>3 DEF PhaseInv
<1>6. KindInv'
  BY <1>1, <1>2 DEF KindInv
<1>7. ApartInv'
  BY <1>1, <1>2, <1>3, PoolsStay
<1>8. CountInv'
  <2>1. \A t \in Threads : (Fresh(t)' <=> Fresh(t)) /\ (Ended(t)' <=> Ended(t))
    BY <1>1, <1>3 DEF Fresh, Ended
  <2> QED BY <1>1, <1>2, <1>3, <2>1, CountsStay
<1> QED BY <1>4, <1>5, <1>6, <1>7, <1>8 DEF GInv

(* Before the threads are created there is no work for them.                 *)
LEMMA NothingPending ==
  ASSUME PhaseInv, mpc \in {"serial", "start"}
  PROVE  /\ \A t \in Threads : Load(t) = {} /\ Hand(t) = {} /\ tqueue[t] = <<>>
         /\ queue = <<>> /\ queue_files = <<>> /\ Pending = {}
<1>1. /\ queue = <<>> /\ queue_files = <<>>
      /\ \A t \in Threads : tpc[t] = "idle" /\ tqueue[t] = <<>>
  BY Numbers DEF PhaseInv
<1>2. \A t \in Threads : Load(t) = {} /\ Hand(t) = {}
  BY <1>1, EmptyQueue DEF Load, Hand
<1>3. \A j \in Pools : Pool(j) = {}
  BY <1>1, <1>2, EmptyQueue, Numbers
<1> QED BY <1>1, <1>2, <1>3 DEF Pending

(* The start path is read and distributed.                                   *)
LEMMA ReadStart ==
  ASSUME GInv, read_start
  PROVE  GInv'
<1>1. UNCHANGED <<tree, present, mode, round, num_occurrences, tpc, tqueue, element, count,
                  queue_files, mutex_shared, RESULTS>> /\ mpc = "start"
  BY DEF read_start, fsVars, threadVars, sharedVars
<1>2. GType /\ PresentInv /\ PhaseInv /\ KindInv /\ ApartInv /\ CountInv
  BY DEF GInv
<1>3. /\ \A t \in Threads : Load(t) = {} /\ Hand(t) = {} /\ tqueue[t] = <<>>
      /\ queue = <<>> /\ queue_files = <<>> /\ Pending = {}
  BY <1>1, <1>2, NothingPending
<1>4. /\ tree \in FileTrees /\ Root \in Below(tree, Root) /\ Root \in Paths
      /\ Below(tree, Root) \subseteq Paths
  BY <1>2, TreeAssumption, BelowBasics DEF GType
<1>5. SameHands /\ PresentInv'
  BY <1>1, <1>2 DEF SameHands, PresentInv
<1>6. CASE mpc' = "crashed" /\ UNCHANGED <<queue, created, items_per_thread>>
  <2>1. GType'
    BY <1>1, <1>2, <1>6 DEF GType
  <2>2. PhaseInv' /\ KindInv'
    BY <1>1, <1>2, <1>6 DEF PhaseInv, KindInv
  <2>3. ApartInv'
    BY <1>1, <1>2, <1>5, <1>6, PoolsStay
  <2>4. SearchRound' = SearchRound
    BY <1>1 DEF SearchRound
  <2>5. /\ mpc \notin {"tally", "done"} /\ mpc' \notin {"tally", "done"} /\ mpc' = "crashed"
        /\ \A t \in Threads : ~Fresh(t)' /\ ~Ended(t)'
    BY <1>1, <1>6 DEF Fresh, Ended
  <2>6. CountInv'
    BY <1>1, <1>2, <1>5, <1>6, <2>4, <2>5, CountsStay
  <2> QED BY <1>5, <2>1, <2>2, <2>3, <2>6 DEF GInv
<1>7. ASSUME NEW s \in Seq(Paths), queue' = s, distribute(s), Spread(tree, s),
             Cover(tree, s) \subseteq Below(tree, Root),
             tree.kind[Root] # "dir" => Cover(tree, s) = {},
             tree.kind[Root] = "dir" =>
               \A x \in Wanted : x \in present => x \in Cover(tree, s)
      PROVE  GInv'
  <2>1. /\ items_per_thread' = round_up(Len(s), NUM_THREADS)
        /\ created' = 0 /\ mpc' = "create" /\ Len(s) \in Nat
    BY <1>7, LenProperties DEF distribute
  <2>2. /\ items_per_thread' \in Nat /\ created' \in 0..NUM_THREADS
        /\ Len(s) <= items_per_thread' * (NUM_THREADS - created')
    BY <2>1, SharesSuffice, Numbers
  <2>3. GType'
    BY <1>1, <1>2, <1>7, <2>1, <2>2 DEF GType
  <2>4. PhaseInv'
    <3>1. source' = s
      BY <1>1, <1>2, <1>7 DEF source, PhaseInv
    <3> QED BY <1>1, <1>2, <1>7, <2>1, <2>2, <3>1 DEF PhaseInv
  <2>5. KindInv'
    BY <1>1, <1>2 DEF KindInv
  <2>6. \A w \in Workers : Hand(w)' = Hand(w) /\ Load(w)' = Load(w)
    <3> SUFFICES ASSUME NEW w \in Workers
                 PROVE  Hand(w)' = Hand(w) /\ Load(w)' = Load(w)
      OBVIOUS
    <3>1. Hand(w)' = Hand(w)
      BY <1>1 DEF Hand
    <3> QED BY <1>1, <3>1 DEF Load
  <2>7. \A j \in Pools : Pool(j)' = IF j = MainPool THEN Cover(tree, s) ELSE {}
    <3> SUFFICES ASSUME NEW j \in Pools
                 PROVE  Pool(j)' = IF j = MainPool THEN Cover(tree, s) ELSE {}
      OBVIOUS
    <3>1. CASE j \in Threads
      <4>1. Load(j)' = {}
        BY <1>3, <2>6, <3>1, Numbers
      <4> QED BY <3>1, <4>1, Numbers DEF Pool
    <3>2. CASE j = MainPool
      BY <1>1, <1>7, <3>2 DEF Pool
    <3>3. CASE j = FilePool
      <4>1. Cover(tree', queue_files') = {}
        BY <1>1, <1>3, EmptyQueue
      <4> QED BY <3>3, <4>1, Numbers DEF Pool
    <3> QED BY <3>1, <3>2, <3>3, Numbers
  <2>8. Pending' = Cover(tree, s)
    <3>1. Pending' = UNION {Pool(h)' : h \in Pools}
      BY DEF Pending, Pools
    <3>2. MainPool \in Pools
      BY Numbers
    <3> QED BY <2>7, <3>1, <3>2
  <2>9. ApartInv'
    <3>1. Spread(tree', queue') /\ Spread(tree', queue_files')
      BY <1>1, <1>2, <1>7 DEF ApartInv
    <3>2. \A w \in Workers :
            Spread(tree', tqueue'[w]) /\ Cover(tree', tqueue'[w]) \cap Hand(w)' = {}
      BY <1>1, <1>2, <2>6 DEF ApartInv
    <3>3. Load(Main)' \subseteq Below(tree', Root)
      BY <1>1, <1>2, <2>6, Numbers DEF ApartInv
    <3>4. /\ \A h \in Pools : Pool(h)' \subseteq Below(tree', Root)
          /\ \A g, h \in Pools : g # h => Pool(g)' \cap Pool(h)' = {}
      BY <1>1, <1>7, <2>7
    <3> QED BY <3>1, <3>2, <3>3, <3>4 DEF ApartInv
  <2>10. CountInv'
    <3>1. PICK M \in SUBSET Paths : MainCounted(M) /\
                 \E A \in [Threads -> SUBSET M] : ThreadsCounted(M, A)
      BY <1>2 DEF CountInv
    <3>2. PICK A \in [Threads -> SUBSET M] : ThreadsCounted(M, A)
      BY <3>1
    <3>3. Load(Main)' = Load(Main) /\ Wanted' = Wanted /\ SearchRound' = SearchRound
      BY <1>1, <2>6, Numbers DEF Wanted, SearchRound
    <3>4. MainCounted(M)'
      BY <1>1, <3>1, <3>3 DEF MainCounted
    <3>5. \A t \in Threads : tpc[t] = "idle" /\ A[t] = {}
      BY <1>1, <1>2, <3>2 DEF PhaseInv, ThreadsCounted, Fresh
    <3>6. num_occurrences = 0
      BY <1>1, <3>2 DEF ThreadsCounted
    <3>7. \A t \in Threads : count'[t] = Total(tree', A[t])
      BY <1>1, <3>2 DEF ThreadsCounted
    <3>8. ThreadsCounted(M, A)'
      <4>1. /\ \A t, u \in Threads : t # u => A[t] \cap A[u] = {}
            /\ \A t \in Threads : A[t] \cap Pending' = {}
            /\ \A t \in Threads : Fresh(t)' \/ ~SearchRound' => A[t] = {}
        BY <3>5
      <4>2. \A t \in Threads : ~Ended(t)'
        BY <1>1, <3>5 DEF Ended
      <4>3. tree'.kind[Root] = "dir" => \A x \in Wanted' : x \in present' => x \in Pending'
        BY <1>1, <1>7, <2>8, <3>3
      <4>4. tree'.kind[Root] # "dir" => Pending' = {} /\ \A t \in Threads : A[t] = {}
        BY <1>1, <1>7, <2>8, <3>5
      <4>5. mpc' \notin {"tally", "done"} /\ num_occurrences' = 0
        BY <1>1, <2>1, <3>6
      <4> QED BY <3>2, <3>7, <4>1, <4>2, <4>3, <4>4, <4>5 DEF ThreadsCounted
    <3> QED BY <3>2, <3>4, <3>8 DEF CountInv
  <2> QED BY <1>5, <2>3, <2>4, <2>5, <2>9, <2>10 DEF GInv
<1>8. CASE /\ Root \notin present \/ tree.kind[Root] # "dir"
           /\ queue' = <<>> /\ distribute(<<>>)
  <2>1. <<>> \in Seq(Paths) /\ Spread(tree, <<>>) /\ Cover(tree, <<>>) = {}
    BY EmptyQueue
  <2>2. ASSUME tree.kind[Root] = "dir", NEW x \in Wanted, x \in present
        PROVE  x \in Cover(tree, <<>>)
    <3>1. Root \in present
      BY <1>2, <1>4, <2>2, PresentAbove DEF Wanted
    <3> QED BY <1>8, <2>2, <3>1
  <2>3. Cover(tree, <<>>) \subseteq Below(tree, Root)
    BY <2>1
  <2> DEFINE s == <<>>
  <2>4. /\ s \in Seq(Paths) /\ queue' = s /\ distribute(s) /\ Spread(tree, s)
        /\ Cover(tree, s) \subseteq Below(tree, Root)
        /\ tree.kind[Root] # "dir" => Cover(tree, s) = {}
        /\ tree.kind[Root] = "dir" => \A x \in Wanted : x \in present => x \in Cover(tree, s)
    BY <1>8, <2>1, <2>2, <2>3
  <2> HIDE DEF s
  <2> QED BY <1>7, <2>4
<1>9. CASE /\ Root \in present \ tree.denied /\ tree.kind[Root] = "dir"
           /\ \E s \in Listings(Root) : queue' = s /\ distribute(s)
  <2>1. PICK s \in Listings(Root) : queue' = s /\ distribute(s)
    BY <1>9
  <2>2. /\ s \in Seq(Paths) /\ Spread(tree, s)
        /\ Cover(tree, s) \subseteq Below(tree, Root)
        /\ \A x \in Below(tree, Root) : x \in present /\ x # Root => x \in Cover(tree, s)
    BY <1>2, <1>4, ListingsApart
  <2>3. \A x \in Wanted : x \in present => x \in Cover(tree, s)
    BY <1>9, <2>2 DEF Wanted, Searchable
  <2> QED BY <1>7, <1>9, <2>1, <2>2, <2>3
<1> QED BY <1>6, <1>8, <1>9 DEF read_start

(* The next thread gets its share.                                           *)
LEMMA CreateThread ==
  ASSUME GInv, create_thread
  PROVE  GInv'
<1> DEFINE n == share(source)
           a == SubSeq(source, 1, n)
           b == SubSeq(source, n + 1, Len(source))
           N == {}
<1>0. N = {} /\ N \in SUBSET Paths
  OBVIOUS
<1> HIDE DEF N
<1>a. PICK t : t = created
  OBVIOUS
<1>b. PICK g : g = IF round = 2 THEN FilePool ELSE MainPool
  OBVIOUS
<1>1. GType /\ PresentInv /\ PhaseInv /\ KindInv /\ ApartInv /\ CountInv
  BY DEF GInv
<1>2. /\ mpc = "create" /\ created < NUM_THREADS /\ created' = created + 1
      /\ tqueue' = [tqueue EXCEPT ![t] = a] /\ tpc' = [tpc EXCEPT ![t] = "loop"]
      /\ count' = [count EXCEPT ![t] = 0]
      /\ UNCHANGED <<tree, present, mode, mpc, round, items_per_thread, num_occurrences,
                     element, mutex_shared, RESULTS>>
  BY <1>a DEF create_thread, fsVars
<1>3. IF round = 2 THEN queue_files' = b /\ queue' = queue
                   ELSE queue' = b /\ queue_files' = queue_files
  BY DEF create_thread, leftover
<1>4. t \in Threads /\ t \in Nat /\ created' \in 0..NUM_THREADS
  BY <1>a, <1>1, <1>2, Numbers DEF GType, Threads
<1>5. t \in Workers /\ t # Main /\ t \in Pools /\ g \in Pools /\ g # t
  BY <1>b, <1>4, Numbers
<1>6. Fresh(t) /\ tqueue[t] = <<>> /\ Load(t) = {} /\ Hand(t) = {}
  <2>0. t >= created /\ Fresh(t)
    BY <1>a, <1>2, <1>4 DEF Fresh
  <2>1. tpc[t] \in {"idle", "finished"}
    BY <1>1, <1>2, <1>4, <2>0 DEF PhaseInv
  <2>2. tqueue[t] = <<>>
    BY <1>1, <1>5, <2>1 DEF PhaseInv
  <2> QED BY <2>0, <2>1, <2>2, EmptyQueue DEF Load, Hand
<1>7. /\ source \in Seq(Paths) /\ Spread(tree, source) /\ tree \in FileTrees
      /\ Cover(tree, source) = Pool(g) /\ Len(source) \in Nat
      /\ Len(source) <= items_per_thread * (NUM_THREADS - created)
      /\ items_per_thread \in Nat
  <2>1. source \in Seq(Paths)
    BY <1>1 DEF source, GType
  <2>2. Spread(tree, source) /\ Cover(tree, source) = Pool(g)
    BY <1>b, <1>1, Numbers DEF source, ApartInv
  <2>3. Len(source) <= items_per_thread * (NUM_THREADS - created)
    BY <1>1, <1>2 DEF PhaseInv
  <2> QED BY <1>1, <2>1, <2>2, <2>3, LenProperties DEF GType
<1>8. n \in Nat /\ n = IF Len(source) < items_per_thread THEN Len(source) ELSE items_per_thread
  BY <1>7 DEF share
<1>9. n \in 0..Len(source) /\ Len(source) - n <= items_per_thread * (NUM_THREADS - created')
  <2> HIDE DEF n
  <2>1. Len(source) - n <= items_per_thread * (NUM_THREADS - (created + 1)) /\ n \in 0..Len(source)
    BY <1>a, <1>2, <1>4, <1>7, <1>8, SharesToCome, Numbers
  <2> QED BY <1>2, <2>1
<1> HIDE DEF n
<1>10. Split(tree, source, n, a, b)
  BY <1>7, <1>9, QueueSplits
<1> HIDE DEF a, b
<1>11. /\ tpc'[t] = "loop" /\ tqueue'[t] = a /\ count'[t] = 0
       /\ \A u \in Workers : u # t =>
            tpc'[u] = tpc[u] /\ tqueue'[u] = tqueue[u] /\ count'[u] = count[u]
  BY <1>1, <1>2, <1>5 DEF GType
<1>12. GType'
  <2>1. tpc' \in [Workers -> Points]
    BY <1>1, <1>2 DEF GType, Points
  <2>2. tqueue' \in [Workers -> Seq(Paths)] /\ count' \in [Workers -> Nat]
    BY <1>1, <1>2, <1>10 DEF GType, Split
  <2>3. queue' \in Seq(Paths) /\ queue_files' \in Seq(Paths)
    BY <1>1, <1>3, <1>10 DEF GType, Split
  <2> QED BY <1>1, <1>2, <1>4, <2>1, <2>2, <2>3 DEF GType
<1>13. PresentInv'
  BY <1>1, <1>2 DEF PresentInv
<1>14. source' = b
  BY <1>2, <1>3 DEF source
<1>15. PhaseInv'
  <2>1. \A u \in Threads :
          u >= created' => tpc'[u] = IF round' = 2 THEN "finished" ELSE "idle"
    <3> SUFFICES ASSUME NEW u \in Threads, u >= created'
                 PROVE  tpc'[u] = IF round' = 2 THEN "finished" ELSE "idle"
      OBVIOUS
    <3>1. u \in Nat /\ u >= created /\ u # t
      BY <1>a, <1>2, <1>4, Numbers
    <3> QED BY <1>1, <1>2, <1>11, <3>1, Numbers DEF PhaseInv
  <2>2. Len(source') <= items_per_thread' * (NUM_THREADS - created')
    BY <1>2, <1>9, <1>10, <1>14 DEF Split
  <2>3. \A w \in Workers : tpc'[w] \in {"idle", "finished"} => tqueue'[w] = <<>>
    BY <1>1, <1>11 DEF PhaseInv
  <2>4. tpc'[Main] = "finished"
    BY <1>1, <1>2, <1>5, <1>11, Numbers DEF PhaseInv
  <2>5. /\ mode = "static" => round # 2 /\ queue_files' = <<>>
        /\ round = 2 => queue' = <<>>
    BY <1>1, <1>3 DEF PhaseInv
  <2> QED BY <1>1, <1>2, <2>1, <2>2, <2>3, <2>4, <2>5 DEF PhaseInv
<1>16. KindInv'
  <2>1. round = 2 => \A m \in 1..Len(source) : tree.kind[source[m]] = "reg"
    BY <1>1 DEF KindInv, source
  <2>2. round = 2 => \A k \in 1..Len(a) : tree.kind[a[k]] = "reg"
    BY <1>10, <2>1 DEF Split
  <2>3. round = 2 => \A k \in 1..Len(b) : tree.kind[b[k]] = "reg"
    BY <1>10, <2>1 DEF Split
  <2>4. \A k \in 1..Len(queue_files') : tree.kind[queue_files'[k]] = "reg"
    BY <1>1, <1>3, <2>3 DEF KindInv
  <2>5. round = 2 => \A u \in Threads : \A k \in 1..Len(tqueue'[u]) :
                       tree.kind[tqueue'[u][k]] = "reg"
    BY <1>1, <1>11, <2>2, Numbers DEF KindInv
  <2>6. \A w \in Workers :
          /\ tpc'[w] = "dir" => tree.kind[element[w]] = "dir"
          /\ tpc'[w] \in {"reg", "insert"} => tree.kind[element[w]] = "reg"
    BY <1>1, <1>11 DEF KindInv
  <2> QED BY <1>2, <2>4, <2>5, <2>6 DEF KindInv
<1>17. \A u \in Workers : u # t => Load(u)' = Load(u) /\ Hand(u)' = Hand(u)
  <2> SUFFICES ASSUME NEW u \in Workers, u # t
               PROVE  Load(u)' = Load(u) /\ Hand(u)' = Hand(u)
    OBVIOUS
  <2>1. Hand(u)' = Hand(u)
    BY <1>2, <1>11 DEF Hand
  <2> QED BY <1>2, <1>11, <2>1 DEF Load
<1>18. Hand(t)' = {} /\ Load(t)' = Cover(tree, a)
  BY <1>2, <1>11 DEF Hand, Load
<1>19. Pool(t) = {} /\ Pool(t)' = Cover(tree, a) /\ Pool(g)' = Cover(tree, b)
  <2>1. Pool(t)' = Load(t)'
    BY <1>4, Numbers DEF Pool
  <2>2. Pool(g)' = Cover(tree, b)
    BY <1>b, <1>2, <1>3, Numbers DEF Pool
  <2> QED BY <1>4, <1>6, <1>18, <2>1, <2>2, Numbers
<1>20. ASSUME NEW j \in Pools, j # g, j # t
       PROVE  Pool(j)' = Pool(j)
  <2>1. CASE j \in Threads
    <3>1. Load(j)' = Load(j)
      BY <1>17, <1>20, <2>1, Numbers
    <3> QED BY <2>1, <3>1, Numbers DEF Pool
  <2>2. CASE j = MainPool
    <3>1. queue' = queue
      BY <1>b, <1>3, <1>20, <2>2
    <3> QED BY <1>2, <2>2, <3>1 DEF Pool
  <2>3. CASE j = FilePool
    <3>1. queue_files' = queue_files
      BY <1>b, <1>3, <1>20, <2>3
    <3> QED BY <1>2, <2>3, <3>1, Numbers DEF Pool
  <2> QED BY <1>20, <2>1, <2>2, <2>3, Numbers
<1>21. /\ \A j \in Pools : Pool(j)' \subseteq Below(tree, Root)
       /\ \A i, j \in Pools : i # j => Pool(i)' \cap Pool(j)' = {}
       /\ Pending' \subseteq Pending /\ N \subseteq Pending /\ N \cap Pending' = {}
       /\ \A x \in Wanted \cap present : x \in Pending => x \in Pending' \/ x \in N
  <2>1. /\ Pool(g)' \cup Pool(t)' \subseteq Pool(g) \cup Pool(t)
        /\ g # t => Pool(g)' \cap Pool(t)' = {}
        /\ N \subseteq Pool(g) \cup Pool(t) /\ N \cap (Pool(g)' \cup Pool(t)') = {}
        /\ \A x \in Wanted \cap present :
             x \in Pool(g) \cup Pool(t) => x \in Pool(g)' \cup Pool(t)' \cup N
    BY <1>0, <1>7, <1>10, <1>19 DEF Split
  <2> QED BY <1>1, <1>5, <1>20, <2>1, PoolStep
<1>22. Load(Main)' = Load(Main)
  BY <1>5, <1>17, Numbers
<1>23. ApartInv'
  <2>1. Spread(tree', queue') /\ Spread(tree', queue_files')
    BY <1>1, <1>2, <1>3, <1>10 DEF ApartInv, Split
  <2>2. ASSUME NEW w \in Workers
        PROVE  Spread(tree', tqueue'[w]) /\ Cover(tree', tqueue'[w]) \cap Hand(w)' = {}
    <3>1. CASE w = t
      BY <1>2, <1>10, <1>11, <1>18, <3>1 DEF Split
    <3>2. CASE w # t
      BY <1>1, <1>2, <1>11, <1>17, <3>2 DEF ApartInv
    <3> QED BY <3>1, <3>2
  <2>3. Load(Main)' \subseteq Below(tree', Root)
    BY <1>1, <1>2, <1>22 DEF ApartInv
  <2> QED BY <1>2, <1>21, <2>1, <2>2, <2>3 DEF ApartInv
<1>24. CountInv'
  <2>1. Total(tree, N) = 0
    BY <1>0, TotalOfNone
  <2>2. count'[t] = (IF Fresh(t) THEN 0 ELSE count[t]) + Total(tree, N)
    BY <1>6, <1>11, <2>1
  <2>3. \A u \in Threads : u # t =>
          count'[u] = count[u] /\ tpc'[u] = tpc[u] /\ RESULTS'[u] = RESULTS[u]
    BY <1>2, <1>11, Numbers
  <2>4. /\ tpc'[t] # "finished" /\ ~Fresh(t)'
        /\ \A u \in Threads : u # t => (Fresh(u)' <=> Fresh(u))
    <3>1. \A u \in Threads : u \in Nat /\ (u >= created' <=> u >= created /\ u # t)
      BY <1>a, <1>2, <1>4, Numbers
    <3> QED BY <1>2, <1>4, <1>11, <3>1 DEF Fresh
  <2>5. N \subseteq Wanted /\ N \subseteq present /\ (N # {} => SearchRound)
    BY <1>0
  <2>6. count'[Main] = count[Main] /\ mpc \in {"create", "join"}
    BY <1>2, <1>5, <1>11, Numbers
  <2> QED BY <1>0, <1>1, <1>2, <1>4, <1>21, <1>22, <2>2, <2>3, <2>4, <2>5, <2>6, ThreadCounts
<1> QED BY <1>12, <1>13, <1>15, <1>16, <1>23, <1>24 DEF GInv

(* The searching threads are gone: main() begins to add their results.       *)
LEMMA JoinSearches ==
  ASSUME GInv, join_searches
  PROVE  GInv'
<1>1. /\ mpc = "join" /\ joins_over /\ SearchRound /\ mpc' = "tally" /\ created' = 0
      /\ UNCHANGED <<tree, present, mode, round, queue, items_per_thread, num_occurrences,
                     tpc, tqueue, element, count, queue_files, mutex_shared, RESULTS>>
  BY DEF join_searches, fsVars, threadVars, sharedVars, SearchRound
<1>2. GType /\ PresentInv /\ PhaseInv /\ KindInv /\ ApartInv /\ CountInv
  BY DEF GInv
<1>3. SameHands /\ SearchRound' = SearchRound
  BY <1>1 DEF SameHands, SearchRound
<1>4. created' \in 0..NUM_THREADS
  BY <1>1, Numbers
<1>5. GType' /\ PresentInv'
  BY <1>1, <1>2, <1>4 DEF GType, PresentInv
<1>6. PhaseInv'
  BY <1>1, <1>2, <1>3, JoinsOver DEF PhaseInv
<1>7. KindInv'
  BY <1>1, <1>2 DEF KindInv
<1>8. ApartInv'
  BY <1>1, <1>2, <1>3, PoolsStay
<1>9. CountInv'
  <2>1. PICK M \in SUBSET Paths : MainCounted(M) /\
               \E A \in [Threads -> SUBSET M] : ThreadsCounted(M, A)
    BY <1>2 DEF CountInv
  <2>2. PICK A \in [Threads -> SUBSET M] : ThreadsCounted(M, A)
    BY <2>1
  <2>3. Load(Main)' = Load(Main) /\ Pending' = Pending /\ Wanted' = Wanted
    BY <1>1, <1>3, PoolsStay, Numbers
  <2>4. MainCounted(M)'
    BY <1>1, <2>1, <2>3 DEF MainCounted
  <2>5. num_occurrences' = Total(tree', UNION {A[t] : t \in 0..(created' - 1)})
    <3>1. num_occurrences = 0
      BY <1>1, <2>2 DEF ThreadsCounted
    <3>2. 0..(created' - 1) = {}
      BY <1>1
    <3>3. UNION {A[t] : t \in 0..(created' - 1)} = {}
      BY <3>2
    <3> QED BY <1>1, <3>1, <3>3, TotalOfNone
  <2>6. \A t \in Threads : ~Fresh(t)' /\ (Ended(t)' => Ended(t))
    BY <1>1, <1>3 DEF Fresh, Ended
  <2>7. ThreadsCounted(M, A)'
    BY <1>1, <1>3, <2>2, <2>3, <2>5, <2>6 DEF ThreadsCounted
  <2> QED BY <2>2, <2>4, <2>7 DEF CountInv
<1> QED BY <1>5, <1>6, <1>7, <1>8, <1>9 DEF GInv

(* main() adds the next result, or prints the sum.                           *)
LEMMA Tally ==
  ASSUME GInv, tally
  PROVE  GInv'
<1>1. /\ mpc = "tally"
      /\ UNCHANGED <<tree, present, mode, round, queue, items_per_thread,
                     tpc, tqueue, element, count, queue_files, mutex_shared, RESULTS>>
  BY DEF tally, fsVars, threadVars, sharedVars
<1>2. GType /\ PresentInv /\ PhaseInv /\ KindInv /\ ApartInv /\ CountInv
  BY DEF GInv
<1>3. SameHands /\ SearchRound' = SearchRound
  BY <1>1 DEF SameHands, SearchRound
<1>4. \A t \in Threads : Ended(t)
  BY <1>1, <1>2 DEF PhaseInv, Ended, Fresh
<1>5. ApartInv'
  BY <1>1, <1>2, <1>3, PoolsStay
<1>6. CASE created < NUM_THREADS
  <2>1. /\ num_occurrences' = num_occurrences + RESULTS[created]
        /\ created' = created + 1 /\ mpc' = mpc
    BY <1>6 DEF tally
  <2>2. created \in Nat /\ created \in Threads /\ created' \in 0..NUM_THREADS
    BY <1>2, <1>6, <2>1, Numbers DEF GType, Threads
  <2>3. num_occurrences' \in Nat
    BY <1>2, <2>1, <2>2 DEF GType
  <2>4. GType' /\ PresentInv'
    BY <1>1, <1>2, <2>1, <2>2, <2>3 DEF GType, PresentInv
  <2>5. PhaseInv'
    BY <1>1, <1>2, <1>3, <2>1 DEF PhaseInv
  <2>6. KindInv'
    BY <1>1, <1>2 DEF KindInv
  <2>7. CountInv'
    <3>1. PICK M \in SUBSET Paths : MainCounted(M) /\
                 \E A \in [Threads -> SUBSET M] : ThreadsCounted(M, A)
      BY <1>2 DEF CountInv
    <3>2. PICK A \in [Threads -> SUBSET M] : ThreadsCounted(M, A)
      BY <3>1
    <3>3. Load(Main)' = Load(Main) /\ Pending' = Pending /\ Wanted' = Wanted
      BY <1>1, <1>3, PoolsStay, Numbers
    <3>4. MainCounted(M)'
      BY <1>1, <3>1, <3>3 DEF MainCounted
    <3>5. num_occurrences' = Total(tree', UNION {A[t] : t \in 0..(created' - 1)})
      <4> DEFINE X == UNION {A[t] : t \in 0..(created - 1)}
                 Y == A[created]
                 Z == UNION {A[t] : t \in 0..(created' - 1)}
      <4>1. 0..(created' - 1) = (0..(created - 1)) \cup {created}
        BY <2>1, <2>2
      <4>2. Z = X \cup Y
        BY <4>1
      <4>3. \A t \in 0..(created - 1) : t \in Threads /\ t # created
        BY <1>6, <2>2, Numbers DEF Threads
      <4>4. X \in SUBSET Paths /\ Y \in SUBSET Paths
        BY <2>2, <3>1, <3>2, <4>3
      <4>5. X \cap Y = {}
        BY <2>2, <3>2, <4>3 DEF ThreadsCounted
      <4>6. num_occurrences = Total(tree, X) /\ RESULTS[created] = Total(tree, Y)
        BY <1>1, <1>4, <2>2, <3>2 DEF ThreadsCounted
      <4> HIDE DEF X, Y, Z
      <4>7. Total(tree, X \cup Y) = Total(tree, X) + Total(tree, Y)
        BY <1>2, <4>4, <4>5, TotalAdds DEF GType
      <4>8. num_occurrences' = Total(tree', Z)
        BY <1>1, <2>1, <4>2, <4>6, <4>7
      <4> QED BY <4>8 DEF Z
    <3>6. ThreadsCounted(M, A)'
      <4>1. \A t \in Threads : ~Fresh(t)'
        BY <1>1, <2>1 DEF Fresh
      <4> QED BY <1>1, <1>3, <1>4, <2>1, <3>2, <3>3, <3>5, <4>1 DEF ThreadsCounted
    <3> QED BY <3>2, <3>4, <3>6 DEF CountInv
  <2> QED BY <1>5, <2>4, <2>5, <2>6, <2>7 DEF GInv
<1>7. CASE ~(created < NUM_THREADS)
  <2>1. mpc' = "done" /\ num_occurrences' = num_occurrences /\ created' = created
    BY <1>7 DEF tally
  <2>2. created = NUM_THREADS
    BY <1>2, <1>7, Numbers DEF GType
  <2>3. GType' /\ PresentInv'
    BY <1>1, <1>2, <2>1 DEF GType, PresentInv
  <2>4. PhaseInv'
    BY <1>1, <1>2, <1>3, <2>1, <2>2 DEF PhaseInv
  <2>5. KindInv'
    BY <1>1, <1>2 DEF KindInv
  <2>6. CountInv'
    <3>1. PICK M \in SUBSET Paths : MainCounted(M) /\
                 \E A \in [Threads -> SUBSET M] : ThreadsCounted(M, A)
      BY <1>2 DEF CountInv
    <3>2. PICK A \in [Threads -> SUBSET M] : ThreadsCounted(M, A)
      BY <3>1
    <3>3. Load(Main)' = Load(Main) /\ Pending' = Pending /\ Wanted' = Wanted
      BY <1>1, <1>3, PoolsStay, Numbers
    <3>4. MainCounted(M)'
      BY <1>1, <3>1, <3>3 DEF MainCounted
    <3>5. ThreadsCounted(M, A)'
      <4>1. \A t \in Threads : ~Fresh(t)'
        BY <2>1 DEF Fresh
      <4> QED BY <1>1, <1>3, <1>4, <2>1, <3>2, <3>3, <4>1 DEF ThreadsCounted
    <3> QED BY <3>2, <3>4, <3>5 DEF CountInv
  <2> QED BY <1>5, <2>3, <2>4, <2>5, <2>6 DEF GInv
<1> QED BY <1>6, <1>7

-------------------------------------------------------------------------------
(* The theorems.                                                             *)

(* main() starts with the serial search and nothing counted.                 *)
LEMMA InitGInv ==
  ASSUME Init
  PROVE  GInv
<1>1. /\ tree \in FileTrees /\ present = Paths /\ mode \in Modes /\ mpc = "serial" /\ round = 0
      /\ queue = <<>> /\ queue_files = <<>> /\ created = 0 /\ items_per_thread = 0
      /\ mutex_shared = Nobody /\ num_occurrences = 0
      /\ RESULTS = [t \in Threads |-> Uninit]
      /\ tpc = [w \in Workers |-> IF w = Main THEN "loop" ELSE "idle"]
      /\ tqueue = [w \in Workers |-> IF w = Main THEN <<Root>> ELSE <<>>]
      /\ element = [w \in Workers |-> Root] /\ count = [w \in Workers |-> 0]
  BY DEF Init
<1>2. Root \in Paths /\ <<Root>> \in Seq(Paths) /\ Len(<<Root>>) = 1 /\ <<Root>>[1] = Root
  BY TreeAssumption
<1>3. <<>> \in Seq(Paths) /\ Len(<<>>) = 0 /\ Cover(tree, <<>>) = {} /\ Spread(tree, <<>>)
  BY EmptyQueue
<1>4. Cover(tree, <<Root>>) = Below(tree, Root) /\ Spread(tree, <<Root>>)
  <2>1. 1..Len(<<Root>>) = {1}
    BY <1>2
  <2> QED BY <1>2, <2>1 DEF Cover, Spread
<1>5. GType
  <2>1. tqueue \in [Workers -> Seq(Paths)]
    BY <1>1, <1>2, <1>3
  <2>2. tpc \in [Workers -> Points] /\ count \in [Workers -> Nat] /\ RESULTS \in [Threads -> Nat]
    BY <1>1 DEF Points, Uninit
  <2> QED BY <1>1, <1>2, <1>3, <2>1, <2>2, Numbers DEF GType
<1>6. PresentInv
  BY <1>1 DEF PresentInv
<1>7. PhaseInv
  BY <1>1, Numbers DEF PhaseInv
<1>8. KindInv
  <2>1. \A k \in 1..Len(queue_files) : FALSE
    BY <1>1, <1>3
  <2> QED BY <1>1, <2>1 DEF KindInv
<1>9. /\ \A w \in Workers : Hand(w) = {}
      /\ Load(Main) = Below(tree, Root) /\ \A t \in Threads : Load(t) = {}
  BY <1>1, <1>3, <1>4, Numbers DEF Load, Hand
<1>10. \A j \in Pools : Pool(j) = {}
  BY <1>1, <1>3, <1>9, Numbers
<1>11. ApartInv
  <2>1. \A w \in Workers : Spread(tree, tqueue[w]) /\ Cover(tree, tqueue[w]) \cap Hand(w) = {}
    BY <1>1, <1>3, <1>4, <1>9
  <2> QED BY <1>1, <1>3, <1>9, <1>10, <2>1 DEF ApartInv
<1>12. Pending = {}
  BY <1>10 DEF Pending
<1>13. CountInv
  <2> DEFINE M == {}
             A == [t \in Threads |-> {}]
  <2>1. M \in SUBSET Paths /\ A \in [Threads -> SUBSET M]
    OBVIOUS
  <2>2. MainCounted(M)
    BY <1>1, <1>9, TotalOfNone, Numbers DEF MainCounted, Wanted
  <2>3. ThreadsCounted(M, A)
    <3>1. \A t \in Threads : A[t] = {}
      OBVIOUS
    <3>2. \A t \in Threads : count[t] = Total(tree, A[t]) /\ ~Ended(t)
      BY <1>1, <3>1, TotalOfNone, Numbers DEF Ended
    <3> HIDE DEF A
    <3> QED BY <1>1, <1>12, <2>1, <3>1, <3>2 DEF ThreadsCounted
  <2> HIDE DEF M, A
  <2> QED BY <2>1, <2>2, <2>3 DEF CountInv
<1> QED BY <1>5, <1>6, <1>7, <1>8, <1>11, <1>13 DEF GInv

(* The invariant of mini_grep: what is left to look at never overlaps, and   *)
(* with what was counted it makes up every file there is.                    *)
THEOREM Invariance == Spec => []GInv
<1>1. Init => GInv
  BY InitGInv
<1>2. GInv /\ [Next]_vars => GInv'
  <2> SUFFICES ASSUME GInv, [Next]_vars
               PROVE  GInv'
    OBVIOUS
  <2>1. CASE serial_search
    BY <2>1, SerialStep
  <2>2. CASE MainThread
    BY <2>2, MainMoves, ReadStart, CreateThread, JoinFiles, JoinSearches, Tally DEF MainThread
  <2>3. CASE delete_entry
    BY <2>3, DeleteEntry
  <2>4. CASE \E t \in Threads : Worker(t)
    BY <2>4, WorkerStep
  <2>5. CASE UNCHANGED vars
    BY <2>5, Stutters
  <2> QED BY <2>1, <2>2, <2>3, <2>4, <2>5 DEF Next
<1> QED BY <1>1, <1>2, PTL DEF Spec

(* No queue outgrows the file tree.                                          *)
LEMMA QueuesInType ==
  ASSUME GInv, NEW q \in Seq(Paths), Spread(tree, q)
  PROVE  SeqOfPaths(q)
<1>1. Len(q) <= Cardinality(Paths)
  BY QueueBounded DEF GInv, GType
<1> QED BY <1>1, QueueBasics DEF SeqOfPaths

(* Every variable stays in its type, and no queue grows beyond the file      *)
(* tree, whatever the tree, the number of threads and the deletions.         *)
THEOREM TypeCorrect == Spec => []TypeOK
<1>1. GInv => TypeOK
  <2> SUFFICES ASSUME GInv
               PROVE  TypeOK
    OBVIOUS
  <2>1. GType /\ ApartInv
    BY DEF GInv
  <2>2. SeqOfPaths(queue) /\ SeqOfPaths(queue_files)
    BY <2>1, QueuesInType DEF GType, ApartInv
  <2>3. \A w \in Workers :
          /\ tpc[w] \in {"idle", "loop", "dir", "reg", "insert", "finished"}
          /\ SeqOfPaths(tqueue[w]) /\ element[w] \in Paths /\ count[w] \in Nat
    BY <2>1, QueuesInType DEF GType, ApartInv, Points
  <2> QED BY <2>1, <2>2, <2>3 DEF TypeOK, GType
<1> QED BY <1>1, Invariance, PTL

(* SHARED.queue_files and RESULTS are used without a lock only after the     *)
(* threads that write to them have ended, joined one after the other: none   *)
(* that collects files is left while they are distributed, and every result  *)
(* is there when they are added.                                             *)
THEOREM ReadsAlwaysQuiet == Spec => []UnlockedReadsQuiet
<1>1. GInv => UnlockedReadsQuiet
  <2> SUFFICES ASSUME GInv
               PROVE  UnlockedReadsQuiet
    OBVIOUS
  <2>1. GType /\ PhaseInv /\ CountInv
    BY DEF GInv
  <2>2. ASSUME mpc = "create", round = 2, NEW t \in Threads, ~searches(t)
        PROVE  tpc[t] = "finished" /\ tqueue[t] = <<>>
    <3>1. t >= created
      BY <2>1, <2>2, Numbers DEF searches, GType
    <3> QED BY <2>1, <2>2, <3>1, Numbers DEF PhaseInv
  <2>3. ASSUME mpc = "tally", NEW t \in Threads
        PROVE  tpc[t] = "finished" /\ RESULTS[t] = count[t]
    <3>1. PICK M \in SUBSET Paths : \E A \in [Threads -> SUBSET M] : ThreadsCounted(M, A)
      BY <2>1 DEF CountInv
    <3>2. PICK A \in [Threads -> SUBSET M] : ThreadsCounted(M, A)
      BY <3>1
    <3>3. tpc[t] = "finished" /\ Ended(t)
      BY <2>1, <2>3 DEF PhaseInv, Ended, Fresh
    <3> QED BY <3>2, <3>3 DEF ThreadsCounted
  <2> QED BY <2>2, <2>3 DEF UnlockedReadsQuiet
<1> QED BY <1>1, Invariance, PTL

(* No two threads ever have work in common, nor anything that the main       *)
(* thread has still to hand out.                                             *)
THEOREM WorkAlwaysPartitioned == Spec => []WorkPartitioned
<1>1. GInv => WorkPartitioned
  <2> SUFFICES ASSUME GInv, mpc \in {"create", "join"}
               PROVE  /\ \A t, u \in Threads : t # u => Waiting(t) \cap Waiting(u) = {}
                      /\ \A t \in Threads : Waiting(t) \cap {source[k] : k \in DOMAIN source} = {}
    BY DEF WorkPartitioned
  <2>1. GType /\ ApartInv
    BY DEF GInv
  <2>2. ASSUME NEW t \in Threads
        PROVE  Waiting(t) \subseteq Pool(t)
    <3>1. /\ t \in Workers /\ tqueue[t] \in Seq(Paths) /\ tree \in FileTrees
          /\ element[t] \in Below(tree, element[t])
      BY <2>1, Numbers, WorkBasics
    <3>2. \A k \in DOMAIN tqueue[t] : tqueue[t][k] \in Cover(tree, tqueue[t])
      BY <3>1, QueueBasics, CoversElements
    <3>3. Waiting(t) \subseteq Load(t)
      BY <3>1, <3>2 DEF Waiting, Load, Hand
    <3> QED BY <3>3, Numbers
  <2>3. \E g \in Pools : g \notin Threads /\ {source[k] : k \in DOMAIN source} \subseteq Pool(g)
    <3>1. tree \in FileTrees /\ queue \in Seq(Paths) /\ queue_files \in Seq(Paths)
      BY <2>1 DEF GType
    <3>2. \A q \in Seq(Paths) : {q[k] : k \in DOMAIN q} \subseteq Cover(tree, q)
      BY <3>1, QueueBasics, CoversElements
    <3>3. CASE round = 2
      <4>1. {source[k] : k \in DOMAIN source} \subseteq Pool(FilePool)
        BY <3>1, <3>2, <3>3, Numbers DEF source
      <4> QED BY <4>1, Numbers
    <3>4. CASE round # 2
      <4>1. {source[k] : k \in DOMAIN source} \subseteq Pool(MainPool)
        BY <3>1, <3>2, <3>4, Numbers DEF source
      <4> QED BY <4>1, Numbers
    <3> QED BY <3>3, <3>4
  <2>4. \A g, h \in Pools : g # h => Pool(g) \cap Pool(h) = {}
    BY <2>1 DEF ApartInv
  <2>5. \A t \in Threads : t \in Pools
    BY Numbers
  <2> QED BY <2>2, <2>3, <2>4, <2>5
<1> QED BY <1>1, Invariance, PTL

(* The two counts that main() prints agree if nothing was deleted, and the   *)
(* second is never the larger one.                                           *)
THEOREM ParallelAlwaysMatches == Spec => []ParallelMatchesSerial
<1>1. GInv => ParallelMatchesSerial
  <2> SUFFICES ASSUME GInv, mpc = "done"
               PROVE  /\ num_occurrences <= count[Main]
                      /\ present = Paths =>
                           num_occurrences = IF tree.kind[Root] = "dir" THEN count[Main] ELSE 0
    BY DEF ParallelMatchesSerial
  <2>1. PICK M \in SUBSET Paths : MainCounted(M) /\
               \E A \in [Threads -> SUBSET M] : ThreadsCounted(M, A)
    BY DEF GInv, CountInv
  <2>2. PICK A \in [Threads -> SUBSET M] : ThreadsCounted(M, A)
    BY <2>1
  <2> DEFINE X == UNION {A[t] : t \in Threads}
  <2>3. X \subseteq M
    BY <2>2
  <2>4. count[Main] = Total(tree, M) /\ M \subseteq Wanted /\ Wanted \subseteq Paths
    BY <2>1 DEF MainCounted, Wanted, Searchable
  <2>5. num_occurrences = Total(tree, X)
    <3>1. created = NUM_THREADS
      BY DEF GInv, PhaseInv
    <3> QED BY <2>2, <3>1 DEF ThreadsCounted, Threads
  <2>6. Pending = {}
    <3>1. /\ queue = <<>> /\ queue_files = <<>>
          /\ \A t \in Threads : tpc[t] = "finished" /\ tqueue[t] = <<>>
      BY Numbers DEF GInv, PhaseInv
    <3>2. \A t \in Threads : Load(t) = {}
      BY <3>1, EmptyQueue DEF Load, Hand
    <3>3. \A j \in Pools : Pool(j) = {}
      BY <3>1, <3>2, EmptyQueue, Numbers
    <3> QED BY <3>3 DEF Pending
  <2>7. present = Paths /\ tree.kind[Root] = "dir" => X = M
    BY <2>2, <2>3, <2>4, <2>6 DEF ThreadsCounted
  <2>8. tree.kind[Root] # "dir" => X = {}
    BY <2>2 DEF ThreadsCounted
  <2> HIDE DEF X
  <2>9. Total(tree, X) <= Total(tree, M)
    BY <2>1, <2>3, TotalGrows DEF GInv, GType
  <2> QED BY <2>4, <2>5, <2>7, <2>8, <2>9, TotalOfNone
<1> QED BY <1>1, Invariance, PTL
===============================================================================
