--------------------------- MODULE ClientListProofs ---------------------------
(***************************************************************************)
(* Proofs about ClientList for any number of nodes, pids and any limit of   *)
(* the server: the pointers of the doubly linked list spell out one         *)
(* sequence in both directions, no cursor is ever at a freed node although  *)
(* the server removes clients while it walks along the list, a global       *)
(* message is for everybody once, and the list implements Roster.           *)
(***************************************************************************)
EXTENDS ClientList, WalkLemmas

(* The cell at position k: the sentinels are at 0 and behind the last node.  *)
Place(c, k) == IF k = 0 THEN HEAD ELSE IF k <= Len(c) THEN c[k] ELSE TAIL

(* next and prev lead through the nodes of c, once, between the sentinels.   *)
Chained(c, nx, pv) ==
  /\ c \in Seq(Nodes)
  /\ \A k, m \in 1..Len(c) : c[k] = c[m] => k = m
  /\ nx \in [Cells -> Pointers] /\ pv \in [Cells -> Pointers]
  /\ nx[TAIL] = NULL
  /\ \A k \in 0..Len(c) :
       nx[Place(c, k)] = Place(c, k + 1) /\ pv[Place(c, k + 1)] = Place(c, k)

(* The list between two operations; and what the server keeps of it: no      *)
(* more clients than it has room for, and no pid twice.                      *)
StructureInv ==
  /\ Chained(contents, next, prev)
  /\ data \in [Cells -> Pids \cup {NULL, GARBAGE}]
  /\ \A k \in 1..Len(contents) : data[contents[k]] \in Pids
  /\ logical_length = Len(contents)

ServerInv ==
  user = "server" =>
    /\ Len(contents) <= MAX_NUM_CLIENTS
    /\ \A k, m \in 1..Len(contents) :
         data[contents[k]] = data[contents[m]] => k = m

Searches == {"contains", "absent", "present", "remove"}

(* Who is where.                                                             *)
ControlInv ==
  /\ user \in {"server", "library"}
  /\ pc \in Searches \cup {"idle", "loop", "follow"}
  /\ pc \in Searches => pid \in Pids
  /\ pid \in Pids \cup {NULL} /\ q \in Cells \cup {NULL}
  /\ pc \notin Searches <=> caller = "none"
  /\ user = "server" => caller \in {"none", "new_client", "disconnect", "global"}
  /\ user = "library" =>
       caller \in {"none", "library"} /\ pc \in Searches \cup {"idle"}
  /\ pc = "remove" => caller # "new_client"

(* A search has passed only nodes with other pids.                           *)
SearchInv ==
  /\ pc \in {"contains", "remove"} =>
       \E k \in 1..(Len(contents) + 1) :
         /\ q = Place(contents, k)
         /\ \A m \in 1..(k - 1) : data[contents[m]] # pid
  /\ pc = "absent" =>
       \A m \in 1..Len(contents) : data[contents[m]] # pid

(* The pids from position k on, and those of them a message is meant for.    *)
NamesFrom(c, d, k) == [m \in 1..(Len(c) - k + 1) |-> d[c[k + m - 1]]]
Rest(k) == RemoveFirst(NamesFrom(contents, data, k), sender)

(* The rest of the agenda lies before the cursor of a global message: at the *)
(* node it is at, behind the client it is about to remove, or at the node    *)
(* that the freed one still points to.                                       *)
MessageInv ==
  /\ p \in Cells \cup {NULL} /\ sender \in Pids \cup {NULL}
  /\ agenda \in Seq(Pids) /\ served \in Seq(Pids)
  /\ pc \in {"loop", "follow"} => sender \in Pids
  /\ pc = "loop" =>
       \E k \in 1..(Len(contents) + 1) :
         p = Place(contents, k) /\ agenda = served \o Rest(k)
  /\ pc = "follow" =>
       /\ p \in Nodes \ Listed
       /\ \E k \in 1..(Len(contents) + 1) :
            next[p] = Place(contents, k) /\ agenda = served \o Rest(k)
  /\ caller = "global" =>
       /\ sender \in Pids
       /\ \E k \in 1..Len(contents) :
            /\ p = contents[k] /\ data[p] = pid
            /\ agenda = served \o Rest(k + 1)

LInv == StructureInv /\ ServerInv /\ ControlInv /\ SearchInv /\ MessageInv

-------------------------------------------------------------------------------
(* The places are different cells, and only the inner ones are nodes.        *)
LEMMA Places ==
  ASSUME NEW c, NEW nx, NEW pv, Chained(c, nx, pv)
  PROVE  /\ Len(c) \in Nat
         /\ \A k \in 0..(Len(c) + 1) :
              /\ Place(c, k) \in Cells
              /\ Place(c, k) \in Nodes <=> k \in 1..Len(c)
              /\ k \in 1..Len(c) => Place(c, k) = c[k]
         /\ Place(c, 0) = HEAD /\ Place(c, Len(c) + 1) = TAIL
         /\ \A k, m \in 0..(Len(c) + 1) : Place(c, k) = Place(c, m) => k = m
<1>1. Len(c) \in Nat /\ \A k \in 1..Len(c) : c[k] \in Nodes
  BY LenProperties, ElementOfSeq DEF Chained
<1> QED
  BY <1>1, CellsAssumption DEF Chained, Place, Cells

(* link: inserting a node that is not in the list between positions k and    *)
(* k + 1 gives a chain again.                                                *)
LEMMA LinkChain ==
  ASSUME NEW c, NEW nx, NEW pv, Chained(c, nx, pv),
         NEW k \in 0..Len(c),
         NEW n \in Nodes, \A m \in 1..Len(c) : c[m] # n,
         NEW d \in Seq(Nodes), Len(d) = Len(c) + 1,
         \A m \in 1..(Len(c) + 1) :
           d[m] = IF m <= k THEN c[m] ELSE IF m = k + 1 THEN n ELSE c[m - 1]
  PROVE  Chained(d, [nx EXCEPT ![Place(c, k)] = n, ![n] = Place(c, k + 1)],
                    [pv EXCEPT ![n] = Place(c, k), ![Place(c, k + 1)] = n])
<1> DEFINE a == Place(c, k)
           b == Place(c, k + 1)
           nx2 == [nx EXCEPT ![a] = n, ![n] = b]
           pv2 == [pv EXCEPT ![n] = a, ![b] = n]
<1>1. Len(c) \in Nat /\ k \in 0..(Len(c) + 1) /\ k + 1 \in 0..(Len(c) + 1)
  BY Places
<1>2. /\ a \in Cells /\ b \in Cells /\ n \in Cells /\ a # n /\ b # n
      /\ TAIL \in Cells /\ TAIL # n /\ TAIL # a
  <2>1. a \in Cells /\ b \in Cells
    BY <1>1, Places
  <2>2. a # n
    BY <1>1, Places, CellsAssumption DEF Place
  <2>3. b # n
    BY <1>1, Places, CellsAssumption DEF Place
  <2>4. TAIL # a
    <3>1. Place(c, Len(c) + 1) = TAIL /\ Len(c) + 1 \in 0..(Len(c) + 1)
      BY <1>1, Places
    <3>2. k # Len(c) + 1
      BY <1>1
    <3> QED BY <1>1, <3>1, <3>2, Places
  <2> QED BY <2>1, <2>2, <2>3, <2>4, CellsAssumption DEF Cells
<1>3. ASSUME NEW m \in 0..(Len(d) + 1)
      PROVE  Place(d, m) = IF m <= k THEN Place(c, m)
                           ELSE IF m = k + 1 THEN n ELSE Place(c, m - 1)
  <2>1. CASE m <= k
    BY <1>1, <2>1 DEF Place
  <2>2. CASE m = k + 1
    BY <1>1, <2>2 DEF Place
  <2>3. CASE m > k + 1
    BY <1>1, <2>3 DEF Place
  <2> QED BY <1>1, <2>1, <2>2, <2>3
<1>4. ASSUME NEW m \in 1..Len(d), NEW o \in 1..Len(d), d[m] = d[o]
      PROVE  m = o
  <2> DEFINE Old(x) == IF x <= k THEN x ELSE x - 1
  <2>1. \A x \in 1..Len(d) : x # k + 1 =>
          Old(x) \in 1..Len(c) /\ d[x] = c[Old(x)] /\ d[x] # n
    BY <1>1
  <2>2. d[k + 1] = n /\ k + 1 \in 1..Len(d)
    BY <1>1
  <2>3. CASE m = k + 1 \/ o = k + 1
    BY <1>4, <2>1, <2>2, <2>3
  <2>4. CASE m # k + 1 /\ o # k + 1
    <3>1. c[Old(m)] = c[Old(o)] /\ Old(m) \in 1..Len(c) /\ Old(o) \in 1..Len(c)
      BY <1>4, <2>1, <2>4
    <3>2. Old(m) = Old(o)
      <4> HIDE DEF Old
      <4> QED BY <3>1 DEF Chained
    <3> QED BY <1>1, <2>4, <3>2
  <2> QED BY <2>3, <2>4
<1>5. nx2 \in [Cells -> Pointers] /\ pv2 \in [Cells -> Pointers]
  BY <1>2 DEF Chained, Pointers
<1>6. nx2[TAIL] = NULL
  BY <1>2 DEF Chained
<1>7. ASSUME NEW m \in 0..Len(d)
      PROVE  nx2[Place(d, m)] = Place(d, m + 1) /\ pv2[Place(d, m + 1)] = Place(d, m)
  <2>0. m \in 0..(Len(d) + 1) /\ m + 1 \in 0..(Len(d) + 1)
    BY <1>1
  <2> HIDE DEF a, b
  <2>1. CASE m < k
    <3>1. Place(d, m) = Place(c, m) /\ Place(d, m + 1) = Place(c, m + 1)
      BY <1>1, <1>3, <2>0, <2>1
    <3>2. m \in 0..Len(c) /\ m \in 0..(Len(c) + 1) /\ m + 1 \in 0..(Len(c) + 1)
          /\ m # k /\ m + 1 # k + 1
      BY <1>1, <2>1
    <3>3. /\ Place(c, m) # a /\ Place(c, m + 1) # b
          /\ Place(c, m) # n /\ Place(c, m + 1) # n
          /\ Place(c, m) \in Cells /\ Place(c, m + 1) \in Cells
      BY <1>1, <3>2, Places, CellsAssumption DEF a, b, Place
    <3> QED BY <1>2, <3>1, <3>2, <3>3 DEF Chained
  <2>2. CASE m = k
    <3>1. Place(d, m) = a /\ Place(d, m + 1) = n
      BY <1>1, <1>3, <2>0, <2>2 DEF a
    <3> QED BY <1>2, <3>1 DEF Chained
  <2>3. CASE m = k + 1
    <3>1. Place(d, m) = n /\ Place(d, m + 1) = b
      BY <1>1, <1>3, <2>0, <2>3 DEF b
    <3> QED BY <1>2, <3>1 DEF Chained
  <2>4. CASE m > k + 1
    <3>1. Place(d, m) = Place(c, m - 1) /\ Place(d, m + 1) = Place(c, m)
      BY <1>1, <1>3, <2>0, <2>4
    <3>2. m - 1 \in 0..Len(c) /\ m - 1 \in 0..(Len(c) + 1) /\ m \in 0..(Len(c) + 1)
          /\ m - 1 # k /\ m # k + 1 /\ m - 1 + 1 = m
      BY <1>1, <2>4
    <3>3. /\ Place(c, m - 1) # a /\ Place(c, m) # b
          /\ Place(c, m - 1) # n /\ Place(c, m) # n
          /\ Place(c, m - 1) \in Cells /\ Place(c, m) \in Cells
      BY <1>1, <3>2, Places, CellsAssumption DEF a, b, Place
    <3>4. nx[Place(c, m - 1)] = Place(c, m) /\ pv[Place(c, m)] = Place(c, m - 1)
      BY <3>2 DEF Chained
    <3> QED BY <1>2, <3>1, <3>3, <3>4 DEF Chained
  <2> QED BY <1>1, <2>1, <2>2, <2>3, <2>4
<1> QED
  BY <1>4, <1>5, <1>6, <1>7 DEF Chained

(* What unlink does to the chain when it takes out position k, and what      *)
(* comes of it: a chain of the others, and the node's own next pointer is as *)
(* it was.                                                                   *)
Splices(c, nx, pv, k, d, nx2, pv2) ==
  /\ Chained(c, nx, pv) /\ k \in 1..Len(c) /\ d = RemoveFirst(c, c[k])
  /\ nx2 = [nx EXCEPT ![Place(c, k - 1)] = Place(c, k + 1)]
  /\ pv2 = [pv EXCEPT ![Place(c, k + 1)] = Place(c, k - 1), ![c[k]] = GARBAGE]

Spliced(c, k, d, nx2, pv2) ==
  /\ d \in Seq(Nodes) /\ Len(d) = Len(c) - 1
  /\ \A m \in 1..(Len(c) - 1) : d[m] = IF m < k THEN c[m] ELSE c[m + 1]
  /\ \A m \in 1..Len(d) : d[m] # c[k]
  /\ \A m \in 0..Len(c) :
       Place(d, m) = IF m < k THEN Place(c, m) ELSE Place(c, m + 1)
  /\ Chained(d, nx2, pv2)
  /\ nx2[c[k]] = Place(d, k)

(* unlink: taking out a node leaves a chain.                                 *)
LEMMA UnlinkChain ==
  ASSUME NEW c, NEW nx, NEW pv, NEW k, NEW d, NEW nx2, NEW pv2,
         Splices(c, nx, pv, k, d, nx2, pv2)
  PROVE  Spliced(c, k, d, nx2, pv2)
<1> SUFFICES ASSUME Chained(c, nx, pv), k \in 1..Len(c), NEW n, n = c[k],
                    d = RemoveFirst(c, n),
                    NEW a, a = Place(c, k - 1), NEW b, b = Place(c, k + 1),
                    nx2 = [nx EXCEPT ![a] = b],
                    pv2 = [pv EXCEPT ![b] = a, ![n] = GARBAGE]
             PROVE  Spliced(c, k, d, nx2, pv2)
  BY DEF Splices
<1>1. /\ Len(c) \in Nat /\ k - 1 \in 0..(Len(c) + 1) /\ k \in 0..(Len(c) + 1)
      /\ k + 1 \in 0..(Len(c) + 1) /\ k - 1 + 1 = k /\ k - 1 \in 0..Len(c)
      /\ k \in 0..Len(c)
  BY Places
<1>2. /\ d \in Seq(Nodes) /\ Len(d) = Len(c) - 1
      /\ \A m \in 1..(Len(c) - 1) : d[m] = IF m < k THEN c[m] ELSE c[m + 1]
  <2>1. \A m \in 1..(k - 1) : c[m] # n
    BY <1>1 DEF Chained
  <2>2. c \in Seq(Nodes)
    BY DEF Chained
  <2> QED BY <2>1, <2>2, RemoveFirstAt
<1>3. ASSUME NEW m \in 0..Len(c)
      PROVE  Place(d, m) = IF m < k THEN Place(c, m) ELSE Place(c, m + 1)
  <2>1. CASE m < k
    <3>1. m = 0 \/ m \in 1..(Len(c) - 1)
      BY <1>1, <2>1
    <3> QED BY <1>1, <1>2, <2>1, <3>1 DEF Place
  <2>2. CASE m >= k /\ m < Len(c)
    BY <1>1, <1>2, <2>2 DEF Place
  <2>3. CASE m = Len(c)
    BY <1>1, <1>2, <2>3 DEF Place
  <2> QED BY <1>1, <2>1, <2>2, <2>3
<1>4. \A m \in 1..Len(d) : d[m] # n
  BY <1>1, <1>2 DEF Chained
<1>5. ASSUME NEW m \in 1..Len(d), NEW o \in 1..Len(d), d[m] = d[o]
      PROVE  m = o
  <2> DEFINE Old(x) == IF x < k THEN x ELSE x + 1
  <2>1. \A x \in 1..Len(d) : Old(x) \in 1..Len(c) /\ d[x] = c[Old(x)]
    BY <1>1, <1>2
  <2>2. c[Old(m)] = c[Old(o)] /\ Old(m) \in 1..Len(c) /\ Old(o) \in 1..Len(c)
    BY <1>5, <2>1
  <2>3. Old(m) = Old(o)
    <3> HIDE DEF Old
    <3> QED BY <2>2 DEF Chained
  <2> QED BY SMTT(60), <1>1, <1>2, <2>3
<1>6. /\ a \in Cells /\ b \in Cells /\ n \in Cells /\ a # n /\ b # n /\ a # b
      /\ Place(c, k) = n /\ TAIL # a /\ TAIL \in Cells
  <2>1. a \in Cells /\ b \in Cells /\ n \in Cells /\ Place(c, k) = n
    BY <1>1, Places
  <2>2. Place(c, Len(c) + 1) = TAIL /\ Len(c) + 1 \in 0..(Len(c) + 1)
    BY <1>1, Places
  <2>3. k - 1 # k /\ k + 1 # k /\ k - 1 # k + 1 /\ k - 1 # Len(c) + 1
    BY <1>1
  <2> QED BY <1>1, <2>1, <2>2, <2>3, Places DEF Cells
<1>7. nx2 \in [Cells -> Pointers] /\ pv2 \in [Cells -> Pointers]
  BY <1>6 DEF Chained, Pointers
<1>8. nx2[TAIL] = NULL
  BY <1>6 DEF Chained
<1>9. ASSUME NEW m \in 0..Len(d)
      PROVE  nx2[Place(d, m)] = Place(d, m + 1) /\ pv2[Place(d, m + 1)] = Place(d, m)
  <2>0. m \in 0..Len(c) /\ m + 1 \in 0..Len(c)
    BY <1>1, <1>2
  <2>1. CASE m + 1 < k
    <3>1. Place(d, m) = Place(c, m) /\ Place(d, m + 1) = Place(c, m + 1)
      BY <1>1, <1>3, <2>0, <2>1
    <3>2. /\ m \in 0..(Len(c) + 1) /\ m + 1 \in 0..(Len(c) + 1)
          /\ m # k - 1 /\ m + 1 # k + 1 /\ m # k /\ m + 1 # k
      BY <1>1, <2>0, <2>1
    <3>3. /\ Place(c, m) # a /\ Place(c, m + 1) # b /\ Place(c, m + 1) # n
          /\ Place(c, m) \in Cells /\ Place(c, m + 1) \in Cells
      BY <1>1, <1>6, <3>2, Places
    <3> QED BY <1>6, <2>0, <3>1, <3>3 DEF Chained
  <2>2. CASE m + 1 = k
    <3>1. Place(d, m) = a /\ Place(d, m + 1) = b
      BY <1>1, <1>3, <2>0, <2>2
    <3> QED BY <1>6, <3>1 DEF Chained
  <2>3. CASE m >= k
    <3>1. Place(d, m) = Place(c, m + 1) /\ Place(d, m + 1) = Place(c, m + 1 + 1)
      BY <1>1, <1>3, <2>0, <2>3
    <3>2. /\ m + 1 \in 0..(Len(c) + 1) /\ m + 1 + 1 \in 0..(Len(c) + 1)
          /\ m + 1 # k - 1 /\ m + 1 + 1 # k + 1 /\ m + 1 # k /\ m + 1 + 1 # k
      BY <1>1, <2>0, <2>3
    <3>3. /\ Place(c, m + 1) # a /\ Place(c, m + 1 + 1) # b
          /\ Place(c, m + 1 + 1) # n
          /\ Place(c, m + 1) \in Cells /\ Place(c, m + 1 + 1) \in Cells
      BY <1>1, <1>6, <3>2, Places
    <3>4. /\ nx[Place(c, m + 1)] = Place(c, m + 1 + 1)
          /\ pv[Place(c, m + 1 + 1)] = Place(c, m + 1)
      BY <2>0 DEF Chained
    <3> QED BY <1>6, <3>1, <3>3, <3>4 DEF Chained
  <2> QED BY <1>1, <2>0, <2>1, <2>2, <2>3
<1>10. Chained(d, nx2, pv2)
  BY <1>2, <1>5, <1>7, <1>8, <1>9 DEF Chained
<1>11. nx2[n] = Place(d, k)
  <2>1. nx[Place(c, k)] = Place(c, k + 1)
    BY <1>1 DEF Chained
  <2>2. Place(d, k) = Place(c, k + 1)
    BY <1>1, <1>3
  <2> QED BY <1>6, <2>1, <2>2 DEF Chained
<1> QED
  BY <1>2, <1>3, <1>4, <1>10, <1>11 DEF Spliced

-------------------------------------------------------------------------------
(* The pids in the list, and what is left of them for a message.             *)

(* The pids from a position on are a sequence.                               *)
LEMMA NamesFromSeq ==
  ASSUME NEW c \in Seq(Nodes), NEW d,
         \A m \in 1..Len(c) : d[c[m]] \in Pids,
         NEW k \in 1..(Len(c) + 1)
  PROVE  /\ NamesFrom(c, d, k) \in Seq(Pids)
         /\ Len(NamesFrom(c, d, k)) = Len(c) - k + 1
         /\ \A m \in 1..(Len(c) - k + 1) : NamesFrom(c, d, k)[m] = d[c[k + m - 1]]
<1>1. Len(c) \in Nat
  BY LenProperties
<1>2. Len(c) - k + 1 \in Nat
  BY <1>1
<1>3. \A m \in 1..(Len(c) - k + 1) : k + m - 1 \in 1..Len(c)
  BY <1>1
<1>4. NamesFrom(c, d, k) \in [1..(Len(c) - k + 1) -> Pids]
  BY <1>3 DEF NamesFrom
<1>5. NamesFrom(c, d, k) \in Seq(Pids) /\ Len(NamesFrom(c, d, k)) = Len(c) - k + 1
  BY <1>2, <1>4
<1> QED BY <1>5 DEF NamesFrom

(* The tail of the pids from k on is the pids from k + 1 on.                 *)
LEMMA NamesFromTail ==
  ASSUME NEW c \in Seq(Nodes), NEW d,
         \A m \in 1..Len(c) : d[c[m]] \in Pids,
         NEW k \in 1..Len(c)
  PROVE  /\ NamesFrom(c, d, k) # <<>> /\ NamesFrom(c, d, k)[1] = d[c[k]]
         /\ Tail(NamesFrom(c, d, k)) = NamesFrom(c, d, k + 1)
<1> DEFINE s == NamesFrom(c, d, k)
           t == NamesFrom(c, d, k + 1)
           u == Tail(s)
<1>1. Len(c) \in Nat /\ k \in 1..(Len(c) + 1) /\ k + 1 \in 1..(Len(c) + 1)
  BY LenProperties
<1>2. /\ s \in Seq(Pids) /\ Len(s) = Len(c) - k + 1
      /\ \A m \in 1..(Len(c) - k + 1) : s[m] = d[c[k + m - 1]]
  BY <1>1, NamesFromSeq
<1>3. /\ t \in Seq(Pids) /\ Len(t) = Len(c) - (k + 1) + 1
      /\ \A m \in 1..(Len(c) - (k + 1) + 1) : t[m] = d[c[k + 1 + m - 1]]
  BY <1>1, NamesFromSeq
<1> HIDE DEF s, t
<1>4. s # <<>>
  BY <1>1, <1>2, EmptySeq
<1>5. s[1] = d[c[k]]
  <2>1. 1 \in 1..(Len(c) - k + 1) /\ k + 1 - 1 = k
    BY <1>1
  <2> QED BY <1>2, <2>1
<1>6. /\ u \in Seq(Pids) /\ Len(u) = Len(s) - 1
      /\ \A m \in 1..Len(u) : u[m] = s[m + 1]
  BY <1>2, <1>4, HeadTailProperties
<1> HIDE DEF u
<1>7. ASSUME NEW m \in 1..Len(t)
      PROVE  u[m] = t[m]
  <2>1. /\ m \in 1..Len(u) /\ m + 1 \in 1..(Len(c) - k + 1)
        /\ m \in 1..(Len(c) - (k + 1) + 1) /\ k + (m + 1) - 1 = k + 1 + m - 1
    BY <1>1, <1>2, <1>3, <1>6
  <2> QED BY <1>2, <1>3, <1>6, <2>1
<1>8. Len(u) = Len(t)
  BY <1>1, <1>2, <1>3, <1>6
<1>9. u = t
  BY <1>3, <1>6, <1>7, <1>8, SeqEqual
<1> QED BY <1>4, <1>5, <1>9 DEF s, t, u

(* Behind the last node nothing is left to do.                               *)
LEMMA RestAtEnd ==
  ASSUME NEW c \in Seq(Nodes), NEW d, NEW x
  PROVE  RemoveFirst(NamesFrom(c, d, Len(c) + 1), x) = <<>>
<1>1. Len(c) \in Nat
  BY LenProperties
<1>2. Len(c) - (Len(c) + 1) + 1 = 0
  BY <1>1
<1>3. NamesFrom(c, d, Len(c) + 1) = <<>>
  BY <1>2 DEF NamesFrom
<1>4. \A m \in 1..Len(<<>>) : <<>>[m] # x
  OBVIOUS
<1> QED BY <1>3, <1>4, RemoveFirstAbsent

(* The sender is skipped: no other node has its pid.                         *)
LEMMA RestSkip ==
  ASSUME NEW c \in Seq(Nodes), NEW d,
         \A m \in 1..Len(c) : d[c[m]] \in Pids,
         \A m, o \in 1..Len(c) : d[c[m]] = d[c[o]] => m = o,
         NEW k \in 1..Len(c)
  PROVE  RemoveFirst(NamesFrom(c, d, k), d[c[k]]) =
         RemoveFirst(NamesFrom(c, d, k + 1), d[c[k]])
<1> DEFINE s == NamesFrom(c, d, k)
           t == NamesFrom(c, d, k + 1)
<1>1. Len(c) \in Nat /\ k \in 1..(Len(c) + 1) /\ k + 1 \in 1..(Len(c) + 1)
  BY LenProperties
<1>2. s \in Seq(Pids)
  BY <1>1, NamesFromSeq
<1>3. /\ t \in Seq(Pids) /\ Len(t) = Len(c) - (k + 1) + 1
      /\ \A m \in 1..(Len(c) - (k + 1) + 1) : t[m] = d[c[k + 1 + m - 1]]
  BY <1>1, NamesFromSeq
<1>4. s # <<>> /\ s[1] = d[c[k]] /\ Tail(s) = t
  BY NamesFromTail
<1> HIDE DEF s, t
<1>5. RemoveFirst(s, s[1]) = t
  BY <1>2, <1>4, RemoveFirstHead
<1>6. ASSUME NEW m \in 1..Len(t)
      PROVE  t[m] # d[c[k]]
  <2>1. /\ m \in 1..(Len(c) - (k + 1) + 1) /\ k + 1 + m - 1 \in 1..Len(c)
        /\ k + 1 + m - 1 # k
    BY <1>1, <1>3
  <2> QED BY <1>3, <2>1
<1>7. RemoveFirst(t, d[c[k]]) = t
  BY <1>6, RemoveFirstAbsent
<1> QED BY <1>4, <1>5, <1>7 DEF s, t

(* Anybody else is the next one on the agenda.                               *)
Takes(c, d, k, x, a) ==
  a \o RemoveFirst(NamesFrom(c, d, k), x) =
  Append(a, d[c[k]]) \o RemoveFirst(NamesFrom(c, d, k + 1), x)

(* Taking it leaves the agenda from the next position on.                    *)
LEMMA RestTake ==
  ASSUME NEW c \in Seq(Nodes), NEW d,
         \A m \in 1..Len(c) : d[c[m]] \in Pids,
         NEW k \in 1..Len(c), NEW x, d[c[k]] # x,
         NEW a \in Seq(Pids)
  PROVE  Takes(c, d, k, x, a)
<1> DEFINE s == NamesFrom(c, d, k)
           t == NamesFrom(c, d, k + 1)
           r == RemoveFirst(t, x)
           y == d[c[k]]
<1>1. Len(c) \in Nat /\ k \in 1..(Len(c) + 1)
  BY LenProperties
<1>2. s \in Seq(Pids) /\ y \in Pids
  BY <1>1, NamesFromSeq
<1>3. s # <<>> /\ s[1] = y /\ Tail(s) = t
  BY NamesFromTail
<1> HIDE DEF s, t, y
<1>4. r \in Seq(Pids) /\ RemoveFirst(s, x) = <<y>> \o r
  <2>1. s[1] # x
    BY <1>3 DEF y
  <2> QED BY <1>2, <1>3, <2>1, RemoveFirstLater
<1> HIDE DEF r
<1>5. <<y>> \in Seq(Pids)
  BY <1>2
<1>6. a \o (<<y>> \o r) = (a \o <<y>>) \o r
  <2> DEFINE z == <<y>>
  <2>1. z \in Seq(Pids) /\ r \in Seq(Pids)
    BY <1>4, <1>5
  <2> HIDE DEF z
  <2>2. a \o (z \o r) = (a \o z) \o r
    BY <2>1, SMTT(60)
  <2> QED BY <2>2 DEF z
<1>7. Append(a, y) = a \o <<y>>
  BY <1>2, AppendIsConcat
<1> QED BY <1>4, <1>6, <1>7 DEF s, t, y, r, Takes

-------------------------------------------------------------------------------
(* What the operations do to the list.                                       *)

(* list_push_back appends a node with the new pid.                           *)
LEMMA PushBack ==
  ASSUME StructureInv, NEW x \in Pids, list_push_back(x)
  PROVE  /\ StructureInv'
         /\ Len(contents') = Len(contents) + 1
         /\ data'[contents'[Len(contents) + 1]] = x
         /\ \A m \in 1..Len(contents) :
              contents'[m] = contents[m] /\ data'[contents'[m]] = data[contents[m]]
<1> DEFINE c == contents
           d == contents'
<1>1. PICK n \in Nodes \ Listed :
        /\ link(n, x, list_back, TAIL) /\ d = Append(c, n)
  BY DEF list_push_back
<1>2. /\ Len(c) \in Nat /\ c \in Seq(Nodes) /\ DOMAIN c = 1..Len(c)
      /\ \A m \in 1..Len(c) : c[m] # n /\ c[m] \in Nodes
  BY LenProperties, ElementOfSeq DEF StructureInv, Chained, Listed, ToSet
<1>3. /\ d \in Seq(Nodes) /\ Len(d) = Len(c) + 1
      /\ \A m \in 1..Len(c) : d[m] = c[m]
      /\ d[Len(c) + 1] = n
  BY <1>1, <1>2, AppendProperties
<1>4. list_back = Place(c, Len(c)) /\ Place(c, Len(c) + 1) = TAIL
  <2>1. Place(c, Len(c) + 1) = TAIL
    BY Places DEF StructureInv
  <2> QED BY <1>2, <2>1 DEF StructureInv, Chained, list_back
<1>5. /\ next' = [next EXCEPT ![Place(c, Len(c))] = n, ![n] = Place(c, Len(c) + 1)]
      /\ prev' = [prev EXCEPT ![n] = Place(c, Len(c)), ![Place(c, Len(c) + 1)] = n]
      /\ data' = [data EXCEPT ![n] = x] /\ logical_length' = logical_length + 1
  BY <1>1, <1>4 DEF link
<1> HIDE DEF d, c
<1>6. Chained(d, next', prev')
  <2>1. \A m \in 1..(Len(c) + 1) :
          d[m] = IF m <= Len(c) THEN c[m]
                 ELSE IF m = Len(c) + 1 THEN n ELSE c[m - 1]
    BY <1>2, <1>3
  <2>2. Chained(c, next, prev) /\ Len(c) \in 0..Len(c)
    BY <1>2 DEF StructureInv, c
  <2> QED BY <1>2, <1>3, <1>5, <2>1, <2>2, LinkChain
<1>7. /\ \A m \in 1..Len(c) : data'[d[m]] = data[c[m]]
      /\ data'[d[Len(c) + 1]] = x
  BY <1>1, <1>2, <1>3, <1>5 DEF StructureInv, Cells
<1>8. \A m \in 1..Len(d) : data'[d[m]] \in Pids
  BY <1>2, <1>3, <1>7 DEF StructureInv, c
<1>9. data' \in [Cells -> Pids \cup {NULL, GARBAGE}]
  BY <1>1, <1>5 DEF StructureInv, Cells
<1> QED
  BY <1>3, <1>5, <1>6, <1>7, <1>8, <1>9 DEF StructureInv, c, d

(* list_push_front puts it before all others.                                *)
LEMMA PushFront ==
  ASSUME StructureInv, NEW x \in Pids, list_push_front(x)
  PROVE  /\ StructureInv'
         /\ Len(contents') = Len(contents) + 1
         /\ data'[contents'[1]] = x
         /\ \A m \in 1..Len(contents) :
              data'[contents'[m + 1]] = data[contents[m]]
<1> DEFINE c == contents
           d == contents'
<1>1. PICK n \in Nodes \ Listed :
        /\ link(n, x, HEAD, list_front) /\ d = <<n>> \o c
  BY DEF list_push_front
<1>2. /\ Len(c) \in Nat /\ c \in Seq(Nodes) /\ DOMAIN c = 1..Len(c)
      /\ \A m \in 1..Len(c) : c[m] # n /\ c[m] \in Nodes
  BY LenProperties, ElementOfSeq DEF StructureInv, Chained, Listed, ToSet
<1>3. /\ d \in Seq(Nodes) /\ Len(d) = Len(c) + 1
      /\ d[1] = n
      /\ \A m \in 1..Len(c) : d[m + 1] = c[m]
  <2> DEFINE u == <<n>>
  <2>1. u \in Seq(Nodes) /\ Len(u) = 1 /\ u[1] = n
    OBVIOUS
  <2> HIDE DEF u, c
  <2>2. /\ u \o c \in Seq(Nodes) /\ Len(u \o c) = Len(u) + Len(c)
        /\ \A m \in 1..(Len(u) + Len(c)) :
             (u \o c)[m] = IF m <= Len(u) THEN u[m] ELSE c[m - Len(u)]
    BY <1>2, <2>1, ConcatProperties
  <2>3. d = u \o c
    BY <1>1 DEF u, c
  <2> HIDE DEF d
  <2>4. d[1] = n
    BY <1>2, <2>1, <2>2, <2>3
  <2>5. ASSUME NEW m \in 1..Len(c)
        PROVE  d[m + 1] = c[m]
    <3>1. m + 1 \in 1..(Len(u) + Len(c)) /\ ~(m + 1 <= Len(u)) /\ m + 1 - Len(u) = m
      BY <1>2, <2>1
    <3> QED BY <2>2, <2>3, <3>1
  <2> QED BY <1>2, <2>1, <2>2, <2>3, <2>4, <2>5
<1>4. list_front = Place(c, 0 + 1) /\ Place(c, 0) = HEAD
  <2>1. Place(c, 0) = HEAD /\ 0 \in 0..Len(c)
    BY <1>2 DEF Place
  <2> QED BY <2>1 DEF StructureInv, Chained, list_front
<1>5. /\ next' = [next EXCEPT ![Place(c, 0)] = n, ![n] = Place(c, 0 + 1)]
      /\ prev' = [prev EXCEPT ![n] = Place(c, 0), ![Place(c, 0 + 1)] = n]
      /\ data' = [data EXCEPT ![n] = x] /\ logical_length' = logical_length + 1
  BY <1>1, <1>4 DEF link
<1> HIDE DEF d, c
<1>6. Chained(d, next', prev')
  <2>1. ASSUME NEW m \in 1..(Len(c) + 1)
        PROVE  d[m] = IF m <= 0 THEN c[m] ELSE IF m = 0 + 1 THEN n ELSE c[m - 1]
    <3>1. CASE m = 1
      BY <1>3, <3>1
    <3>2. CASE m # 1
      <4>1. m - 1 \in 1..Len(c) /\ m - 1 + 1 = m /\ ~(m <= 0) /\ m # 0 + 1
        BY <1>2, <3>2
      <4> QED BY <1>3, <4>1
    <3> QED BY <3>1, <3>2
  <2>2. Chained(c, next, prev) /\ 0 \in 0..Len(c)
    BY <1>2 DEF StructureInv, c
  <2> QED BY <1>2, <1>3, <1>5, <2>1, <2>2, LinkChain
<1>7. /\ \A m \in 1..Len(c) : data'[d[m + 1]] = data[c[m]]
      /\ data'[d[1]] = x
  BY <1>1, <1>2, <1>3, <1>5 DEF StructureInv, Cells
<1>8. ASSUME NEW m \in 1..Len(d)
      PROVE  data'[d[m]] \in Pids
  <2>1. CASE m = 1
    BY <1>7, <2>1
  <2>2. CASE m # 1
    <3>1. m - 1 \in 1..Len(c) /\ m - 1 + 1 = m
      BY <1>2, <1>3, <2>2
    <3>2. data'[d[m - 1 + 1]] = data[c[m - 1]]
      BY <1>7, <3>1
    <3> QED BY <3>1, <3>2 DEF StructureInv, c
  <2> QED BY <2>1, <2>2
<1>9. data' \in [Cells -> Pids \cup {NULL, GARBAGE}]
  BY <1>1, <1>5 DEF StructureInv, Cells
<1> QED
  BY <1>3, <1>5, <1>6, <1>7, <1>8, <1>9 DEF StructureInv, c, d

(* unlink removes the node at position k, and keeps the others in order.     *)
LEMMA Unlink ==
  ASSUME StructureInv, NEW k \in 1..Len(contents),
         unlink(contents[k], Place(contents, k - 1), Place(contents, k + 1))
  PROVE  /\ StructureInv'
         /\ Len(contents') = Len(contents) - 1
         /\ \A m \in 1..(Len(contents) - 1) :
              data'[contents'[m]] =
                IF m < k THEN data[contents[m]] ELSE data[contents[m + 1]]
         /\ contents[k] \in Nodes \ Listed'
         /\ next'[contents[k]] = Place(contents', k)
         /\ \A m \in 0..Len(contents) : Place(contents', m) =
              IF m < k THEN Place(contents, m) ELSE Place(contents, m + 1)
<1> DEFINE c == contents
           d == contents'
           n == c[k]
<1>1. /\ next' = [next EXCEPT ![Place(c, k - 1)] = Place(c, k + 1)]
      /\ prev' = [prev EXCEPT ![Place(c, k + 1)] = Place(c, k - 1), ![n] = GARBAGE]
      /\ data' = [data EXCEPT ![n] = GARBAGE]
      /\ logical_length' = logical_length - 1
      /\ d = RemoveFirst(c, n)
  BY DEF unlink
<1>2. Len(c) \in Nat /\ c \in Seq(Nodes) /\ \A m \in 1..Len(c) : c[m] \in Nodes
  BY LenProperties, ElementOfSeq DEF StructureInv, Chained
<1>3. /\ d \in Seq(Nodes) /\ Len(d) = Len(c) - 1
      /\ \A m \in 1..(Len(c) - 1) : d[m] = IF m < k THEN c[m] ELSE c[m + 1]
      /\ \A m \in 1..Len(d) : d[m] # n
      /\ \A m \in 0..Len(c) :
           Place(d, m) = IF m < k THEN Place(c, m) ELSE Place(c, m + 1)
      /\ Chained(d, next', prev')
      /\ next'[n] = Place(d, k)
  <2>1. Splices(c, next, prev, k, d, next', prev')
    BY <1>1 DEF StructureInv, Splices
  <2>2. Spliced(c, k, d, next', prev')
    BY <2>1, UnlinkChain
  <2> QED BY <2>2 DEF Spliced
<1> HIDE DEF c, d
<1>4. ASSUME NEW m \in 1..(Len(c) - 1)
      PROVE  data'[d[m]] = IF m < k THEN data[c[m]] ELSE data[c[m + 1]]
  <2>1. m \in 1..Len(d) /\ m \in 1..Len(c) /\ m + 1 \in 1..Len(c)
    BY <1>2, <1>3
  <2>2. d[m] # n /\ d[m] \in Cells
    BY <1>2, <1>3, <2>1 DEF Cells
  <2>3. data'[d[m]] = data[d[m]]
    BY <1>1, <2>2 DEF StructureInv
  <2> QED BY <1>3, <2>3
<1>5. ASSUME NEW m \in 1..Len(d)
      PROVE  data'[d[m]] \in Pids
  <2>1. m \in 1..(Len(c) - 1) /\ m \in 1..Len(c) /\ m + 1 \in 1..Len(c)
    BY <1>2, <1>3
  <2> QED BY <1>4, <2>1 DEF StructureInv, c
<1>6. data' \in [Cells -> Pids \cup {NULL, GARBAGE}]
  BY <1>1, <1>2 DEF StructureInv, Cells
<1>7. n \in Nodes \ Listed'
  <2>1. DOMAIN d = 1..Len(d)
    BY <1>3, LenProperties
  <2>2. Listed' = {d[m] : m \in DOMAIN d}
    BY DEF Listed, ToSet, d
  <2> QED BY <1>2, <1>3, <2>1, <2>2 DEF c
<1>8. logical_length' = Len(d)
  BY <1>1, <1>3 DEF StructureInv, c
<1>9. StructureInv'
  BY <1>3, <1>5, <1>6, <1>8 DEF StructureInv, d
<1> QED
  BY <1>3, <1>4, <1>7, <1>9 DEF c, d

(* Where the sentinels and the nodes lead to.                                *)
LEMMA Neighbours ==
  ASSUME StructureInv
  PROVE  /\ Len(contents) \in Nat
         /\ list_front = Place(contents, 1)
         /\ list_back = Place(contents, Len(contents))
         /\ \A k \in 0..Len(contents) :
              /\ next[Place(contents, k)] = Place(contents, k + 1)
              /\ ~at_end(Place(contents, k))
         /\ \A k \in 1..Len(contents) :
              /\ Place(contents, k) = contents[k]
              /\ contents[k] \in Nodes /\ contents[k] \notin {HEAD, TAIL}
              /\ prev[contents[k]] = Place(contents, k - 1)
              /\ next[contents[k]] = Place(contents, k + 1)
         /\ at_end(Place(contents, Len(contents) + 1))
<1> DEFINE c == contents
<1>1. Chained(c, next, prev)
  BY DEF StructureInv
<1> HIDE DEF c
<1>2. /\ Len(c) \in Nat /\ Place(c, 0) = HEAD /\ Place(c, Len(c) + 1) = TAIL
      /\ \A k \in 0..(Len(c) + 1) : Place(c, k) \in Cells
      /\ \A k \in 1..Len(c) : Place(c, k) = c[k] /\ c[k] \in Nodes
  BY <1>1, Places
<1>3. list_front = Place(c, 1) /\ list_back = Place(c, Len(c))
  <2>1. 0 \in 0..Len(c) /\ Len(c) \in 0..Len(c) /\ 0 + 1 = 1
    BY <1>2
  <2> QED BY <1>1, <1>2, <2>1 DEF Chained, list_front, list_back
<1>4. ASSUME NEW k \in 0..Len(c)
      PROVE  next[Place(c, k)] = Place(c, k + 1) /\ ~at_end(Place(c, k))
  <2>1. next[Place(c, k)] = Place(c, k + 1) /\ k + 1 \in 0..(Len(c) + 1)
    BY <1>1, <1>2 DEF Chained
  <2> QED BY <1>2, <2>1, CellsAssumption DEF at_end
<1>5. ASSUME NEW k \in 1..Len(c)
      PROVE  /\ c[k] \notin {HEAD, TAIL}
             /\ prev[c[k]] = Place(c, k - 1) /\ next[c[k]] = Place(c, k + 1)
  <2>1. k - 1 \in 0..Len(c) /\ k - 1 + 1 = k /\ k \in 0..Len(c)
    BY <1>2
  <2> QED BY <1>1, <1>2, <2>1, CellsAssumption DEF Chained
<1>6. at_end(Place(c, Len(c) + 1))
  BY <1>1, <1>2 DEF at_end, Chained
<1> QED
  BY <1>2, <1>3, <1>4, <1>5, <1>6 DEF c

(* list_remove_node takes out the node it is given.                          *)
LEMMA RemoveNode ==
  ASSUME StructureInv, NEW k \in 1..Len(contents),
         list_remove_node(contents[k])
  PROVE  unlink(contents[k], Place(contents, k - 1), Place(contents, k + 1))
BY Neighbours DEF list_remove_node

(* list_pop_front takes out the first node, if there is one ...              *)
LEMMA PopFront ==
  ASSUME StructureInv, list_pop_front
  PROVE  \/ Len(contents) = 0 /\ UNCHANGED fields
         \/ /\ 1 \in 1..Len(contents)
            /\ unlink(contents[1], Place(contents, 1 - 1), Place(contents, 1 + 1))
<1>1. Len(contents) \in Nat /\ list_front = Place(contents, 1)
  BY Neighbours
<1>2. CASE Len(contents) = 0
  <2>1. list_front = TAIL
    BY <1>1, <1>2 DEF Place
  <2> QED BY <1>2, <2>1 DEF list_pop_front
<1>3. CASE Len(contents) # 0
  <2>1. 1 \in 1..Len(contents) /\ 1 - 1 = 0
    BY <1>1, <1>3
  <2>2. list_front = contents[1] /\ list_front # TAIL
        /\ next[list_front] = Place(contents, 1 + 1)
    BY <1>1, <2>1, Neighbours
  <2>3. Place(contents, 1 - 1) = HEAD
    BY <2>1 DEF Place
  <2> QED BY <2>1, <2>2, <2>3 DEF list_pop_front
<1> QED BY <1>2, <1>3

(* ... and list_pop_back the last one.                                       *)
LEMMA PopBack ==
  ASSUME StructureInv, list_pop_back
  PROVE  \/ Len(contents) = 0 /\ UNCHANGED fields
         \/ /\ Len(contents) \in 1..Len(contents)
            /\ unlink(contents[Len(contents)], Place(contents, Len(contents) - 1),
                      Place(contents, Len(contents) + 1))
<1>1. /\ Len(contents) \in Nat /\ list_back = Place(contents, Len(contents))
      /\ Place(contents, Len(contents) + 1) = TAIL
  <2>1. Place(contents, Len(contents) + 1) = TAIL
    BY Places DEF StructureInv
  <2> QED BY <2>1, Neighbours
<1>2. CASE Len(contents) = 0
  <2>1. list_back = HEAD
    BY <1>1, <1>2 DEF Place
  <2> QED BY <1>2, <2>1 DEF list_pop_back
<1>3. CASE Len(contents) # 0
  <2>1. Len(contents) \in 1..Len(contents)
    BY <1>1, <1>3
  <2>2. /\ list_back = contents[Len(contents)] /\ list_back # HEAD
        /\ prev[list_back] = Place(contents, Len(contents) - 1)
    BY <1>1, <2>1, Neighbours
  <2> QED BY <1>1, <2>1, <2>2 DEF list_pop_back
<1> QED BY <1>2, <1>3

(* Pids that were all different still are when one is taken out.             *)
LEMMA ServerUnlink ==
  ASSUME StructureInv, ServerInv, UNCHANGED user, NEW k \in 1..Len(contents),
         unlink(contents[k], Place(contents, k - 1), Place(contents, k + 1))
  PROVE  ServerInv'
<1> SUFFICES ASSUME user = "server"
             PROVE  /\ Len(contents') <= MAX_NUM_CLIENTS
                    /\ \A m, o \in 1..Len(contents') :
                         data'[contents'[m]] = data'[contents'[o]] => m = o
  BY DEF ServerInv
<1>1. Len(contents) \in Nat
  BY Neighbours
<1>2. /\ Len(contents') = Len(contents) - 1
      /\ \A m \in 1..(Len(contents) - 1) :
           data'[contents'[m]] =
             IF m < k THEN data[contents[m]] ELSE data[contents[m + 1]]
  BY Unlink
<1>3. Len(contents') <= MAX_NUM_CLIENTS
  BY <1>1, <1>2, RoomAssumption DEF ServerInv
<1>4. ASSUME NEW m \in 1..Len(contents'), NEW o \in 1..Len(contents'),
             data'[contents'[m]] = data'[contents'[o]]
      PROVE  m = o
  <2> DEFINE Old(i) == IF i < k THEN i ELSE i + 1
  <2>1. \A i \in 1..Len(contents') : Old(i) \in 1..Len(contents)
             /\ data'[contents'[i]] = data[contents[Old(i)]]
    BY <1>1, <1>2
  <2>2. Old(m) = Old(o)
    <3>1. /\ Old(m) \in 1..Len(contents) /\ Old(o) \in 1..Len(contents)
          /\ data[contents[Old(m)]] = data[contents[Old(o)]]
      BY <1>4, <2>1
    <3> HIDE DEF Old
    <3> QED BY <3>1 DEF ServerInv
  <2> QED BY <1>1, <1>2, <2>2
<1> QED BY <1>3, <1>4

(* The pids behind the one that is taken out move up.                        *)
LEMMA NamesMoveUp ==
  ASSUME StructureInv, NEW k \in 1..Len(contents),
         unlink(contents[k], Place(contents, k - 1), Place(contents, k + 1))
  PROVE  NamesFrom(contents', data', k) = NamesFrom(contents, data, k + 1)
<1>1. Len(contents) \in Nat
  BY Neighbours
<1>2. /\ Len(contents') = Len(contents) - 1
      /\ \A m \in 1..(Len(contents) - 1) :
           data'[contents'[m]] =
             IF m < k THEN data[contents[m]] ELSE data[contents[m + 1]]
  BY Unlink
<1>3. Len(contents') - k + 1 = Len(contents) - (k + 1) + 1
  BY <1>1, <1>2
<1>4. ASSUME NEW m \in 1..(Len(contents) - (k + 1) + 1)
      PROVE  data'[contents'[k + m - 1]] = data[contents[(k + 1) + m - 1]]
  <2>1. /\ k + m - 1 \in 1..(Len(contents) - 1) /\ ~(k + m - 1 < k)
        /\ (k + m - 1) + 1 = (k + 1) + m - 1
    BY <1>1
  <2> QED BY <1>2, <2>1
<1> QED BY <1>3, <1>4 DEF NamesFrom

-------------------------------------------------------------------------------
(* The invariant is inductive.                                               *)

(* What does not touch the list keeps what is said about it ...              *)
LEMMA ListSame ==
  ASSUME LInv, UNCHANGED <<user, fields>>
  PROVE  StructureInv' /\ ServerInv' /\ Listed' = Listed
BY DEF LInv, StructureInv, ServerInv, Listed, fields

(* ... and outside of a global message nothing depends on its cursor.        *)
LEMMA NoMessage ==
  ASSUME MessageInv, UNCHANGED message,
         pc' \notin {"loop", "follow"}, caller' # "global"
  PROVE  MessageInv'
BY DEF MessageInv, message

(* It holds of the empty list.                                               *)
LEMMA InitInv == Init => LInv
<1> SUFFICES ASSUME Init PROVE LInv
  OBVIOUS
<1>1. contents = <<>> /\ Len(contents) = 0 /\ contents \in Seq(Nodes)
  BY DEF Init
<1>2. /\ next \in [Cells -> Pointers] /\ prev \in [Cells -> Pointers]
      /\ next[TAIL] = NULL /\ next[HEAD] = TAIL /\ prev[TAIL] = HEAD
  BY CellsAssumption DEF Init, list_init, Pointers, Cells
<1>3. Chained(contents, next, prev)
  BY <1>1, <1>2 DEF Chained, Place
<1>4. StructureInv
  BY <1>1, <1>3 DEF Init, list_init, StructureInv
<1>5. ServerInv
  BY <1>1, RoomAssumption DEF ServerInv
<1>6. ControlInv /\ SearchInv
  BY DEF Init, ControlInv, SearchInv, Searches
<1>7. MessageInv
  BY DEF Init, MessageInv
<1> QED BY <1>4, <1>5, <1>6, <1>7 DEF LInv

(* list_contains: one turn of its loop.                                      *)
LEMMA ContainsStep == LInv /\ list_contains => LInv'
<1> SUFFICES ASSUME LInv, list_contains PROVE LInv'
  OBVIOUS
<1>1. UNCHANGED <<user, fields, caller, pid, message>> /\ pc = "contains"
  BY DEF list_contains, goto
<1>2. StructureInv' /\ ServerInv' /\ Listed' = Listed
  BY <1>1, ListSame
<1>3. PICK k \in 1..(Len(contents) + 1) :
         /\ q = Place(contents, k)
         /\ \A m \in 1..(k - 1) : data[contents[m]] # pid
  BY <1>1 DEF LInv, SearchInv
<1>4. /\ Len(contents) \in Nat
      /\ k <= Len(contents) => /\ ~at_end(q) /\ q = contents[k]
                               /\ next[q] = Place(contents, k + 1)
                               /\ next[q] \in Cells
      /\ k = Len(contents) + 1 => at_end(q)
  <2>1. StructureInv
    BY DEF LInv
  <2>2. Len(contents) \in Nat
    BY <2>1, Neighbours
  <2>3. ASSUME k <= Len(contents)
        PROVE  /\ ~at_end(q) /\ q = contents[k]
               /\ next[q] = Place(contents, k + 1) /\ next[q] \in Cells
    <3>1. k \in 1..Len(contents) /\ k \in 0..Len(contents)
          /\ k + 1 \in 0..(Len(contents) + 1)
      BY <2>2, <2>3
    <3>2. Place(contents, k + 1) \in Cells
      BY <2>1, <3>1, Places DEF StructureInv
    <3> QED BY <1>3, <2>1, <3>1, <3>2, Neighbours
  <2>4. k = Len(contents) + 1 => at_end(q)
    BY <1>3, <2>1, Neighbours
  <2> QED BY <2>2, <2>3, <2>4
<1>5. \/ pc' = "absent" /\ at_end(q) /\ q' = q
      \/ pc' = "present" /\ q' = q
      \/ pc' = "contains" /\ ~at_end(q) /\ data[q] # pid /\ q' = next[q]
  BY <1>1 DEF list_contains, goto
<1>6. ControlInv'
  BY <1>1, <1>3, <1>4, <1>5 DEF LInv, ControlInv, Searches
<1>7. SearchInv'
  <2>0. contents' = contents /\ data' = data /\ pid' = pid
    BY <1>1 DEF fields
  <2>1. CASE pc' = "absent" /\ at_end(q)
    <3>1. k - 1 = Len(contents)
      BY <1>4, <2>1
    <3> QED BY <1>3, <2>0, <2>1, <3>1 DEF SearchInv
  <2>2. CASE pc' = "present"
    BY <2>2 DEF SearchInv
  <2>3. CASE pc' = "contains" /\ ~at_end(q) /\ data[q] # pid /\ q' = next[q]
    <3>1. k + 1 \in 1..(Len(contents) + 1) /\ q = contents[k]
          /\ q' = Place(contents, k + 1)
      BY <1>4, <2>3
    <3>2. \A m \in 1..(k + 1 - 1) : data[contents[m]] # pid
      BY <1>3, <1>4, <2>3, <3>1
    <3> QED BY <2>0, <2>3, <3>1, <3>2 DEF SearchInv
  <2> QED BY <1>5, <2>1, <2>2, <2>3
<1>8. MessageInv'
  BY <1>1, <1>5 DEF LInv, MessageInv, Rest, fields, message
<1> QED BY <1>2, <1>6, <1>7, <1>8 DEF LInv

(* list_remove_pid: one turn; the node removed for a global message is the   *)
(* one the message is at.                                                    *)
LEMMA RemoveStep == LInv /\ list_remove_pid => LInv'
<1> SUFFICES ASSUME LInv, list_remove_pid PROVE LInv'
  OBVIOUS
<1>1. UNCHANGED <<user, message>> /\ pc = "remove" /\ StructureInv
  BY DEF list_remove_pid, goto, LInv
<1>2. PICK k \in 1..(Len(contents) + 1) :
         /\ q = Place(contents, k)
         /\ \A m \in 1..(k - 1) : data[contents[m]] # pid
  BY <1>1 DEF LInv, SearchInv
<1>3. /\ Len(contents) \in Nat
      /\ k <= Len(contents) => /\ k \in 1..Len(contents)
                               /\ ~at_end(q) /\ q = contents[k]
                               /\ next[q] = Place(contents, k + 1)
                               /\ next[q] \in Cells
      /\ k = Len(contents) + 1 => at_end(q)
  <2>2. Len(contents) \in Nat
    BY <1>1, Neighbours
  <2>3. ASSUME k <= Len(contents)
        PROVE  /\ k \in 1..Len(contents) /\ ~at_end(q) /\ q = contents[k]
               /\ next[q] = Place(contents, k + 1) /\ next[q] \in Cells
    <3>1. k \in 1..Len(contents) /\ k \in 0..Len(contents)
          /\ k + 1 \in 0..(Len(contents) + 1)
      BY <2>2, <2>3
    <3>2. Place(contents, k + 1) \in Cells
      BY <1>1, <3>1, Places DEF StructureInv
    <3> QED BY <1>1, <1>2, <3>1, <3>2, Neighbours
  <2>4. k = Len(contents) + 1 => at_end(q)
    BY <1>1, <1>2, Neighbours
  <2> QED BY <2>2, <2>3, <2>4
<1>4. /\ caller = "global" => user = "server"
      /\ caller \in {"disconnect", "global", "library"}
  BY <1>1 DEF LInv, ControlInv, Searches
<1>5. CASE at_end(q) /\ pc' = return /\ search_over /\ UNCHANGED fields
  <2>1. k = Len(contents) + 1 /\ \A m \in 1..Len(contents) : data[contents[m]] # pid
    <3>1. k = Len(contents) + 1 /\ k - 1 = Len(contents)
      BY <1>3, <1>5
    <3> QED BY <1>2, <3>1
  <2>2. caller # "global"
    <3>1. MessageInv
      BY DEF LInv
    <3> QED BY <2>1, <3>1 DEF MessageInv
  <2>3. pc' = "idle" /\ caller' = "none" /\ pid' = NULL /\ q' = NULL
    BY <1>5, <2>2 DEF return, search_over
  <2>4. StructureInv' /\ ServerInv'
    BY <1>1, <1>5, ListSame
  <2>5. ControlInv' /\ SearchInv'
    BY <1>1, <2>3 DEF LInv, ControlInv, SearchInv, Searches
  <2>6. MessageInv'
    BY <1>1, <2>3, NoMessage DEF LInv
  <2> QED BY <2>4, <2>5, <2>6 DEF LInv
<1>6. CASE /\ ~at_end(q) /\ data[q] = pid /\ pc' = return
           /\ list_remove_node(q) /\ search_over
  <2>1. k \in 1..Len(contents) /\ q = contents[k]
    BY <1>3, <1>6
  <2>2. unlink(contents[k], Place(contents, k - 1), Place(contents, k + 1))
    BY <1>1, <1>6, <2>1, RemoveNode
  <2>3. StructureInv' /\ ServerInv'
    BY <1>1, <2>1, <2>2, Unlink, ServerUnlink DEF LInv
  <2>4. pc' = return /\ caller' = "none" /\ pid' = NULL /\ q' = NULL
    BY <1>6 DEF search_over
  <2>5. ControlInv' /\ SearchInv'
    BY <1>1, <1>4, <2>4 DEF LInv, ControlInv, SearchInv, Searches, return
  <2>6. CASE caller # "global"
    <3>1. MessageInv'
      BY <1>1, <2>4, <2>6, NoMessage DEF LInv, return
    <3> QED BY <2>3, <2>5, <3>1 DEF LInv
  <2>7. CASE caller = "global"
    <3>1. PICK j \in 1..Len(contents) :
            p = contents[j] /\ data[p] = pid /\ agenda = served \o Rest(j + 1)
      BY <2>7 DEF LInv, MessageInv
    <3>2. j = k
      BY <1>4, <1>6, <2>1, <2>7, <3>1 DEF LInv, ServerInv
    <3>3. /\ p \in Nodes \ Listed' /\ next'[p] = Place(contents', k)
          /\ Len(contents') = Len(contents) - 1
      BY <1>1, <2>1, <2>2, <3>1, <3>2, Unlink
    <3>4. NamesFrom(contents', data', k) = NamesFrom(contents, data, k + 1)
      BY <1>1, <2>1, <2>2, NamesMoveUp
    <3>5. UNCHANGED <<p, sender, agenda, served>>
      BY <1>1 DEF message
    <3>6. agenda' = served' \o Rest(k)'
      BY <3>1, <3>2, <3>4, <3>5 DEF Rest
    <3>7. k \in 1..(Len(contents') + 1)
      BY <1>3, <2>1, <3>3
    <3>8. pc' = "follow"
      BY <2>4, <2>7 DEF return
    <3>9. /\ p \in Cells \cup {NULL} /\ sender \in Pids
          /\ agenda \in Seq(Pids) /\ served \in Seq(Pids)
      BY <2>7 DEF LInv, MessageInv
    <3>10. MessageInv'
      BY <2>4, <3>3, <3>5, <3>6, <3>7, <3>8, <3>9 DEF MessageInv
    <3> QED BY <2>3, <2>5, <3>10 DEF LInv
  <2> QED BY <2>6, <2>7
<1>7. CASE /\ UNCHANGED <<pc, caller, pid, fields>>
           /\ ~at_end(q) /\ data[q] # pid /\ q' = next[q]
  <2>0. contents' = contents /\ data' = data /\ pid' = pid /\ pc' = "remove"
    BY <1>1, <1>7 DEF fields
  <2>1. StructureInv' /\ ServerInv' /\ Listed' = Listed
    BY <1>1, <1>7, ListSame
  <2>2. k + 1 \in 1..(Len(contents) + 1) /\ q = contents[k]
        /\ q' = Place(contents, k + 1) /\ q' \in Cells
    BY <1>3, <1>7
  <2>3. \A m \in 1..(k + 1 - 1) : data[contents[m]] # pid
    BY <1>2, <1>3, <1>7, <2>2
  <2>4. SearchInv'
    BY <2>0, <2>2, <2>3 DEF SearchInv
  <2>5. ControlInv'
    BY <1>1, <1>7, <2>0, <2>2 DEF LInv, ControlInv, Searches
  <2>6. MessageInv'
    BY <1>1, <1>7, <2>1 DEF LInv, MessageInv, Rest, fields, message
  <2> QED BY <2>1, <2>4, <2>5, <2>6 DEF LInv
<1> QED BY <1>1, <1>5, <1>6, <1>7 DEF list_remove_pid, goto

(* A search starts at the first node.                                        *)
LEMMA SearchStarts ==
  ASSUME LInv, UNCHANGED fields, pid' \in Pids, q' = list_front,
         pc' \in {"contains", "remove"}
  PROVE  SearchInv' /\ q' \in Cells
<1>1. contents' = contents /\ data' = data /\ StructureInv
  BY DEF fields, LInv
<1>2. Len(contents) \in Nat /\ q' = Place(contents, 1)
  BY <1>1, Neighbours
<1>3. 1 \in 1..(Len(contents) + 1) /\ 1..(1 - 1) = {} /\ 1 \in 0..(Len(contents) + 1)
  BY <1>2
<1>4. Place(contents, 1) \in Cells
  BY <1>1, <1>3, Places DEF StructureInv
<1> QED BY <1>1, <1>2, <1>3, <1>4 DEF SearchInv

(* new_client and disconnect_client call list_contains.                      *)
LEMMA CallStep ==
  ASSUME NEW x \in Pids
  PROVE  LInv /\ (new_client(x) \/ disconnect_client(x)) => LInv'
<1> SUFFICES ASSUME LInv, new_client(x) \/ disconnect_client(x) PROVE LInv'
  OBVIOUS
<1>1. /\ user = "server" /\ pc = "idle" /\ pc' = "contains" /\ pid' = x
      /\ caller' \in {"new_client", "disconnect"} /\ q' = list_front
      /\ UNCHANGED <<user, fields, message>>
  BY DEF new_client, disconnect_client, call_list_contains
<1>2. StructureInv' /\ ServerInv'
  BY <1>1, ListSame
<1>3. SearchInv' /\ q' \in Cells
  BY <1>1, SearchStarts
<1>4. ControlInv'
  BY <1>1, <1>3 DEF LInv, ControlInv, Searches
<1>5. MessageInv'
  BY <1>1, NoMessage DEF LInv
<1> QED BY <1>2, <1>3, <1>4, <1>5 DEF LInv

(* new_client puts a pid at the end that is not in the list yet.             *)
LEMMA ConnectStep == LInv /\ connect => LInv'
<1> SUFFICES ASSUME LInv, connect PROVE LInv'
  OBVIOUS
<1>1. /\ caller = "new_client" /\ pc' = "idle" /\ caller' = "none"
      /\ pid' = NULL /\ q' = NULL /\ UNCHANGED <<user, message>>
      /\ user = "server" /\ pid \in Pids
  BY DEF connect, search_over, LInv, ControlInv, Searches
<1>2. ControlInv' /\ SearchInv'
  BY <1>1 DEF LInv, ControlInv, SearchInv, Searches
<1>3. MessageInv'
  BY <1>1, NoMessage DEF LInv
<1>4. CASE UNCHANGED fields
  <2>1. StructureInv' /\ ServerInv'
    BY <1>1, <1>4, ListSame
  <2> QED BY <1>2, <1>3, <2>1 DEF LInv
<1>5. CASE pc = "absent" /\ list_has_room /\ list_push_back(pid)
  <2>1. StructureInv /\ ServerInv
    BY DEF LInv
  <2>2. /\ StructureInv' /\ Len(contents') = Len(contents) + 1
        /\ data'[contents'[Len(contents) + 1]] = pid
        /\ \A m \in 1..Len(contents) : data'[contents'[m]] = data[contents[m]]
    BY <1>1, <1>5, <2>1, PushBack
  <2>3. Len(contents) \in Nat
    BY <2>1, Neighbours
  <2>4. \A m \in 1..Len(contents) : data[contents[m]] # pid
    BY <1>5 DEF LInv, SearchInv
  <2>5. Len(contents') <= MAX_NUM_CLIENTS
    BY <1>5, <2>1, <2>2, <2>3, RoomAssumption DEF list_has_room, StructureInv
  <2>6. ASSUME NEW m \in 1..Len(contents'), NEW o \in 1..Len(contents'),
               data'[contents'[m]] = data'[contents'[o]]
        PROVE  m = o
    <3>1. /\ m \in 1..Len(contents) \/ m = Len(contents) + 1
          /\ o \in 1..Len(contents) \/ o = Len(contents) + 1
      BY <2>2, <2>3
    <3> QED BY <1>1, <2>1, <2>2, <2>4, <2>6, <3>1 DEF ServerInv
  <2>7. ServerInv'
    BY <2>5, <2>6 DEF ServerInv
  <2> QED BY <1>2, <1>3, <2>2, <2>7 DEF LInv
<1> QED BY <1>4, <1>5 DEF connect

(* client_remove calls list_remove_pid, or returns.                          *)
LEMMA ClientRemoveStep == LInv /\ client_remove => LInv'
<1> SUFFICES ASSUME LInv, client_remove PROVE LInv'
  OBVIOUS
<1>1. /\ UNCHANGED <<user, fields, message>> /\ caller \in {"disconnect", "global"}
      /\ user = "server"
  BY DEF client_remove, LInv, ControlInv
<1>2. StructureInv' /\ ServerInv' /\ Listed' = Listed
  BY <1>1, ListSame
<1>3. CASE pc = "present" /\ call_list_remove_pid(caller, pid)
  <2>1. /\ pc' = "remove" /\ caller' = caller /\ pid' = pid /\ q' = list_front
        /\ pid \in Pids
    BY <1>3 DEF call_list_remove_pid, LInv, ControlInv, Searches
  <2>2. SearchInv' /\ q' \in Cells
    BY <1>1, <2>1, SearchStarts
  <2>3. ControlInv'
    BY <1>1, <2>1, <2>2 DEF LInv, ControlInv, Searches
  <2>4. MessageInv'
    BY <1>1, <1>2, <2>1 DEF LInv, MessageInv, Rest, fields, message
  <2> QED BY <1>2, <2>2, <2>3, <2>4 DEF LInv
<1>4. CASE goto("absent", return) /\ search_over
  <2>1. /\ pc = "absent" /\ pc' = return /\ caller' = "none"
        /\ pid' = NULL /\ q' = NULL
    BY <1>4 DEF goto, search_over
  <2>2. caller # "global"
    <3>1. \A m \in 1..Len(contents) : data[contents[m]] # pid
      BY <2>1 DEF LInv, SearchInv
    <3> QED BY <3>1 DEF LInv, MessageInv
  <2>3. ControlInv' /\ SearchInv'
    BY <1>1, <2>1, <2>2 DEF LInv, ControlInv, SearchInv, Searches, return
  <2>4. MessageInv'
    BY <1>1, <2>1, <2>2, NoMessage DEF LInv, return
  <2> QED BY <1>2, <2>3, <2>4 DEF LInv
<1> QED BY <1>3, <1>4 DEF client_remove

(* A global message starts at the front, with the agenda before it.          *)
LEMMA GlobalStep ==
  ASSUME NEW x \in Pids
  PROVE  LInv /\ global_message(x) => LInv'
<1> SUFFICES ASSUME LInv, global_message(x) PROVE LInv'
  OBVIOUS
<1>1. /\ user = "server" /\ pc = "idle" /\ pc' = "loop" /\ p' = list_front
      /\ sender' = x /\ served' = <<>> /\ UNCHANGED <<user, fields, search>>
      /\ agenda' = RemoveFirst(Names(contents), x)
  BY DEF global_message, goto
<1>2. StructureInv' /\ ServerInv' /\ Listed' = Listed
  BY <1>1, ListSame
<1>3. ControlInv' /\ SearchInv' /\ caller' = "none"
  BY <1>1 DEF LInv, ControlInv, SearchInv, Searches, search
<1>4. /\ Len(contents) \in Nat /\ contents \in Seq(Nodes)
      /\ DOMAIN contents = 1..Len(contents)
      /\ \A m \in 1..Len(contents) : data[contents[m]] \in Pids
      /\ p' = Place(contents, 1)
  <2>1. StructureInv
    BY DEF LInv
  <2> QED BY <1>1, <2>1, Neighbours, LenProperties DEF StructureInv, Chained
<1>5. 1 \in 1..(Len(contents) + 1) /\ Place(contents, 1) \in Cells
  <2>1. 1 \in 1..(Len(contents) + 1) /\ 1 \in 0..(Len(contents) + 1)
    BY <1>4
  <2> QED BY <2>1, Places DEF LInv, StructureInv
<1>6. Names(contents) = NamesFrom(contents, data, 1)
  <2>1. Len(contents) - 1 + 1 = Len(contents)
        /\ \A m \in 1..Len(contents) : 1 + m - 1 = m
    BY <1>4
  <2> QED BY <1>4, <2>1 DEF Names, Pid, NamesFrom
<1>7. NamesFrom(contents, data, 1) \in Seq(Pids)
  BY <1>4, <1>5, NamesFromSeq
<1>8. agenda' \in Seq(Pids)
  BY <1>1, <1>6, <1>7, RemoveFirstSeq
<1>9. agenda' = served' \o Rest(1)'
  <2>1. Rest(1)' = agenda'
    BY <1>1, <1>6 DEF Rest, fields
  <2> QED BY <1>1, <1>8, <2>1, ConcatEmptySeq
<1>10. contents' = contents
  BY <1>1 DEF fields
<1>11. MessageInv'
  BY <1>1, <1>3, <1>4, <1>5, <1>8, <1>9, <1>10 DEF MessageInv
<1> QED BY <1>2, <1>3, <1>11 DEF LInv

(* Where the loop of a global message is when it has not ended.              *)
LEMMA LoopAt ==
  ASSUME LInv, pc = "loop"
  PROVE  /\ user = "server" /\ caller = "none" /\ sender \in Pids
         /\ contents \in Seq(Nodes)
         /\ \A m \in 1..Len(contents) : data[contents[m]] \in Pids
         /\ \A m, o \in 1..Len(contents) :
              data[contents[m]] = data[contents[o]] => m = o
         /\ agenda \in Seq(Pids) /\ served \in Seq(Pids)
         /\ ~at_end(p) =>
              \E k \in 1..Len(contents) :
                /\ p = contents[k] /\ next[p] = Place(contents, k + 1)
                /\ next[p] \in Cells /\ k + 1 \in 1..(Len(contents) + 1)
                /\ agenda = served \o Rest(k)
<1>1. /\ user = "server" /\ caller = "none" /\ sender \in Pids
      /\ agenda \in Seq(Pids) /\ served \in Seq(Pids)
  BY DEF LInv, ControlInv, MessageInv, Searches
<1>2. /\ StructureInv /\ contents \in Seq(Nodes)
      /\ \A m \in 1..Len(contents) : data[contents[m]] \in Pids
      /\ \A m, o \in 1..Len(contents) :
           data[contents[m]] = data[contents[o]] => m = o
  BY <1>1 DEF LInv, StructureInv, ServerInv, Chained
<1>3. ASSUME ~at_end(p)
      PROVE  \E k \in 1..Len(contents) :
                /\ p = contents[k] /\ next[p] = Place(contents, k + 1)
                /\ next[p] \in Cells /\ k + 1 \in 1..(Len(contents) + 1)
                /\ agenda = served \o Rest(k)
  <2>1. PICK k \in 1..(Len(contents) + 1) :
          p = Place(contents, k) /\ agenda = served \o Rest(k)
    BY DEF LInv, MessageInv
  <2>2. k # Len(contents) + 1 /\ Len(contents) \in Nat
    BY <1>2, <1>3, <2>1, Neighbours
  <2>3. k \in 1..Len(contents) /\ k + 1 \in 1..(Len(contents) + 1)
        /\ k + 1 \in 0..(Len(contents) + 1)
    BY <2>2
  <2>4. p = contents[k] /\ next[p] = Place(contents, k + 1)
    BY <1>2, <2>1, <2>3, Neighbours
  <2>5. next[p] \in Cells
    BY <1>2, <2>3, <2>4, Places DEF StructureInv
  <2> QED BY <2>1, <2>3, <2>4, <2>5
<1> QED BY <1>1, <1>2, <1>3

(* One turn of the loop takes at most one pid off the rest of the agenda.    *)
LEMMA NextOnAgenda ==
  ASSUME LInv, pc = "loop", NEW k \in 1..Len(contents)
  PROVE  /\ data[contents[k]] = sender => Rest(k) = Rest(k + 1)
         /\ data[contents[k]] # sender =>
              served \o Rest(k) = Append(served, data[contents[k]]) \o Rest(k + 1)
<1> DEFINE c == contents
           d == data
           x == sender
           a == served
<1>1. /\ c \in Seq(Nodes) /\ a \in Seq(Pids) /\ k \in 1..Len(c)
      /\ \A m \in 1..Len(c) : d[c[m]] \in Pids
      /\ \A m, o \in 1..Len(c) : d[c[m]] = d[c[o]] => m = o
  BY LoopAt
<1> HIDE DEF c, d, x, a
<1>2. ASSUME d[c[k]] = x
      PROVE  RemoveFirst(NamesFrom(c, d, k), x) = RemoveFirst(NamesFrom(c, d, k + 1), x)
  BY <1>1, <1>2, RestSkip
<1>3. ASSUME d[c[k]] # x
      PROVE  Takes(c, d, k, x, a)
  <2>1. /\ c \in Seq(Nodes) /\ a \in Seq(Pids) /\ k \in 1..Len(c)
        /\ \A m \in 1..Len(c) : d[c[m]] \in Pids
    BY <1>1
  <2> QED BY <1>3, <2>1, RestTake
<1> QED BY <1>2, <1>3 DEF c, d, x, a, Rest, Takes

(* The sender of a global message is passed over.                            *)
LEMMA SkipStep == LInv /\ skip_sender => LInv'
<1> SUFFICES ASSUME LInv, skip_sender PROVE LInv'
  OBVIOUS
<1>1. /\ pc = "loop" /\ ~at_end(p) /\ Pid(p) = sender /\ p' = next[p]
      /\ UNCHANGED <<user, fields, pc, search, sender, agenda, served>>
  BY DEF skip_sender
<1>2. StructureInv' /\ ServerInv' /\ Listed' = Listed
  BY <1>1, ListSame
<1>3. ControlInv' /\ SearchInv'
  BY <1>1 DEF LInv, ControlInv, SearchInv, Searches, search
<1>4. PICK k \in 1..Len(contents) :
        /\ p = contents[k] /\ next[p] = Place(contents, k + 1)
        /\ next[p] \in Cells /\ k + 1 \in 1..(Len(contents) + 1)
        /\ agenda = served \o Rest(k)
  BY <1>1, LoopAt
<1>5. Rest(k) = Rest(k + 1)
  <2>1. data[contents[k]] = sender
    BY <1>1, <1>4 DEF Pid
  <2> QED BY <1>1, <2>1, NextOnAgenda
<1>6. /\ caller' = "none" /\ pc' = "loop" /\ sender' \in Pids
      /\ agenda' = agenda /\ served' = served
      /\ agenda \in Seq(Pids) /\ served \in Seq(Pids)
  BY <1>1, LoopAt DEF search
<1>7. contents' = contents /\ data' = data
  BY <1>1 DEF fields
<1>8. agenda' = served' \o Rest(k + 1)'
  BY <1>1, <1>4, <1>5, <1>6, <1>7 DEF Rest
<1>9. MessageInv'
  BY <1>1, <1>4, <1>6, <1>7, <1>8 DEF MessageInv
<1> QED BY <1>2, <1>3, <1>9 DEF LInv

(* Anybody else gets the message.                                            *)
LEMMA SendStep == LInv /\ send_to => LInv'
<1> SUFFICES ASSUME LInv, send_to PROVE LInv'
  OBVIOUS
<1>1. /\ pc = "loop" /\ ~at_end(p) /\ Pid(p) # sender /\ p' = next[p]
      /\ served' = Append(served, Pid(p))
      /\ UNCHANGED <<user, fields, pc, search, sender, agenda>>
  BY DEF send_to
<1>2. StructureInv' /\ ServerInv' /\ Listed' = Listed
  BY <1>1, ListSame
<1>3. ControlInv' /\ SearchInv'
  BY <1>1 DEF LInv, ControlInv, SearchInv, Searches, search
<1>4. PICK k \in 1..Len(contents) :
        /\ p = contents[k] /\ next[p] = Place(contents, k + 1)
        /\ next[p] \in Cells /\ k + 1 \in 1..(Len(contents) + 1)
        /\ agenda = served \o Rest(k)
  BY <1>1, LoopAt
<1>5. data[contents[k]] # sender /\ Pid(p) = data[contents[k]] /\ Pid(p) \in Pids
  BY <1>1, <1>4, LoopAt DEF Pid
<1>6. /\ caller' = "none" /\ pc' = "loop" /\ sender' \in Pids
      /\ agenda' = agenda /\ agenda \in Seq(Pids) /\ served \in Seq(Pids)
  BY <1>1, LoopAt DEF search
<1>7. contents' = contents /\ data' = data /\ sender' = sender
  BY <1>1 DEF fields
<1>8. agenda = Append(served, Pid(p)) \o Rest(k + 1)
  BY <1>1, <1>4, <1>5, NextOnAgenda
<1>9. agenda' = served' \o Rest(k + 1)'
  BY <1>1, <1>6, <1>7, <1>8 DEF Rest
<1>10. served' \in Seq(Pids)
  BY <1>1, <1>5, <1>6
<1>11. MessageInv'
  BY <1>1, <1>4, <1>6, <1>7, <1>9, <1>10 DEF MessageInv
<1> QED BY <1>2, <1>3, <1>11 DEF LInv

(* Or cannot be reached, and is looked for in order to be removed.           *)
LEMMA UnreachableStep == LInv /\ unreachable => LInv'
<1> SUFFICES ASSUME LInv, unreachable PROVE LInv'
  OBVIOUS
<1>1. /\ pc = "loop" /\ ~at_end(p) /\ Pid(p) # sender
      /\ served' = Append(served, Pid(p))
      /\ pc' = "contains" /\ caller' = "global" /\ pid' = Pid(p)
      /\ q' = list_front
      /\ UNCHANGED <<user, fields, p, sender, agenda>>
  BY DEF unreachable, call_list_contains
<1>2. StructureInv' /\ ServerInv' /\ Listed' = Listed
  BY <1>1, ListSame
<1>3. PICK k \in 1..Len(contents) :
        /\ p = contents[k] /\ agenda = served \o Rest(k)
  BY <1>1, LoopAt
<1>4. data[contents[k]] # sender /\ Pid(p) = data[contents[k]] /\ Pid(p) \in Pids
  BY <1>1, <1>3, LoopAt DEF Pid
<1>5. SearchInv' /\ q' \in Cells
  BY <1>1, <1>4, SearchStarts
<1>6. /\ sender \in Pids /\ user = "server"
      /\ agenda \in Seq(Pids) /\ served \in Seq(Pids)
  BY <1>1, LoopAt
<1>7. ControlInv'
  BY <1>1, <1>4, <1>5, <1>6 DEF ControlInv, Searches
<1>8. contents' = contents /\ data' = data
  BY <1>1 DEF fields
<1>9. agenda = Append(served, Pid(p)) \o Rest(k + 1)
  BY <1>1, <1>3, <1>4, NextOnAgenda
<1>10. agenda' = served' \o Rest(k + 1)'
  BY <1>1, <1>8, <1>9 DEF Rest
<1>11. served' \in Seq(Pids) /\ p \in Cells \cup {NULL} /\ data[p] = Pid(p)
  BY <1>1, <1>4, <1>6 DEF LInv, MessageInv, Pid
<1>12. MessageInv'
  BY <1>1, <1>3, <1>6, <1>8, <1>10, <1>11 DEF MessageInv
<1> QED BY <1>2, <1>5, <1>7, <1>12 DEF LInv

(* The loop goes on where the freed node still points.                       *)
LEMMA FollowStep == LInv /\ follow_freed => LInv'
<1> SUFFICES ASSUME LInv, follow_freed PROVE LInv'
  OBVIOUS
<1>1. /\ pc = "follow" /\ pc' = "loop" /\ p' = next[p]
      /\ UNCHANGED <<user, fields, search, sender, agenda, served>>
  BY DEF follow_freed, goto, next_of_freed
<1>2. StructureInv' /\ ServerInv' /\ Listed' = Listed
  BY <1>1, ListSame
<1>3. ControlInv' /\ SearchInv' /\ caller' = "none"
  BY <1>1 DEF LInv, ControlInv, SearchInv, Searches, search
<1>4. PICK k \in 1..(Len(contents) + 1) :
        next[p] = Place(contents, k) /\ agenda = served \o Rest(k)
  BY <1>1 DEF LInv, MessageInv
<1>5. Place(contents, k) \in Cells
  <2>1. Len(contents) \in Nat /\ StructureInv
    BY Neighbours DEF LInv
  <2>2. k \in 0..(Len(contents) + 1)
    BY <2>1
  <2> QED BY <2>1, <2>2, Places DEF StructureInv
<1>6. sender \in Pids /\ agenda \in Seq(Pids) /\ served \in Seq(Pids)
  BY <1>1 DEF LInv, MessageInv
<1>7. contents' = contents /\ data' = data
  BY <1>1 DEF fields
<1>8. agenda' = served' \o Rest(k)'
  BY <1>1, <1>4, <1>7 DEF Rest
<1>9. MessageInv'
  BY <1>1, <1>3, <1>4, <1>5, <1>6, <1>7, <1>8 DEF MessageInv
<1> QED BY <1>2, <1>3, <1>9 DEF LInv

(* The loop ends.                                                            *)
LEMMA EndStep == LInv /\ end_of_loop => LInv'
<1> SUFFICES ASSUME LInv, end_of_loop PROVE LInv'
  OBVIOUS
<1>1. /\ pc = "loop" /\ pc' = "idle" /\ p' = NULL /\ sender' = NULL
      /\ agenda' = <<>> /\ served' = <<>> /\ UNCHANGED <<user, fields, search>>
  BY DEF end_of_loop, goto
<1>2. StructureInv' /\ ServerInv'
  BY <1>1, ListSame
<1>3. ControlInv' /\ SearchInv' /\ caller' = "none"
  BY <1>1 DEF LInv, ControlInv, SearchInv, Searches, search
<1>4. MessageInv'
  BY <1>1, <1>3 DEF MessageInv
<1> QED BY <1>2, <1>3, <1>4 DEF LInv

(* Whatever a library user calls.                                            *)
LEMMA LibraryStep == LInv /\ Library => LInv'
<1> SUFFICES ASSUME LInv, Library PROVE LInv'
  OBVIOUS
<1>1. user = "library" /\ user' = "library" /\ UNCHANGED message /\ StructureInv
  BY DEF Library, LInv
<1>2. ServerInv'
  BY <1>1 DEF ServerInv
<1>3. CASE /\ pc = "idle" /\ UNCHANGED <<pc, search>>
           /\ \/ \E x \in Pids : list_push_front(x) \/ list_push_back(x)
              \/ list_pop_front \/ list_pop_back
  <2>1. ControlInv' /\ SearchInv' /\ caller' = "none" /\ pc' = "idle"
    BY <1>1, <1>3 DEF LInv, ControlInv, SearchInv, Searches, search
  <2>2. MessageInv'
    BY <1>1, <2>1, NoMessage DEF LInv
  <2>3. StructureInv'
    <3>1. CASE \E x \in Pids : list_push_front(x) \/ list_push_back(x)
      BY <1>1, <3>1, PushFront, PushBack
    <3>2. ASSUME UNCHANGED fields PROVE StructureInv'
      BY <1>1, <3>2, ListSame
    <3>3. CASE list_pop_front
      BY <1>1, <3>2, <3>3, PopFront, Unlink
    <3>4. CASE list_pop_back
      BY <1>1, <3>2, <3>4, PopBack, Unlink
    <3> QED BY <1>3, <3>1, <3>3, <3>4
  <2> QED BY <1>2, <2>1, <2>2, <2>3 DEF LInv
<1>4. CASE /\ pc = "idle" /\ UNCHANGED fields
           /\ \E x \in Pids : call_list_contains("library", x)
                             \/ call_list_remove_pid("library", x)
  <2>1. /\ pc' \in {"contains", "remove"} /\ caller' = "library"
        /\ pid' \in Pids /\ q' = list_front
    BY <1>4 DEF call_list_contains, call_list_remove_pid
  <2>2. SearchInv' /\ q' \in Cells
    BY <1>4, <2>1, SearchStarts
  <2>3. ControlInv'
    BY <1>1, <2>1, <2>2 DEF ControlInv, Searches
  <2>4. MessageInv'
    BY <1>1, <2>1, NoMessage DEF LInv
  <2>5. StructureInv'
    BY <1>1, <1>4, ListSame
  <2> QED BY <1>2, <2>2, <2>3, <2>4, <2>5 DEF LInv
<1>5. CASE /\ pc \in {"absent", "present"} /\ pc' = "idle"
           /\ search_over /\ UNCHANGED fields
  <2>1. pc' = "idle" /\ caller' = "none" /\ pid' = NULL /\ q' = NULL
    BY <1>5 DEF search_over
  <2>2. ControlInv' /\ SearchInv'
    BY <1>1, <2>1 DEF ControlInv, SearchInv, Searches
  <2>3. MessageInv'
    BY <1>1, <2>1, NoMessage DEF LInv
  <2>4. StructureInv'
    BY <1>1, <1>5, ListSame
  <2> QED BY <1>2, <2>2, <2>3, <2>4 DEF LInv
<1> QED BY <1>3, <1>4, <1>5 DEF Library

(* Every step keeps the invariant.                                           *)
LEMMA NextInv == LInv /\ [Next]_vars => LInv'
<1> SUFFICES ASSUME LInv, [Next]_vars PROVE LInv'
  OBVIOUS
<1>1. CASE UNCHANGED vars
  <2>1. StructureInv' /\ ServerInv' /\ Listed' = Listed
    BY <1>1, ListSame DEF vars
  <2>2. ControlInv' /\ SearchInv'
    BY <1>1 DEF LInv, ControlInv, SearchInv, vars, fields, search
  <2>3. MessageInv'
    BY <1>1, <2>1 DEF LInv, MessageInv, Rest, vars, fields, search, message
  <2> QED BY <2>1, <2>2, <2>3 DEF LInv
<1>2. CASE Server
  BY <1>2, CallStep, GlobalStep, ConnectStep, ClientRemoveStep, SkipStep,
     SendStep, UnreachableStep, FollowStep, EndStep DEF Server
<1> QED
  BY <1>1, <1>2, ContainsStep, RemoveStep, LibraryStep DEF Next

-------------------------------------------------------------------------------
(* What is seen along the pointers.                                          *)

(* next leads from HEAD through the nodes in order ...                       *)
LEMMA ForwardIsContents == LInv => Forward = contents
<1> SUFFICES ASSUME LInv PROVE Forward = contents
  OBVIOUS
<1> DEFINE at == CHOOSE f : IsWalk(f, Nodes, next[HEAD], next, TAIL)
<1>1. Leads(contents, Nodes, next[HEAD], next, TAIL)
  <2>1. StructureInv
    BY DEF LInv
  <2>2. Len(contents) \in Nat /\ next[HEAD] = Place(contents, 1)
    BY <2>1, Neighbours DEF list_front
  <2>3. next[HEAD] = IF 0 < Len(contents) THEN contents[1] ELSE TAIL
    BY <2>2 DEF Place
  <2>4. ASSUME NEW k \in 1..Len(contents)
        PROVE  next[contents[k]] =
                 IF k < Len(contents) THEN contents[k + 1] ELSE TAIL
    <3>1. next[contents[k]] = Place(contents, k + 1)
      BY <2>1, Neighbours
    <3> QED BY <2>2, <3>1 DEF Place
  <2> QED
    BY <2>1, <2>3, <2>4, CellsAssumption DEF StructureInv, Chained, Leads
<1>2. IsWalk(at, Nodes, next[HEAD], next, TAIL)
  BY <1>1, WalkExists
<1>3. Forward = [k \in 1..Cardinality({m \in 0..Cardinality(Nodes) :
                                         at[m] \in Nodes}) |-> at[k - 1]]
  BY DEF Forward, Walk, IsWalk
<1> HIDE DEF at
<1> QED BY <1>1, <1>2, <1>3, WalkMeets

(* ... and prev from TAIL through the same nodes backwards.                  *)
LEMMA BackwardIsContents == LInv => Backward = Reverse(contents)
<1> SUFFICES ASSUME LInv PROVE Backward = Reverse(contents)
  OBVIOUS
<1> DEFINE at == CHOOSE f : IsWalk(f, Nodes, prev[TAIL], prev, HEAD)
           r  == Reverse(contents)
<1>1. Leads(r, Nodes, prev[TAIL], prev, HEAD)
  <2>1. StructureInv /\ contents \in Seq(Nodes)
    BY DEF LInv, StructureInv, Chained
  <2>2. /\ Len(contents) \in Nat /\ prev[TAIL] = Place(contents, Len(contents))
        /\ \A k \in 1..Len(contents) : contents[k] \in Nodes
    BY <2>1, Neighbours DEF list_back
  <2>3. /\ r \in Seq(Nodes) /\ Len(r) = Len(contents)
        /\ \A k \in 1..Len(contents) : r[k] = contents[(Len(contents) - k) + 1]
    <3>1. \A k \in 1..Len(contents) : (Len(contents) - k) + 1 \in 1..Len(contents)
      BY <2>2
    <3>2. r \in [1..Len(contents) -> Nodes]
      BY <2>2, <3>1 DEF Reverse
    <3> QED BY <2>2, <3>2 DEF Reverse
  <2> HIDE DEF r
  <2>4. prev[TAIL] = IF 0 < Len(r) THEN r[1] ELSE HEAD
    <3>1. CASE Len(contents) = 0
      BY <2>2, <2>3, <3>1 DEF Place
    <3>2. CASE Len(contents) # 0
      <4>1. 1 \in 1..Len(contents) /\ (Len(contents) - 1) + 1 = Len(contents)
        BY <2>2, <3>2
      <4>2. r[1] = contents[Len(contents)]
        BY <2>3, <4>1
      <4> QED BY <2>2, <2>3, <3>2, <4>2 DEF Place
    <3> QED BY <3>1, <3>2
  <2>5. ASSUME NEW k \in 1..Len(r)
        PROVE  prev[r[k]] = IF k < Len(r) THEN r[k + 1] ELSE HEAD
    <3>1. PICK j \in 1..Len(contents) : j = (Len(contents) - k) + 1
      BY <2>2, <2>3
    <3>2. r[k] = contents[j] /\ prev[contents[j]] = Place(contents, j - 1)
      BY <2>1, <2>3, <3>1, Neighbours
    <3>3. CASE k < Len(r)
      <4>1. k + 1 \in 1..Len(contents) /\ (Len(contents) - (k + 1)) + 1 = j - 1
            /\ j - 1 # 0 /\ j - 1 <= Len(contents)
        <5>1. /\ Len(contents) \in Int /\ k \in Int /\ k < Len(contents) /\ 1 <= k
              /\ j = (Len(contents) - k) + 1
          BY <2>2, <2>3, <3>1, <3>3
        <5> QED BY <5>1
      <4>2. r[k + 1] = contents[j - 1]
        BY <2>3, <4>1
      <4> QED BY <3>2, <3>3, <4>1, <4>2 DEF Place
    <3>4. CASE k = Len(r)
      <4>1. j - 1 = 0 /\ ~(k < Len(r))
        BY <2>2, <2>3, <3>1, <3>4
      <4> QED BY <3>2, <4>1 DEF Place
    <3> QED BY <2>2, <2>3, <3>3, <3>4
  <2>6. ASSUME NEW k \in 1..Len(r), NEW m \in 1..Len(r), r[k] = r[m]
        PROVE  k = m
    <3>1. PICK i \in 1..Len(contents) : i = (Len(contents) - k) + 1
      BY <2>2, <2>3
    <3>2. PICK j \in 1..Len(contents) : j = (Len(contents) - m) + 1
      BY <2>2, <2>3
    <3>3. contents[i] = contents[j]
      BY <2>3, <2>6, <3>1, <3>2
    <3>4. i = j
      BY <2>1, <3>3 DEF StructureInv, Chained
    <3> QED BY <2>2, <2>3, <3>1, <3>2, <3>4
  <2> QED
    BY <2>3, <2>4, <2>5, <2>6, CellsAssumption DEF Leads
<1> HIDE DEF r
<1>2. IsWalk(at, Nodes, prev[TAIL], prev, HEAD)
  BY <1>1, WalkExists
<1>3. Backward = [k \in 1..Cardinality({m \in 0..Cardinality(Nodes) :
                                          at[m] \in Nodes}) |-> at[k - 1]]
  BY DEF Backward, Walk, IsWalk
<1> HIDE DEF at
<1>4. Backward = r
  BY <1>1, <1>2, <1>3, WalkMeets
<1> QED BY <1>4 DEF r

-------------------------------------------------------------------------------
(* What is proved.                                                           *)

(* The invariant holds of every run of the list's users.                     *)
THEOREM Invariance == Spec => []LInv
BY InitInv, NextInv, PTL DEF Spec

(* Pointers are null, garbage or cells, and the server's list keeps within   *)
(* its limit.                                                                *)
THEOREM TypeCorrect == Spec => []TypeOK
<1>1. LInv => TypeOK
  <2> SUFFICES ASSUME LInv PROVE TypeOK
    OBVIOUS
  <2>1. contents \in Seq(Nodes) /\ Len(contents) \in Nat
    BY LenProperties DEF LInv, StructureInv, Chained
  <2>2. /\ data \in [Cells -> Pids \cup {NULL, GARBAGE}]
        /\ prev \in [Cells -> Pointers] /\ next \in [Cells -> Pointers]
        /\ logical_length \in Nat
        /\ user = "server" => logical_length <= MAX_NUM_CLIENTS
    BY <2>1 DEF LInv, StructureInv, ServerInv, Chained
  <2>3. /\ user \in {"server", "library"}
        /\ pc \in {"idle", "contains", "absent", "present", "remove", "loop",
                   "follow"}
        /\ caller \in {"none", "new_client", "disconnect", "global", "library"}
        /\ pid \in Pids \cup {NULL} /\ q \in Cells \cup {NULL}
    BY DEF LInv, ControlInv, Searches
  <2>4. /\ p \in Cells \cup {NULL} /\ sender \in Pids \cup {NULL}
        /\ agenda \in Seq(Pids) /\ served \in Seq(Pids)
    BY DEF LInv, MessageInv
  <2> QED BY <2>1, <2>2, <2>3, <2>4 DEF TypeOK
<1> QED BY <1>1, Invariance, PTL

(* Along next, along prev and in logical_length the list is the same,        *)
(* however nodes were inserted and removed by link and unlink.               *)
THEOREM WalksAlwaysAgree == Spec => []WalksAgree
<1>1. LInv => WalksAgree
  BY ForwardIsContents, BackwardIsContents DEF WalksAgree, LInv, StructureInv
<1> QED BY <1>1, Invariance, PTL

(* No cursor of list_contains, list_remove_pid or the loop of a global       *)
(* message is ever at a freed node, but for the one turn in which the loop   *)
(* follows it, and that turn leads back into the list.                       *)
THEOREM CursorsAlwaysLive == Spec => []CursorsLive
<1>1. LInv => CursorsLive
  <2> SUFFICES ASSUME LInv PROVE CursorsLive
    OBVIOUS
  <2>1. StructureInv /\ Len(contents) \in Nat /\ DOMAIN contents = 1..Len(contents)
    BY LenProperties DEF LInv, StructureInv, Chained
  <2>2. ASSUME NEW k \in 1..(Len(contents) + 1)
        PROVE  Place(contents, k) \in Listed \cup {TAIL}
    BY <2>1 DEF Place, Listed, ToSet
  <2>3. pc \in {"contains", "remove"} => q \in Listed \cup {TAIL}
    BY <2>2 DEF LInv, SearchInv
  <2>4. pc = "loop" => p \in Listed \cup {TAIL}
    BY <2>2 DEF LInv, MessageInv
  <2>5. pc = "follow" => p \notin Listed /\ next[p] \in Listed \cup {TAIL}
    BY <2>2 DEF LInv, MessageInv
  <2>6. ASSUME pc = "remove", caller = "global"
        PROVE  {n \in Listed : Pid(n) = pid} = {p}
    <3>1. PICK k \in 1..Len(contents) : p = contents[k] /\ data[p] = pid
      BY <2>6 DEF LInv, MessageInv
    <3>2. user = "server"
      BY <2>6 DEF LInv, ControlInv
    <3>3. \A m \in 1..Len(contents) : data[contents[m]] = pid => m = k
      BY <3>1, <3>2 DEF LInv, ServerInv
    <3> QED BY <2>1, <3>1, <3>3 DEF Listed, ToSet, Pid
  <2> QED BY <2>3, <2>4, <2>5, <2>6 DEF CursorsLive
<1> QED BY <1>1, Invariance, PTL

(* When the loop of a global message ends, everybody on the list but the     *)
(* sender was served, once and in order, whoever was removed on the way.     *)
THEOREM GlobalServesAll == Spec => []LoopServesAll
<1>1. LInv => LoopServesAll
  <2> SUFFICES ASSUME LInv, pc = "loop", at_end(p) PROVE served = agenda
    BY DEF LoopServesAll
  <2>1. PICK k \in 1..(Len(contents) + 1) :
          p = Place(contents, k) /\ agenda = served \o Rest(k)
    BY DEF LInv, MessageInv
  <2>2. StructureInv /\ contents \in Seq(Nodes) /\ Len(contents) \in Nat
    BY Neighbours DEF LInv, StructureInv, Chained
  <2>3. k = Len(contents) + 1
    <3>1. k \in 0..Len(contents) => FALSE
      BY <2>1, <2>2, Neighbours
    <3> QED BY <2>2, <3>1
  <2>4. Rest(k) = <<>>
    BY <2>2, <2>3, RestAtEnd DEF Rest
  <2>5. served \in Seq(Pids)
    BY DEF LInv, MessageInv
  <2> QED BY <2>1, <2>4, <2>5, ConcatEmptySeq
<1> QED BY <1>1, Invariance, PTL

-------------------------------------------------------------------------------
(* The list implements Roster.                                               *)

(* The pids in the list are a sequence.                                      *)
LEMMA NamesSeq ==
  ASSUME StructureInv
  PROVE  /\ Len(contents) \in Nat
         /\ Names(contents) \in Seq(Pids) /\ Len(Names(contents)) = Len(contents)
         /\ \A m \in 1..Len(contents) : Names(contents)[m] = data[contents[m]]
<1>1. /\ Len(contents) \in Nat /\ DOMAIN contents = 1..Len(contents)
      /\ \A m \in 1..Len(contents) : data[contents[m]] \in Pids
  BY LenProperties DEF StructureInv, Chained
<1>2. Names(contents) = [m \in 1..Len(contents) |-> data[contents[m]]]
  BY <1>1 DEF Names, Pid
<1>3. Names(contents) \in [1..Len(contents) -> Pids]
  BY <1>1, <1>2
<1>4. Names(contents) \in Seq(Pids) /\ Len(Names(contents)) = Len(contents)
  BY <1>1, <1>3
<1> QED BY <1>1, <1>2, <1>4

(* Sequences of pids, one of which arises from the other as it does when     *)
(* something is pushed or removed.                                           *)
LEMMA EnterBack ==
  ASSUME NEW s \in Seq(Pids), NEW t \in Seq(Pids), NEW x \in Pids,
         Len(t) = Len(s) + 1, t[Len(s) + 1] = x,
         \A m \in 1..Len(s) : t[m] = s[m]
  PROVE  t = Append(s, x)
<1> DEFINE u == Append(s, x)
<1>1. /\ u \in Seq(Pids) /\ Len(u) = Len(s) + 1 /\ u[Len(s) + 1] = x
      /\ \A m \in 1..Len(s) : u[m] = s[m]
  BY AppendProperties
<1> HIDE DEF u
<1>2. Len(s) \in Nat
  BY LenProperties
<1>3. ASSUME NEW m \in 1..Len(t) PROVE t[m] = u[m]
  <2>1. m \in 1..Len(s) \/ m = Len(s) + 1
    BY <1>2
  <2> QED BY <1>1, <2>1
<1>4. t = u
  BY <1>1, <1>3, SeqEqual
<1> QED BY <1>4 DEF u

(* ... before all others ...                                                 *)
LEMMA EnterFront ==
  ASSUME NEW s \in Seq(Pids), NEW t \in Seq(Pids), NEW x \in Pids,
         Len(t) = Len(s) + 1, t[1] = x,
         \A m \in 1..Len(s) : t[m + 1] = s[m]
  PROVE  t = <<x>> \o s
<1> DEFINE z == <<x>>
           u == z \o s
<1>1. Len(s) \in Nat
  BY LenProperties
<1>2. z \in Seq(Pids) /\ Len(z) = 1 /\ z[1] = x
  OBVIOUS
<1> HIDE DEF z
<1>3. /\ u \in Seq(Pids) /\ Len(u) = Len(z) + Len(s)
      /\ \A m \in 1..(Len(z) + Len(s)) :
           u[m] = IF m <= Len(z) THEN z[m] ELSE s[m - Len(z)]
  BY <1>2, ConcatProperties
<1> HIDE DEF u
<1>4. ASSUME NEW m \in 1..Len(t) PROVE t[m] = u[m]
  <2>1. m \in 1..(Len(z) + Len(s))
    BY <1>1, <1>2
  <2>2. CASE m = 1
    BY <1>2, <1>3, <2>1, <2>2
  <2>3. CASE m # 1
    <3>1. m - 1 \in 1..Len(s) /\ m - 1 + 1 = m /\ ~(m <= Len(z)) /\ m - Len(z) = m - 1
      BY <1>1, <1>2, <2>3
    <3>2. u[m] = s[m - 1]
      BY <1>3, <2>1, <3>1
    <3>3. t[m - 1 + 1] = s[m - 1]
      BY <3>1
    <3> QED BY <3>1, <3>2, <3>3
  <2> QED BY <2>2, <2>3
<1>5. Len(t) = Len(u)
  BY <1>1, <1>2, <1>3
<1>6. t = u
  BY <1>3, <1>4, <1>5, SeqEqual
<1> QED BY <1>6 DEF u, z

(* ... the first of its kind ...                                             *)
LEMMA LeaveFirst ==
  ASSUME NEW s \in Seq(Pids), NEW t \in Seq(Pids), NEW k \in 1..Len(s), NEW x,
         s[k] = x, \A m \in 1..(k - 1) : s[m] # x,
         Len(t) = Len(s) - 1,
         \A m \in 1..(Len(s) - 1) : t[m] = IF m < k THEN s[m] ELSE s[m + 1]
  PROVE  t = RemoveFirst(s, x)
<1> DEFINE u == RemoveFirst(s, x)
<1>1. /\ u \in Seq(Pids) /\ Len(u) = Len(s) - 1
      /\ \A m \in 1..(Len(s) - 1) : u[m] = IF m < k THEN s[m] ELSE s[m + 1]
  BY RemoveFirstAt, ZenonT(60)
<1> HIDE DEF u
<1>2. \A m \in 1..Len(t) : t[m] = u[m]
  BY <1>1
<1>3. t = u
  BY <1>1, <1>2, SeqEqual
<1> QED BY <1>3 DEF u

(* ... or the last one.                                                      *)
LEMMA LeaveBack ==
  ASSUME NEW s \in Seq(Pids), NEW t \in Seq(Pids), Len(s) # 0,
         Len(t) = Len(s) - 1,
         \A m \in 1..(Len(s) - 1) : t[m] = s[m]
  PROVE  t = Front(s)
<1> DEFINE u == Front(s)
<1>1. Len(s) \in Nat /\ Len(s) - 1 \in Nat
  BY LenProperties
<1>2. u = SubSeq(s, 1, Len(s) - 1)
  BY DEF Front
<1>3. /\ u \in Seq(Pids) /\ Len(u) = Len(s) - 1
      /\ \A m \in 1..(Len(s) - 1) : u[m] = s[m]
  BY <1>1, <1>2, SubSeqProperties, ElementOfSeq
<1> HIDE DEF u
<1>4. \A m \in 1..Len(t) : t[m] = u[m]
  BY <1>3
<1>5. t = u
  BY <1>3, <1>4, SeqEqual
<1> QED BY <1>5 DEF u

(* The operators on sequences are the same in Roster.                        *)
LEMMA SameOperators ==
  /\ \A s : R!ToSet(s) = ToSet(s) /\ R!Front(s) = Front(s)
  /\ \A s, x : R!RemoveFirst(s, x) = RemoveFirst(s, x)
<1>1. \A I : R!Min(I) = Min(I)
  BY DEF R!Min, Min
<1>2. \A s, k : R!RemoveAt(s, k) = RemoveAt(s, k)
  BY DEF R!RemoveAt, RemoveAt
<1>3. \A s, x : R!RemoveFirst(s, x) = RemoveFirst(s, x)
  BY <1>1, <1>2 DEF R!RemoveFirst, RemoveFirst, R!SelectInSeq, SelectInSeq
<1> QED BY <1>3 DEF R!ToSet, ToSet, R!Front, Front

(* Every step of the list is a step of Roster or leaves the pids as they are. *)
LEMMA RosterStep == LInv /\ LInv' /\ [Next]_vars => [R!RosterNext]_(Names(Forward))
<1>0. (LInv => Forward = contents)'
  BY ForwardIsContents, PTL
<1> SUFFICES ASSUME LInv, LInv', [Next]_vars
             PROVE  [R!RosterNext]_(Names(Forward))
  OBVIOUS
<1> DEFINE s == Names(contents)
           t == Names(contents)'
<1>1. Names(Forward) = s /\ Names(Forward)' = t
  BY <1>0, ForwardIsContents DEF Names, Pid
<1>2. StructureInv /\ StructureInv'
  BY DEF LInv
<1>3. /\ Len(contents) \in Nat /\ s \in Seq(Pids) /\ Len(s) = Len(contents)
      /\ \A m \in 1..Len(contents) : s[m] = data[contents[m]]
  BY <1>2, NamesSeq
<1>4. /\ t \in Seq(Pids) /\ Len(t) = Len(contents')
      /\ \A m \in 1..Len(contents') : t[m] = data'[contents'[m]]
  <2>1. (StructureInv =>
           /\ Names(contents) \in Seq(Pids) /\ Len(Names(contents)) = Len(contents)
           /\ \A m \in 1..Len(contents) : Names(contents)[m] = data[contents[m]])'
    BY NamesSeq, PTL
  <2> QED BY <1>2, <2>1
<1>5. ASSUME UNCHANGED fields PROVE t = s
  BY <1>5 DEF fields, Names, Pid
<1> HIDE DEF s, t
<1>6. SUFFICES t = s \/ (\E x \in Pids : t \in {Append(s, x), <<x>> \o s})
               \/ (\E x \in ToSet(s) : t = RemoveFirst(s, x))
               \/ (s # <<>> /\ t = Front(s))
  BY <1>1, <1>6, SameOperators DEF R!RosterNext, R!Enter, R!Leave
<1>7. ASSUME NEW x \in Pids, list_push_back(x) PROVE t = Append(s, x)
  <2>1. /\ Len(contents') = Len(contents) + 1
        /\ data'[contents'[Len(contents) + 1]] = x
        /\ \A m \in 1..Len(contents) : data'[contents'[m]] = data[contents[m]]
    BY <1>2, <1>7, PushBack
  <2>2. /\ Len(t) = Len(s) + 1 /\ t[Len(s) + 1] = x
        /\ \A m \in 1..Len(s) : t[m] = s[m]
    BY <1>3, <1>4, <2>1
  <2> QED BY <1>3, <1>4, <2>2, EnterBack
<1>8. ASSUME NEW x \in Pids, list_push_front(x) PROVE t = <<x>> \o s
  <2>1. /\ Len(contents') = Len(contents) + 1
        /\ data'[contents'[1]] = x
        /\ \A m \in 1..Len(contents) : data'[contents'[m + 1]] = data[contents[m]]
    BY <1>2, <1>8, PushFront
  <2>2. Len(t) = Len(s) + 1 /\ t[1] = x
    BY <1>3, <1>4, <2>1
  <2>3. ASSUME NEW m \in 1..Len(s) PROVE t[m + 1] = s[m]
    <3>1. m + 1 \in 1..Len(contents') /\ m \in 1..Len(contents)
      BY <1>3, <2>1
    <3> QED BY <1>3, <1>4, <2>1, <3>1
  <2> QED BY <1>3, <1>4, <2>2, <2>3, EnterFront
<1>9. ASSUME NEW k \in 1..Len(contents),
             unlink(contents[k], Place(contents, k - 1), Place(contents, k + 1))
      PROVE  /\ k \in 1..Len(s) /\ Len(t) = Len(s) - 1
             /\ \A m \in 1..(Len(s) - 1) : t[m] = IF m < k THEN s[m] ELSE s[m + 1]
  <2>1. /\ Len(contents') = Len(contents) - 1
        /\ \A m \in 1..(Len(contents) - 1) :
             data'[contents'[m]] =
               IF m < k THEN data[contents[m]] ELSE data[contents[m + 1]]
    BY <1>2, <1>9, Unlink
  <2>2. ASSUME NEW m \in 1..(Len(s) - 1)
        PROVE  t[m] = IF m < k THEN s[m] ELSE s[m + 1]
    <3>1. /\ m \in 1..Len(contents') /\ m \in 1..Len(contents)
          /\ m + 1 \in 1..Len(contents)
      BY <1>3, <2>1
    <3> QED BY <1>3, <1>4, <2>1, <3>1
  <2> QED BY <1>3, <1>4, <2>1, <2>2
<1>10. \A k \in 1..Len(s) : s[k] \in ToSet(s)
  BY <1>3, LenProperties DEF ToSet
<1>11. CASE list_pop_front
  <2>1. CASE Len(contents) = 0 /\ UNCHANGED fields
    BY <1>5, <2>1
  <2>2. CASE /\ 1 \in 1..Len(contents)
             /\ unlink(contents[1], Place(contents, 1 - 1), Place(contents, 1 + 1))
    <3>1. /\ 1 \in 1..Len(s) /\ Len(t) = Len(s) - 1
          /\ \A m \in 1..(Len(s) - 1) : t[m] = IF m < 1 THEN s[m] ELSE s[m + 1]
      BY <1>9, <2>2
    <3>2. \A m \in 1..(1 - 1) : s[m] # s[1]
      OBVIOUS
    <3>3. t = RemoveFirst(s, s[1])
      BY <1>3, <1>4, <3>1, <3>2, LeaveFirst
    <3> QED BY <1>10, <3>1, <3>3
  <2> QED BY <1>2, <1>11, <2>1, <2>2, PopFront
<1>12. CASE list_pop_back
  <2>1. CASE Len(contents) = 0 /\ UNCHANGED fields
    BY <1>5, <2>1
  <2>2. CASE /\ Len(contents) \in 1..Len(contents)
             /\ unlink(contents[Len(contents)], Place(contents, Len(contents) - 1),
                       Place(contents, Len(contents) + 1))
    <3>1. /\ Len(contents) \in 1..Len(s) /\ Len(t) = Len(s) - 1
          /\ \A m \in 1..(Len(s) - 1) :
               t[m] = IF m < Len(contents) THEN s[m] ELSE s[m + 1]
      BY <1>9, <2>2
    <3>2. Len(s) # 0 /\ \A m \in 1..(Len(s) - 1) : t[m] = s[m]
      BY <1>3, <3>1
    <3>3. t = Front(s)
      BY <1>3, <1>4, <3>1, <3>2, LeaveBack
    <3>4. s # <<>>
      BY <1>3, <3>2, EmptySeq
    <3> QED BY <3>3, <3>4
  <2> QED BY <1>2, <1>12, <2>1, <2>2, PopBack
<1>13. CASE list_remove_pid
  <2>1. CASE UNCHANGED fields
    BY <1>5, <2>1
  <2>2. CASE pc = "remove" /\ ~at_end(q) /\ data[q] = pid /\ list_remove_node(q)
    <3>1. PICK k \in 1..(Len(contents) + 1) :
            /\ q = Place(contents, k)
            /\ \A m \in 1..(k - 1) : data[contents[m]] # pid
      BY <2>2 DEF LInv, SearchInv
    <3>2. k \in 1..Len(contents) /\ q = contents[k]
      <4>1. k # Len(contents) + 1
        BY <1>2, <2>2, <3>1, Neighbours
      <4>2. k \in 1..Len(contents)
        BY <1>3, <4>1
      <4> QED BY <1>2, <3>1, <4>2, Neighbours
    <3>3. unlink(contents[k], Place(contents, k - 1), Place(contents, k + 1))
      BY <1>2, <2>2, <3>2, RemoveNode
    <3>4. /\ k \in 1..Len(s) /\ Len(t) = Len(s) - 1
          /\ \A m \in 1..(Len(s) - 1) : t[m] = IF m < k THEN s[m] ELSE s[m + 1]
      BY <1>9, <3>2, <3>3
    <3>5. s[k] = pid /\ \A m \in 1..(k - 1) : s[m] # pid
      <4>1. s[k] = pid
        BY <1>3, <2>2, <3>2
      <4>2. \A m \in 1..(k - 1) : m \in 1..Len(contents)
        BY <1>3, <3>2
      <4> QED BY <1>3, <3>1, <4>1, <4>2
    <3>6. t = RemoveFirst(s, pid)
      <4>1. s \in Seq(Pids) /\ t \in Seq(Pids)
        BY <1>3, <1>4
      <4> QED BY <3>4, <3>5, <4>1, LeaveFirst
    <3> QED BY <1>10, <3>4, <3>5, <3>6
  <2> QED BY <1>13, <2>1, <2>2 DEF list_remove_pid, goto
<1>14. CASE UNCHANGED vars
  BY <1>5, <1>14 DEF vars
<1>15. CASE list_contains
  BY <1>5, <1>15 DEF list_contains
<1>16. CASE Server
  <2>1. CASE connect
    <3>1. CASE UNCHANGED fields
      BY <1>5, <3>1
    <3>2. CASE pc = "absent" /\ list_push_back(pid)
      <4>1. pid \in Pids
        BY <3>2 DEF LInv, ControlInv, Searches
      <4> QED BY <1>7, <3>2, <4>1
    <3> QED BY <2>1, <3>1, <3>2 DEF connect
  <2>2. CASE ~connect
    <3>1. UNCHANGED fields
      BY <1>16, <2>2 DEF Server, new_client, disconnect_client, global_message,
         client_remove, skip_sender, send_to, unreachable, follow_freed, end_of_loop
    <3> QED BY <1>5, <3>1
  <2> QED BY <2>1, <2>2
<1>17. CASE Library
  <2>1. CASE \E x \in Pids : list_push_front(x) \/ list_push_back(x)
    BY <1>7, <1>8, <2>1
  <2>2. CASE UNCHANGED fields
    BY <1>5, <2>2
  <2> QED BY <1>11, <1>12, <1>17, <2>1, <2>2 DEF Library
<1> QED
  BY <1>13, <1>14, <1>15, <1>16, <1>17 DEF Next

(* Seen along the next pointers the list is a Roster: pids enter at either   *)
(* end, and leave at either end or, the first of its kind, in the middle;    *)
(* the others stay and keep their order.                                     *)
THEOREM Refinement == Spec => RosterSpec
<1>1. Init => R!RosterInit
  <2> SUFFICES ASSUME Init PROVE Names(Forward) = <<>>
    BY DEF R!RosterInit
  <2>1. contents = <<>>
    BY DEF Init
  <2>2. Forward = <<>>
    BY <2>1, InitInv, ForwardIsContents
  <2> QED BY <2>2 DEF Names
<1> QED
  BY <1>1, RosterStep, Invariance, PTL DEF Spec, RosterSpec, R!RosterSpec
===============================================================================
