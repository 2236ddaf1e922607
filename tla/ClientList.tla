------------------------------ MODULE ClientList ------------------------------
(***************************************************************************)
(* The doubly linked list of src/pp_1_server/list.c at the level of its     *)
(* pointers.  Its nodes lie between two sentinels:                          *)
(*                                                                          *)
(*        NULL <- HEAD <-> n1 <-> ... <-> nk <-> TAIL -> NULL                *)
(*                                                                          *)
(* It is used by the chat server (src/pp_1_server/server.c), which          *)
(* connects and disconnects clients and, for a global message, removes      *)
(* unreachable clients while it walks along the list; and by a library user *)
(* that pushes, pops, searches and removes by pid (src/test_2 has a copy of *)
(* the list and such a user).  list_remove_node is called by                *)
(* list_remove_pid only, as in the code.                                    *)
(*                                                                          *)
(* Both users are sequential.  The loops of list_contains, list_remove_pid  *)
(* and of the global message take one action per turn, the straight-line    *)
(* operations one action each.  free() puts the allocator's own links into  *)
(* the first two words of a node, data and prev; the third, next, keeps its *)
(* value until the node is allocated again.                                 *)
(***************************************************************************)
EXTENDS Integers, Sequences, FiniteSets, SequencesExt

CONSTANTS
  Nodes,            \* the memory cells malloc may return
  HEAD, TAIL,       \* the sentinels
  NULL,             \* the null pointer
  GARBAGE,          \* what a fresh or freed cell holds
  Pids,             \* the pids of clients
  MAX_NUM_CLIENTS   \* room for clients in the server's list (100)

Cells == Nodes \cup {HEAD, TAIL}

ASSUME CellsAssumption ==
  /\ IsFiniteSet(Nodes) /\ HEAD \notin Nodes /\ TAIL \notin Nodes
  /\ HEAD # TAIL /\ NULL # GARBAGE
  /\ {NULL, GARBAGE} \cap (Cells \cup Pids) = {}
ASSUME RoomAssumption == MAX_NUM_CLIENTS \in Nat

VARIABLES
  user,                 \* who uses the list: "server" or "library"
  data, prev, next,     \* the fields of the cells
  logical_length,
  pc,                   \* where the user is
  caller,               \* the operation that searches the list
  pid,                  \* the pid searched for, or the sender of a message
  q,                    \* the node a search is at
  p, sender,            \* the node a global message is at, and its sender
  contents,             \* history: the nodes in the list, front to back
  agenda, served        \* history: whom the global message is meant for, and
                        \*   whom it was sent to or who was removed, in order

fields  == <<data, prev, next, logical_length, contents>>
search  == <<caller, pid, q>>
message == <<p, sender, agenda, served>>
vars    == <<user, fields, pc, search, message>>

Listed == ToSet(contents)

(* list_init                                                                 *)
list_init ==
  /\ data = [n \in Cells |-> IF n \in Nodes THEN GARBAGE ELSE NULL]
  /\ prev = [n \in Cells |-> CASE n = HEAD -> NULL [] n = TAIL -> HEAD
                               [] OTHER -> GARBAGE]
  /\ next = [n \in Cells |-> CASE n = HEAD -> TAIL [] n = TAIL -> NULL
                               [] OTHER -> GARBAGE]
  /\ logical_length = 0

Init ==
  /\ user \in {"server", "library"}
  /\ list_init /\ contents = <<>>
  /\ pc = "idle" /\ caller = "none" /\ pid = NULL /\ q = NULL
  /\ p = NULL /\ sender = NULL /\ agenda = <<>> /\ served = <<>>

-------------------------------------------------------------------------------
(* The operations.  Names that end in a capitalized word are faulty variants *)
(* of what follows, for the mutants.                                         *)

list_front == next[HEAD]
list_back  == prev[TAIL]

(* Insert a node with this pid between the neighbours a and b.               *)
link_Forward(n, x, a, b) ==
  /\ data' = [data EXCEPT ![n] = x]
  /\ next' = [next EXCEPT ![a] = n, ![n] = b]
  /\ prev' = [prev EXCEPT ![n] = a]
  /\ logical_length' = logical_length + 1

link(n, x, a, b) ==
  /\ data' = [data EXCEPT ![n] = x]
  /\ next' = [next EXCEPT ![a] = n, ![n] = b]
  /\ prev' = [prev EXCEPT ![n] = a, ![b] = n]
  /\ logical_length' = logical_length + 1

list_push_front(x) ==
  \E n \in Nodes \ Listed :
    /\ link(n, x, HEAD, list_front)
    /\ contents' = <<n>> \o contents

list_push_back(x) ==
  \E n \in Nodes \ Listed :
    /\ link(n, x, list_back, TAIL)
    /\ contents' = Append(contents, n)

(* Take out node n between its neighbours a and b, and free it.              *)
unlink_Backward(n, a, b) ==
  /\ prev' = [prev EXCEPT ![b] = a, ![n] = GARBAGE]
  /\ data' = [data EXCEPT ![n] = GARBAGE]
  /\ logical_length' = logical_length - 1
  /\ contents' = RemoveFirst(contents, n)
  /\ UNCHANGED next

unlink(n, a, b) ==
  /\ next' = [next EXCEPT ![a] = b]
  /\ prev' = [prev EXCEPT ![b] = a, ![n] = GARBAGE]
  /\ data' = [data EXCEPT ![n] = GARBAGE]
  /\ logical_length' = logical_length - 1
  /\ contents' = RemoveFirst(contents, n)

list_pop_front_Unguarded == unlink(list_front, HEAD, next[list_front])

list_pop_front ==
  IF list_front = TAIL THEN UNCHANGED fields
  ELSE unlink(list_front, HEAD, next[list_front])

list_pop_back ==
  IF list_back = HEAD THEN UNCHANGED fields
  ELSE unlink(list_back, prev[list_back], TAIL)

list_remove_node(n) ==
  IF n \in {HEAD, TAIL} THEN UNCHANGED fields ELSE unlink(n, prev[n], next[n])

(* The condition that ends a loop over the list: p->next == NULL             *)
at_end(n) == next[n] = NULL

-------------------------------------------------------------------------------
(* Searching: list_contains and list_remove_pid are loops from the front.    *)

goto(from, to) == pc = from /\ pc' = to

(* q, pid and caller matter only during a search.                            *)
search_over == caller' = "none" /\ pid' = NULL /\ q' = NULL

call_list_contains(by, x) ==
  pc' = "contains" /\ caller' = by /\ pid' = x /\ q' = list_front

list_contains ==
  /\ \/ goto("contains", "absent") /\ at_end(q) /\ UNCHANGED q
     \/ /\ goto("contains", "present")
        /\ ~at_end(q) /\ data[q] = pid /\ UNCHANGED q
     \/ /\ pc = "contains" /\ UNCHANGED pc
        /\ ~at_end(q) /\ data[q] # pid /\ q' = next[q]
  /\ UNCHANGED <<user, fields, caller, pid, message>>

call_list_remove_pid(by, x) ==
  pc' = "remove" /\ caller' = by /\ pid' = x /\ q' = list_front

(* Where the caller goes on when client_remove, or list_remove_pid, returns. *)
return == IF caller = "global" THEN "follow" ELSE "idle"

list_remove_pid ==
  /\ \/ /\ goto("remove", return) /\ at_end(q)
        /\ search_over /\ UNCHANGED fields
     \/ /\ goto("remove", return) /\ ~at_end(q) /\ data[q] = pid
        /\ list_remove_node(q) /\ search_over
     \/ /\ pc = "remove" /\ UNCHANGED <<pc, caller, pid, fields>>
        /\ ~at_end(q) /\ data[q] # pid /\ q' = next[q]
  /\ UNCHANGED <<user, message>>

-------------------------------------------------------------------------------
(* The server.                                                               *)

new_client(x) ==
  /\ user = "server" /\ pc = "idle" /\ call_list_contains("new_client", x)
  /\ UNCHANGED <<user, fields, message>>

disconnect_client(x) ==
  /\ user = "server" /\ pc = "idle" /\ call_list_contains("disconnect", x)
  /\ UNCHANGED <<user, fields, message>>

list_has_room == logical_length < MAX_NUM_CLIENTS

(* new_client goes on: the client is stored, or the list is full, or it is   *)
(* put at the end.                                                           *)
connect ==
  /\ caller = "new_client" /\ pc \in {"absent", "present"} /\ pc' = "idle"
  /\ IF pc = "absent" /\ list_has_room THEN list_push_back(pid)
     ELSE UNCHANGED fields
  /\ search_over
  /\ UNCHANGED <<user, message>>

(* client_remove: list_contains, and list_remove_pid if that was true.       *)
client_remove ==
  /\ caller \in {"disconnect", "global"}
  /\ \/ pc = "present" /\ call_list_remove_pid(caller, pid)
     \/ goto("absent", return) /\ search_over
  /\ UNCHANGED <<user, fields, message>>

Pid(n) == data[n]
Names(s) == [k \in DOMAIN s |-> Pid(s[k])]

(* A global message starts at the front of the list.                         *)
global_message(x) ==
  /\ user = "server" /\ goto("idle", "loop")
  /\ p' = list_front /\ sender' = x
  /\ agenda' = RemoveFirst(Names(contents), x) /\ served' = <<>>
  /\ UNCHANGED <<user, fields, search>>

(* One turn: nothing is sent back to the sender; the others get the message, *)
(* or are unreachable and removed.                                           *)
skip_sender ==
  /\ pc = "loop" /\ ~at_end(p) /\ Pid(p) = sender
  /\ p' = next[p]
  /\ UNCHANGED <<user, fields, pc, search, sender, agenda, served>>

send_to ==
  /\ pc = "loop" /\ ~at_end(p) /\ Pid(p) # sender
  /\ p' = next[p] /\ served' = Append(served, Pid(p))
  /\ UNCHANGED <<user, fields, pc, search, sender, agenda>>

unreachable ==
  /\ pc = "loop" /\ ~at_end(p) /\ Pid(p) # sender
  /\ served' = Append(served, Pid(p))
  /\ call_list_contains("global", Pid(p))
  /\ UNCHANGED <<user, fields, p, sender, agenda>>

(* p = p->next, of the node that was just removed and freed.                 *)
next_of_freed_Restart == list_front

next_of_freed_Stays == p

next_of_freed == next[p]

follow_freed ==
  /\ goto("follow", "loop") /\ p' = next_of_freed
  /\ UNCHANGED <<user, fields, search, sender, agenda, served>>

end_of_loop ==
  /\ goto("loop", "idle") /\ at_end(p)
  /\ p' = NULL /\ sender' = NULL /\ agenda' = <<>> /\ served' = <<>>
  /\ UNCHANGED <<user, fields, search>>

Server ==
  \/ \E x \in Pids : new_client(x) \/ disconnect_client(x) \/ global_message(x)
  \/ connect \/ client_remove
  \/ skip_sender \/ send_to \/ unreachable \/ follow_freed \/ end_of_loop

-------------------------------------------------------------------------------
(* A library user: any operation with a pid or at an end, with any pid.      *)
Library ==
  /\ user = "library" /\ UNCHANGED <<user, message>>
  /\ \/ /\ pc = "idle" /\ UNCHANGED <<pc, search>>
        /\ \/ \E x \in Pids : list_push_front(x) \/ list_push_back(x)
           \/ list_pop_front \/ list_pop_back
     \/ /\ pc = "idle" /\ UNCHANGED fields
        /\ \E x \in Pids : call_list_contains("library", x)
                          \/ call_list_remove_pid("library", x)
     \/ /\ pc \in {"absent", "present"} /\ pc' = "idle"
        /\ search_over /\ UNCHANGED fields

Next == list_contains \/ list_remove_pid \/ Server \/ Library

Spec == Init /\ [][Next]_vars

-------------------------------------------------------------------------------
(* Properties.                                                               *)

Pointers == Cells \cup {NULL, GARBAGE}

(* Pointers are null, garbage, or point to cells; the server's list does not *)
(* exceed its limit.                                                         *)
TypeOK ==
  /\ user \in {"server", "library"}
  /\ data \in [Cells -> Pids \cup {NULL, GARBAGE}]
  /\ prev \in [Cells -> Pointers] /\ next \in [Cells -> Pointers]
  /\ logical_length \in Nat
  /\ user = "server" => logical_length <= MAX_NUM_CLIENTS
  /\ pc \in {"idle", "contains", "absent", "present", "remove", "loop",
             "follow"}
  /\ caller \in {"none", "new_client", "disconnect", "global", "library"}
  /\ pid \in Pids \cup {NULL} /\ q \in Cells \cup {NULL}
  /\ p \in Cells \cup {NULL} /\ sender \in Pids \cup {NULL}
  /\ contents \in Seq(Nodes)
  /\ agenda \in Seq(Pids) /\ served \in Seq(Pids)

(* The cells met from a sentinel along a field, up to the other sentinel or  *)
(* at most as many as there are.                                             *)
Walk(start, end, field) ==
  LET at[k \in 0..Cardinality(Nodes)] ==
        IF k = 0 THEN field[start]
        ELSE IF at[k - 1] \in Nodes THEN field[at[k - 1]] ELSE end
      n == Cardinality({k \in 0..Cardinality(Nodes) : at[k] \in Nodes})
  IN  [k \in 1..n |-> at[k - 1]]

Forward  == Walk(HEAD, TAIL, next)
Backward == Walk(TAIL, HEAD, prev)

(* link, unlink: the next pointers, the prev pointers and logical_length     *)
(* tell of the same nodes, whatever was inserted and removed at either end   *)
(* or in the middle, and although freed nodes come back.                     *)
WalksAgree ==
  /\ Forward = contents
  /\ Backward = Reverse(contents)
  /\ logical_length = Len(contents)

(* list_contains, list_remove_pid, the loop over the list: the cursors are   *)
(* at nodes of the list or at its tail, never at a freed node, a node that   *)
(* was allocated again or the null pointer.  The pid that the server removes *)
(* under its cursor is that of the node it is at and of no other, and from   *)
(* the node that it has just freed it comes back into the list.              *)
CursorsLive ==
  /\ pc \in {"contains", "remove"} => q \in Listed \cup {TAIL}
  /\ pc = "loop" => p \in Listed \cup {TAIL}
  /\ pc = "follow" => p \notin Listed /\ next[p] \in Listed \cup {TAIL}
  /\ pc = "remove" /\ caller = "global" =>
       {n \in Listed : Pid(n) = pid} = {p}

(* The loop of a global message: when it ends, everybody who was in the list *)
(* at its start, but not the sender, was served once and in order, although  *)
(* entries were removed under the cursor.                                    *)
LoopServesAll == pc = "loop" /\ at_end(p) => served = agenda

(* Seen along the next pointers, every step is a step of a sequence of pids. *)
R == INSTANCE Roster WITH roster <- Names(Forward)
RosterSpec == R!RosterSpec
===============================================================================
