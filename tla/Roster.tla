-------------------------------- MODULE Roster --------------------------------
(***************************************************************************)
(* What the list of clients promises to its callers: a sequence of pids     *)
(* that grows and shrinks at either end, and from which the first entry of  *)
(* a pid can be removed, leaving the others in their order.  Module Chat    *)
(* uses the server's list in this form.                                     *)
(***************************************************************************)
EXTENDS Sequences, SequencesExt

CONSTANT Pids

VARIABLE roster     \* the pids, from the front to the back

RosterInit == roster = <<>>

Enter == \E x \in Pids : roster' \in {Append(roster, x), <<x>> \o roster}

Leave ==
  \/ \E x \in ToSet(roster) : roster' = RemoveFirst(roster, x)
  \/ roster # <<>> /\ roster' \in {Tail(roster), Front(roster)}

RosterNext == Enter \/ Leave

RosterSpec == RosterInit /\ [][RosterNext]_roster
===============================================================================
