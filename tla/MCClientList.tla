----------------------------- MODULE MCClientList -----------------------------
(* A small instance of ClientList for TLC.                                   *)
EXTENDS ClientList, TLC

(* Memory cells are interchangeable, and so are pids.                        *)
Symmetry == Permutations(Nodes) \cup Permutations(Pids)
===============================================================================
