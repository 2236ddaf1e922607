------------------------------- MODULE MCQueue -------------------------------
(* Small instances of Queue for TLC.                                        *)
EXTENDS Queue, TLC

(* Threads are interchangeable, and so are memory cells.                    *)
Symmetry == Permutations(Threads) \cup Permutations(Elements)
==============================================================================
