------------------------- MODULE MCProducerConsumer -------------------------
(* Small instances of ProducerConsumer for TLC.                             *)
EXTENDS ProducerConsumer, TLC

(* The consumer processes are interchangeable.                              *)
Symmetry == Permutations(Consumers)
=============================================================================
