-------------------------- MODULE MCQueueDependency --------------------------
(* Small instances of QueueDependency for TLC. *)
EXTENDS QueueDependency, TLC

CONSTANTS w1, w2, w3, a1, a2

Symmetry == Permutations(Item) \cup Permutations(Process)
=============================================================================
