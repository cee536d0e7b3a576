------------------------- MODULE MCSynchronizedQueue -------------------------
(* Instances of SynchronizedQueue for TLC. *)
EXTENDS SynchronizedQueue, TLC

Symmetry == Permutations(Nodes) \cup Permutations(Producers)
=============================================================================
