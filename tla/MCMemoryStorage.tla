-------------------------- MODULE MCMemoryStorage --------------------------
(* memoryStorage with a cap of two buckets for three keys. *)
EXTENDS MemoryStorage, TLC

CONSTANTS p1, p2, k1, k2, k3

MCProcs == {p1, p2}
MCKeys == {k1, k2, k3}
Symmetry == Permutations(MCProcs) \cup Permutations(MCKeys)
=============================================================================
