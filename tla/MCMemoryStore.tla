---------------------------- MODULE MCMemoryStore ---------------------------
(* Small instances of the memory store. *)
EXTENDS MemoryStore, TLC

Symmetry == Permutations(Contents)
=============================================================================
