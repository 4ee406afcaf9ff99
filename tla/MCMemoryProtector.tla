------------------------- MODULE MCMemoryProtector -------------------------
(* Small page tables for the model checker.                                 *)
EXTENDS MemoryProtector, TLC

Symmetry == Permutations(Pages) \cup Permutations(Harts) \cup Permutations(Vms)
=============================================================================
