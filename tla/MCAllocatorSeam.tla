-------------------------- MODULE MCAllocatorSeam --------------------------
(* AllocatorSeam on a small instance: see the cfg files for the bounds.     *)
EXTENDS AllocatorSeam, TLC

Symmetry == Permutations(Threads) \cup Permutations(Blocks)

=============================================================================
