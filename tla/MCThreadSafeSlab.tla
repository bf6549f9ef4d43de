-------------------------- MODULE MCThreadSafeSlab --------------------------
(* Small instances of ThreadSafeSlab for TLC. *)
EXTENDS ThreadSafeSlab, TLC

\* Neither the threads nor the addresses of the slabs are told apart.
Symmetry == Permutations(Thread) \cup Permutations(Slab)

AllOps == Calls

NoRefresh == Calls \ {"refresh"}

=============================================================================
