-------------------------- MODULE MCKernelAllocator --------------------------
(***************************************************************************)
(* Two threads, pointers of two bytes, room for two pool allocations that  *)
(* touch, one at an odd and one at an even address, so that blocks of      *)
(* alignment 2 are moved in the first and not in the second.               *)
(***************************************************************************)
EXTENDS KernelAllocator, TLC

MCAddr == 1..7
MCBase == {1, 4}
MCLayout == {[size |-> 1, align |-> 1], [size |-> 1, align |-> 2]}
MCSymmetry == Permutations(Thread)
=============================================================================
