---------------------------- MODULE MCPoolOwner ----------------------------
(***************************************************************************)
(* Two owners over memory for three elements of two bytes.                 *)
(***************************************************************************)
EXTENDS PoolOwner, TLC

MCAddr == 1..6
MCBase == {1, 3}
MCValue == 1..4
Symmetry == Permutations(Owner)
=============================================================================
