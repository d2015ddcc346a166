-------------------------------- MODULE MCMdl --------------------------------
(***************************************************************************)
(* A few Mdl values over two pages, so that regions coincide, overlap or   *)
(* are disjoint.                                                           *)
(***************************************************************************)
EXTENDS Mdl, TLC

MCSymmetry == Permutations(Handle) \cup Permutations(Page)
=============================================================================
