--------------------------- MODULE MCPatternSearch ---------------------------
(***************************************************************************)
(* All regions of up to four bytes and patterns of up to three elements    *)
(* over two byte values: overlapping occurrences, occurrences at the very  *)
(* end, wildcards first and last, patterns longer than the region.         *)
(***************************************************************************)
EXTENDS PatternSearch, SequencesExt

MCImage == BoundedSeq(Byte, 4)
MCPattern == BoundedSeq(Byte \cup {Wildcard}, 3)
=============================================================================
