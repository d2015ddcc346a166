--------------------------- MODULE MCReadOnlyWrite ---------------------------
(***************************************************************************)
(* Two threads write over three pages of two bytes: a patch inside one     *)
(* page, one that straddles a page boundary and overlaps the first, the    *)
(* null address and the empty patch.                                       *)
(***************************************************************************)
EXTENDS ReadOnlyWrite, TLC

MCAddr == 2..7
MCPage == 1..3
MCRequest == {[dst |-> 2, src |-> <<<<"A", 1>>>>],
              [dst |-> 3, src |-> <<<<"B", 1>>, <<"B", 2>>, <<"B", 3>>>>],
              [dst |-> 0, src |-> <<<<"A", 1>>>>],
              [dst |-> 2, src |-> <<>>]}
=============================================================================
