----------------------------- MODULE MCPageWalk -----------------------------
(***************************************************************************)
(* Tables of two entries, pages of two units.  Five pages may be tables:   *)
(* four make up a full path, the other is spare and holds old entries.     *)
(***************************************************************************)
EXTENDS PageWalk

MCTable == {2, 4, 6, 8, 10}

Absent == [present |-> FALSE, huge |-> FALSE, addr |-> 0]
Link(t) == [present |-> TRUE, huge |-> FALSE, addr |-> t]
Small(p) == [present |-> TRUE, huge |-> FALSE, addr |-> p]
Large(p) == [present |-> TRUE, huge |-> TRUE, addr |-> p]

\* An entry that is not present may hold anything else.
PagedOut == [present |-> FALSE, huge |-> TRUE, addr |-> 16]

MCEntry == {Absent, PagedOut, Small(16), Large(24)} \cup {Link(t) : t \in MCTable \ {Root}}

\* With the attribute bit of a large page set.
PatEntry == MCEntry \cup {Large(24 + PageSize)}

Fill(m) == [a \in Slot |-> IF a \in DOMAIN m THEN m[a] ELSE Absent]

\* 21 has the indices 0, 1, 0 in the Pdpt, Pd and Pt and 1 in the Pml4; 20 is its neighbour.
Path == Fill([a \in {3, 4, 7, 8, 10} |->
  CASE a = 3  -> Link(4)
    [] a = 4  -> Link(6)
    [] a = 7  -> Link(8)
    [] a = 8  -> Small(16)
    [] a = 10 -> Small(16)])

MCStart == {Path}
=============================================================================
