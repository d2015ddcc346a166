---------------------------- MODULE PatternSearch ----------------------------
(***************************************************************************)
(* memory::pattern_search: the two loops that look for a byte pattern with *)
(* wildcards in a memory region.  Offsets are relative to `base`; the      *)
(* region holds still while it is scanned, as the function's safety        *)
(* section requires.                                                       *)
(***************************************************************************)
EXTENDS Naturals, Sequences

CONSTANTS Byte,
          Wildcard,   \* the pattern element None
          NotFound,   \* the result None
          Image,      \* regions to search: sequences of bytes
          Pattern     \* patterns: sequences of bytes and wildcards

ASSUME PatternAssumption == /\ Image \subseteq Seq(Byte)
                            /\ Pattern \subseteq Seq(Byte \cup {Wildcard})
                            /\ Wildcard \notin Byte
                            /\ NotFound \notin Nat

VARIABLES
  image, pattern,   \* the arguments
  pc,               \* "start", "byte" (inner loop), "found?" (after it), "done"
  i, j,             \* start of the current candidate, index into the pattern
  finded,           \* the candidate agrees so far
  result            \* offset of the match, NotFound before and without one

vars == <<image, pattern, pc, i, j, finded, result>>

img_size == Len(image)
plen == Len(pattern)
last == img_size - plen

TypeOK ==
  /\ image \in Image /\ pattern \in Pattern
  /\ pc \in {"start", "byte", "found?", "done"}
  /\ i \in Nat /\ j \in Nat
  /\ finded \in BOOLEAN
  /\ result \in Nat \cup {NotFound}

Init ==
  /\ image \in Image /\ pattern \in Pattern
  /\ pc = "start" /\ i = 0 /\ j = 0
  /\ finded = TRUE
  /\ result = NotFound

\* mutant: a pattern longer than the region is not rejected
Start_NoLengthCheck ==
  /\ pc = "start"
  /\ pc' = IF plen = 0 THEN "done" ELSE "byte"
  /\ UNCHANGED <<image, pattern, i, j, finded, result>>

Start ==
  /\ pc = "start"
  /\ pc' = IF plen = 0 \/ img_size < plen THEN "done" ELSE "byte"
  /\ UNCHANGED <<image, pattern, i, j, finded, result>>

Agrees(pat, byte) == pat = Wildcard \/ pat = byte

\* One pass of the inner loop: read the byte, go on or break.
CompareByte ==
  /\ pc = "byte"
  /\ j < plen
  /\ IF Agrees(pattern[j + 1], image[i + j + 1])
     THEN j' = j + 1 /\ UNCHANGED <<pc, finded>>
     ELSE pc' = "found?" /\ finded' = FALSE /\ UNCHANGED j
  /\ UNCHANGED <<image, pattern, i, result>>

PatternEnds ==
  /\ pc = "byte"
  /\ j = plen
  /\ pc' = "found?"
  /\ UNCHANGED <<image, pattern, i, j, finded, result>>

Found ==
  /\ pc = "found?"
  /\ finded
  /\ result' = i
  /\ pc' = "done"
  /\ UNCHANGED <<image, pattern, i, j, finded>>

\* mutant: the next candidate is where the disagreement was
NextCandidate_Skips ==
  /\ pc = "found?"
  /\ ~finded
  /\ IF i + j < last THEN /\ i' = i + j + 1 /\ j' = 0 /\ finded' = TRUE /\ pc' = "byte"
                     ELSE pc' = "done" /\ UNCHANGED <<i, j, finded>>
  /\ UNCHANGED <<image, pattern, result>>

\* mutant: the same candidate is tried again
NextCandidate_Stays ==
  /\ pc = "found?"
  /\ ~finded
  /\ IF i < last THEN /\ j' = 0 /\ finded' = TRUE /\ pc' = "byte"
                 ELSE pc' = "done" /\ UNCHANGED <<j, finded>>
  /\ UNCHANGED <<image, pattern, i, result>>

\* The outer loop goes on to the next candidate, up to and including `last`.
NextCandidate ==
  /\ pc = "found?"
  /\ ~finded
  /\ IF i < last THEN /\ i' = i + 1 /\ j' = 0 /\ finded' = TRUE /\ pc' = "byte"
                 ELSE pc' = "done" /\ UNCHANGED <<i, j, finded>>
  /\ UNCHANGED <<image, pattern, result>>

Next == Start \/ CompareByte \/ PatternEnds \/ Found \/ NextCandidate

Spec == Init /\ [][Next]_vars /\ WF_vars(Next)

(***************************************************************************)
(* Properties.                                                             *)
(***************************************************************************)

\* The pattern occurs at offset k: the definition the loops are measured against.
OccursAt(k) ==
  /\ k + plen <= img_size
  /\ \A n \in 1..plen : Agrees(pattern[n], image[k + n])

\* "Returns the virtual address of the first matching occurrence, or None if the
\* pattern cannot be found" (memory/mod.rs:40); the empty pattern is never found.
ReturnsFirstOccurrence ==
  pc = "done" =>
    IF result = NotFound
    THEN plen = 0 \/ \A k \in 0..img_size : ~OccursAt(k)
    ELSE OccursAt(result) /\ \A k \in 0..img_size : k < result => ~OccursAt(k)

\* The byte about to be read lies in [base, base + img_size), the only range the
\* caller has promised to be readable (memory/mod.rs:45).
ReadsInsideRegion == pc = "byte" /\ j < plen => i + j < img_size

\* The search ends for every region and pattern.
Terminates == <>(pc = "done")
=============================================================================
