------------------------- MODULE PatternSearch_proof -------------------------
(***************************************************************************)
(* Partial correctness of the search, for regions and patterns of any      *)
(* length over any bytes.                                                  *)
(***************************************************************************)
EXTENDS PatternSearch, TLAPS

(***************************************************************************)
(* The loop invariant: no candidate before i is an occurrence; of          *)
(* candidate i the first j elements agree, and a candidate that is given   *)
(* up (finded is FALSE) disagrees at element j.                            *)
(***************************************************************************)
NoneBefore == \A k \in Nat : k < i => ~OccursAt(k)

CandidateInRegion == pc \in {"byte", "found?"} => plen > 0 /\ i + plen <= img_size /\ j <= plen

PrefixAgrees == \A n \in 1..j : Agrees(pattern[n], image[i + n])

GivenUp ==
  /\ pc = "byte" => finded
  /\ pc = "found?" /\ finded => j = plen
  /\ pc = "found?" /\ ~finded => ~OccursAt(i)

StartsFresh == pc = "start" => i = 0 /\ j = 0 /\ finded

NoResultYet == pc # "done" => result = NotFound

SearchInv == /\ TypeOK
             /\ NoneBefore /\ CandidateInRegion /\ PrefixAgrees
             /\ GivenUp /\ StartsFresh /\ NoResultYet
             /\ ReturnsFirstOccurrence

LEMMA Lengths ==
  ASSUME TypeOK
  PROVE  plen \in Nat /\ img_size \in Nat
BY PatternAssumption DEF TypeOK, plen, img_size

LEMMA InitSearch == Init => SearchInv
<1> SUFFICES ASSUME Init PROVE SearchInv
  OBVIOUS
<1>1. TypeOK
  BY DEF Init, TypeOK
<1>2. NoneBefore /\ PrefixAgrees
  BY DEF Init, NoneBefore, PrefixAgrees
<1> QED
  BY <1>1, <1>2 DEF Init, SearchInv, CandidateInRegion, GivenUp, StartsFresh,
       NoResultYet, ReturnsFirstOccurrence

LEMMA StartSearch ==
  ASSUME SearchInv, Start
  PROVE  SearchInv'
<1>1. plen \in Nat /\ img_size \in Nat /\ TypeOK
  BY Lengths DEF SearchInv
<1>2. /\ i = 0 /\ j = 0 /\ finded /\ result = NotFound
      /\ UNCHANGED <<image, pattern, i, j, finded, result>>
  BY DEF SearchInv, Start, StartsFresh, NoResultYet
<1>3. TypeOK'
  BY <1>1, <1>2 DEF Start, TypeOK
<1>4. NoneBefore' /\ PrefixAgrees'
  BY <1>2 DEF NoneBefore, PrefixAgrees
<1>5. CASE plen = 0 \/ img_size < plen
  <2>1. pc' = "done"
    BY <1>5 DEF Start
  <2>2. ReturnsFirstOccurrence'
    BY <1>1, <1>2, <1>5 DEF ReturnsFirstOccurrence, OccursAt, plen, img_size
  <2> QED
    BY <1>3, <1>4, <2>1, <2>2 DEF SearchInv, CandidateInRegion, GivenUp,
         StartsFresh, NoResultYet
<1>6. CASE ~(plen = 0 \/ img_size < plen)
  <2>1. pc' = "byte"
    BY <1>6 DEF Start
  <2>2. CandidateInRegion'
    BY <1>1, <1>2, <1>6 DEF CandidateInRegion, plen, img_size
  <2> QED
    BY <1>2, <1>3, <1>4, <2>1, <2>2 DEF SearchInv, GivenUp, StartsFresh,
         NoResultYet, ReturnsFirstOccurrence
<1> QED BY <1>5, <1>6

LEMMA CompareSearch ==
  ASSUME SearchInv, CompareByte
  PROVE  SearchInv'
<1>1. plen \in Nat /\ img_size \in Nat /\ TypeOK
  BY Lengths DEF SearchInv
<1>2. /\ pc = "byte" /\ finded /\ j < plen /\ i \in Nat /\ j \in Nat
      /\ UNCHANGED <<image, pattern, i, result>>
  BY <1>1 DEF SearchInv, CompareByte, GivenUp, TypeOK
<1>3. NoneBefore'
  BY <1>2 DEF SearchInv, NoneBefore, OccursAt, plen, img_size
<1>4. CASE Agrees(pattern[j + 1], image[i + j + 1])
  <2>1. j' = j + 1 /\ pc' = pc /\ finded' = finded
    BY <1>4 DEF CompareByte
  <2>2. PrefixAgrees'
    <3> SUFFICES ASSUME NEW n \in 1..(j + 1)
                 PROVE  Agrees(pattern[n], image[i + n])
      BY <1>2, <2>1 DEF PrefixAgrees, Agrees
    <3>1. CASE n = j + 1
      <4>1. i + n = i + j + 1
        BY <1>2, <3>1
      <4> QED BY <1>4, <3>1, <4>1
    <3>2. CASE n # j + 1
      <4>1. n \in 1..j
        BY <1>2, <3>2
      <4> QED BY <4>1 DEF SearchInv, PrefixAgrees
    <3> QED BY <3>1, <3>2
  <2>3. CandidateInRegion'
    BY <1>1, <1>2, <2>1 DEF SearchInv, CandidateInRegion, plen, img_size
  <2>4. TypeOK'
    BY <1>1, <1>2, <2>1 DEF TypeOK
  <2> QED
    BY <1>2, <1>3, <2>1, <2>2, <2>3, <2>4 DEF SearchInv, GivenUp, StartsFresh,
         NoResultYet, ReturnsFirstOccurrence
<1>5. CASE ~Agrees(pattern[j + 1], image[i + j + 1])
  <2>1. j' = j /\ pc' = "found?" /\ finded' = FALSE
    BY <1>5 DEF CompareByte
  <2>2. ~OccursAt(i)
    <3>1. j + 1 \in 1..plen /\ i + (j + 1) = i + j + 1
      BY <1>1, <1>2
    <3> QED BY <1>5, <3>1 DEF OccursAt
  <2>3. (~OccursAt(i))'
    BY <1>2, <2>2 DEF OccursAt, plen, img_size, Agrees
  <2>4. PrefixAgrees' /\ CandidateInRegion'
    BY <1>2, <2>1 DEF SearchInv, PrefixAgrees, CandidateInRegion, plen, img_size, Agrees
  <2>5. TypeOK'
    BY <1>1, <1>2, <2>1 DEF TypeOK
  <2> QED
    BY <1>2, <1>3, <2>1, <2>3, <2>4, <2>5 DEF SearchInv, GivenUp, StartsFresh,
         NoResultYet, ReturnsFirstOccurrence
<1> QED BY <1>4, <1>5

LEMMA PatternEndsSearch ==
  ASSUME SearchInv, PatternEnds
  PROVE  SearchInv'
<1>1. /\ pc = "byte" /\ j = plen /\ pc' = "found?"
      /\ UNCHANGED <<image, pattern, i, j, finded, result>>
  BY DEF PatternEnds
<1>2. TypeOK'
  BY <1>1 DEF SearchInv, TypeOK
<1>3. NoneBefore' /\ PrefixAgrees' /\ CandidateInRegion'
  BY <1>1 DEF SearchInv, NoneBefore, PrefixAgrees, CandidateInRegion, OccursAt,
       Agrees, plen, img_size
<1> QED
  BY <1>1, <1>2, <1>3 DEF SearchInv, GivenUp, StartsFresh, NoResultYet,
       ReturnsFirstOccurrence, plen

LEMMA FoundSearch ==
  ASSUME SearchInv, Found
  PROVE  SearchInv'
<1>1. plen \in Nat /\ img_size \in Nat /\ TypeOK
  BY Lengths DEF SearchInv
<1>2. /\ pc = "found?" /\ finded /\ pc' = "done" /\ result' = i
      /\ UNCHANGED <<image, pattern, i, j, finded>>
  BY DEF Found
<1>3. TypeOK'
  BY <1>1, <1>2 DEF TypeOK
<1>4. NoneBefore' /\ PrefixAgrees' /\ CandidateInRegion'
  BY <1>2 DEF SearchInv, NoneBefore, PrefixAgrees, CandidateInRegion, OccursAt,
       Agrees, plen, img_size
<1>5. OccursAt(i)
  BY <1>2 DEF SearchInv, GivenUp, PrefixAgrees, CandidateInRegion, OccursAt
<1>6. ReturnsFirstOccurrence'
  <2>1. i # NotFound
    BY <1>1, PatternAssumption DEF TypeOK
  <2>2. (OccursAt(i))'
    BY <1>2, <1>5 DEF OccursAt, Agrees, plen, img_size
  <2> QED
    BY <1>1, <1>2, <1>4, <2>1, <2>2 DEF ReturnsFirstOccurrence, NoneBefore
<1> QED
  BY <1>2, <1>3, <1>4, <1>6 DEF SearchInv, GivenUp, StartsFresh, NoResultYet

LEMMA NextCandidateSearch ==
  ASSUME SearchInv, NextCandidate
  PROVE  SearchInv'
<1>1. plen \in Nat /\ img_size \in Nat /\ TypeOK
  BY Lengths DEF SearchInv
<1>2. /\ pc = "found?" /\ ~finded /\ result = NotFound
      /\ UNCHANGED <<image, pattern, result>>
  BY DEF SearchInv, NextCandidate, NoResultYet
<1>3. ~OccursAt(i) /\ i \in Nat /\ plen > 0 /\ i + plen <= img_size
  BY <1>1, <1>2 DEF SearchInv, GivenUp, CandidateInRegion, TypeOK
<1>4. \A k \in Nat : k < i + 1 => ~OccursAt(k)
  BY <1>3 DEF SearchInv, NoneBefore
<1>5. CASE i < last
  <2>1. i' = i + 1 /\ j' = 0 /\ finded' = TRUE /\ pc' = "byte"
    BY <1>5 DEF NextCandidate
  <2>2. NoneBefore'
    BY <1>2, <1>4, <2>1 DEF NoneBefore, OccursAt, Agrees, plen, img_size
  <2>3. CandidateInRegion'
    BY <1>1, <1>2, <1>3, <1>5, <2>1 DEF CandidateInRegion, last, plen, img_size
  <2>4. PrefixAgrees'
    BY <2>1 DEF PrefixAgrees
  <2>5. TypeOK'
    BY <1>1, <1>2, <1>3, <2>1 DEF TypeOK
  <2> QED
    BY <1>2, <2>1, <2>2, <2>3, <2>4, <2>5 DEF SearchInv, GivenUp, StartsFresh,
         NoResultYet, ReturnsFirstOccurrence
<1>6. CASE ~(i < last)
  <2>1. pc' = "done" /\ UNCHANGED <<i, j, finded>>
    BY <1>6 DEF NextCandidate
  <2>2. \A k \in 0..img_size : ~OccursAt(k)
    BY <1>1, <1>3, <1>4, <1>6 DEF OccursAt, last
  <2>3. ReturnsFirstOccurrence'
    BY <1>2, <2>1, <2>2 DEF ReturnsFirstOccurrence, OccursAt, Agrees, plen, img_size
  <2>4. NoneBefore' /\ PrefixAgrees'
    BY <1>2, <2>1 DEF SearchInv, NoneBefore, PrefixAgrees, OccursAt, Agrees, plen, img_size
  <2>5. TypeOK'
    BY <1>1, <1>2, <2>1 DEF TypeOK
  <2> QED
    BY <1>2, <2>1, <2>3, <2>4, <2>5 DEF SearchInv, CandidateInRegion, GivenUp,
         StartsFresh, NoResultYet
<1> QED BY <1>5, <1>6

LEMMA NextSearch == SearchInv /\ [Next]_vars => SearchInv'
<1> SUFFICES ASSUME SearchInv, [Next]_vars PROVE SearchInv'
  OBVIOUS
<1>1. CASE Start
  BY <1>1, StartSearch
<1>2. CASE CompareByte
  BY <1>2, CompareSearch
<1>3. CASE PatternEnds
  BY <1>3, PatternEndsSearch
<1>4. CASE Found
  BY <1>4, FoundSearch
<1>5. CASE NextCandidate
  BY <1>5, NextCandidateSearch
<1>6. CASE UNCHANGED vars
  BY <1>6 DEF vars, SearchInv, TypeOK, NoneBefore, CandidateInRegion, PrefixAgrees,
       GivenUp, StartsFresh, NoResultYet, ReturnsFirstOccurrence, OccursAt, Agrees,
       plen, img_size
<1> QED BY <1>1, <1>2, <1>3, <1>4, <1>5, <1>6 DEF Next

\* pattern_search returns the first occurrence, or None when there is none, for
\* every region and pattern (memory/mod.rs:40).
THEOREM SearchIsCorrect == Spec => []ReturnsFirstOccurrence
<1>1. SearchInv => ReturnsFirstOccurrence
  BY DEF SearchInv
<1> QED BY <1>1, InitSearch, NextSearch, PTL DEF Spec

\* The search never reads a byte outside the region it was given (memory/mod.rs:45).
THEOREM SearchStaysInside == Spec => []ReadsInsideRegion
<1>1. SearchInv => ReadsInsideRegion
  <2> SUFFICES ASSUME SearchInv, pc = "byte", j < plen PROVE i + j < img_size
    BY DEF ReadsInsideRegion
  <2>1. plen \in Nat /\ img_size \in Nat /\ i \in Nat /\ j \in Nat
    BY Lengths DEF SearchInv, TypeOK
  <2>2. i + plen <= img_size
    BY DEF SearchInv, CandidateInRegion
  <2> QED BY <2>1, <2>2
<1> QED BY <1>1, InitSearch, NextSearch, PTL DEF Spec

\* The loop variables stay natural numbers, whatever the lengths.
THEOREM SearchTypes == Spec => []TypeOK
<1>1. SearchInv => TypeOK
  BY DEF SearchInv
<1> QED BY <1>1, InitSearch, NextSearch, PTL DEF Spec

(***************************************************************************)
(* How much of the search is left: for each candidate, at most a pass for  *)
(* each element of the pattern, the test after them, and the step to the   *)
(* next candidate.                                                         *)
(***************************************************************************)
OfCandidate == IF pc = "start" THEN plen + 3
               ELSE IF pc = "byte" THEN plen - j + 2 ELSE plen - j + 1

Remaining ==
  IF pc = "done" THEN 0
  ELSE IF plen = 0 \/ img_size < plen THEN 1
  ELSE (last - i) * (plen + 2) + OfCandidate

LEMMA OneCandidateLess ==
  ASSUME NEW k \in Nat \ {0}, NEW c \in Nat
  PROVE  k * c \in Nat /\ (k - 1) * c \in Nat /\ k * c = (k - 1) * c + c
OBVIOUS

LEMMA RemainingNat ==
  SearchInv => /\ Remaining \in Nat /\ plen \in Nat /\ img_size \in Nat /\ i \in Nat /\ j \in Nat
               /\ pc # "done" => Remaining > 0
<1> SUFFICES ASSUME SearchInv
             PROVE  /\ Remaining \in Nat /\ plen \in Nat /\ img_size \in Nat /\ i \in Nat /\ j \in Nat
                    /\ pc # "done" => Remaining > 0
  OBVIOUS
<1>1. /\ plen \in Nat /\ img_size \in Nat /\ i \in Nat /\ j \in Nat
      /\ pc \in {"start", "byte", "found?", "done"}
  BY Lengths DEF SearchInv, TypeOK
<1>2. CASE pc = "done" \/ plen = 0 \/ img_size < plen
  BY <1>1, <1>2 DEF Remaining
<1>3. CASE ~(pc = "done" \/ plen = 0 \/ img_size < plen)
  <2>1. i + plen <= img_size /\ OfCandidate \in Nat \ {0}
    BY <1>1, <1>3 DEF SearchInv, CandidateInRegion, StartsFresh, OfCandidate
  <2>2. last - i \in Nat /\ plen + 2 \in Nat
    BY <1>1, <2>1 DEF last
  <2>3. (last - i) * (plen + 2) \in Nat
    BY <2>2
  <2> QED BY <1>1, <1>3, <2>1, <2>3 DEF Remaining
<1> QED BY <1>1, <1>2, <1>3

\* A step leaves less of the search than there was.
Advances == Remaining \in Nat /\ Remaining' \in Nat /\ Remaining' < Remaining

\* Every step advances the search, so that it comes to `Some` or `None` (memory/mod.rs:48-77) in
\* no more than (m - n + 1) * (n + 2) + 1 steps for a region of m and a pattern of n <= m bytes.
THEOREM SearchAdvances == Spec => [][Advances]_vars
<1>1. ASSUME SearchInv, SearchInv', Next
      PROVE  Advances
  <2> USE DEF Advances
  <2>1. /\ Remaining \in Nat /\ plen \in Nat /\ img_size \in Nat /\ i \in Nat /\ j \in Nat
        /\ pc # "done" => Remaining > 0
    BY <1>1, RemainingNat
  <2>2. Remaining' \in Nat
    <3>1. (SearchInv => Remaining \in Nat)'
      BY RemainingNat, PTL
    <3> QED BY <1>1, <3>1
  <2>3. plen' = plen /\ img_size' = img_size /\ last' = last
    BY <1>1 DEF Next, Start, CompareByte, PatternEnds, Found, NextCandidate, plen, img_size, last
  <2>4. CASE pc' = "done"
    <3>1. pc # "done" /\ Remaining' = 0
      BY <1>1, <2>4 DEF Next, Start, CompareByte, PatternEnds, Found, NextCandidate, Remaining
    <3> QED BY <2>1, <3>1
  <2>5. CASE pc' # "done"
    <3> DEFINE r == (last - i) * (plen + 2)
    <3>1. /\ plen > 0 /\ plen <= img_size /\ i + plen <= img_size /\ last \in Nat /\ last - i \in Nat
          /\ pc # "done"
      BY <1>1, <2>1, <2>5 DEF SearchInv, CandidateInRegion, StartsFresh, last, Next, Start,
         CompareByte, PatternEnds, Found, NextCandidate
    <3>2. r \in Nat /\ Remaining = r + OfCandidate /\ Remaining' = (last - i') * (plen + 2) + OfCandidate'
      BY <2>1, <2>3, <2>5, <3>1 DEF Remaining
    <3>3. CASE ~NextCandidate
      <4>1. i' = i
        BY <1>1, <3>3 DEF Next, Start, CompareByte, PatternEnds, Found
      <4>2. OfCandidate \in Nat /\ OfCandidate' \in Nat /\ OfCandidate' < OfCandidate
        BY <1>1, <2>1, <2>3, <2>5, <3>3 DEF Next, Start, CompareByte, PatternEnds, Found,
           OfCandidate, SearchInv, CandidateInRegion, StartsFresh
      <4> HIDE DEF r
      <4> QED BY <3>2, <4>1, <4>2 DEF r
    <3>4. CASE NextCandidate
      <4>1. i' = i + 1 /\ j' = 0 /\ pc' = "byte" /\ pc = "found?" /\ i < last
        BY <2>5, <3>4 DEF NextCandidate
      <4>2. OfCandidate' = plen + 2 /\ OfCandidate \in Nat \ {0}
        BY <1>1, <2>1, <2>3, <4>1 DEF OfCandidate, SearchInv, CandidateInRegion
      <4>3. (last - i) - 1 = last - i' /\ last - i \in Nat \ {0} /\ plen + 2 \in Nat
        BY <2>1, <3>1, <4>1
      <4>4. r = (last - i') * (plen + 2) + (plen + 2)
        BY <4>3, OneCandidateLess
      <4>5. (last - i') * (plen + 2) \in Nat
        BY <4>3, OneCandidateLess
      <4> QED BY <2>1, <3>2, <4>2, <4>4, <4>5
    <3> QED BY <3>3, <3>4
  <2> QED BY <2>1, <2>2, <2>4, <2>5
<1> QED BY <1>1, InitSearch, NextSearch, PTL DEF Spec
=============================================================================
