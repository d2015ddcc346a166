------------------------- MODULE ReadOnlyWrite_proof -------------------------
(***************************************************************************)
(* Proofs about Mdl, for callers that follow the documented order of calls *)
(* and any number of Mdl values over any pages; then, resting on them,     *)
(* about write_to_read_only_memory for any number of threads, any requests *)
(* and any pages: what it owns, where it stores, and that it implements    *)
(* the contract of CodeWrite.                                              *)
(***************************************************************************)
EXTENDS ReadOnlyWrite, FiniteSetTheorems, TLAPS


(***************************************************************************)
(* NoBugcheck is not inductive: that DropMap finds its pages locked rests  *)
(* on the borrow (nobody unlocked since map_locked), and that an unlock    *)
(* finds a lock rests on the flag being exact.                             *)
(***************************************************************************)
FlagTypes ==
  /\ live \in [Handle -> BOOLEAN]
  /\ locked \in [Handle -> BOOLEAN]
  /\ mapping \in [Handle -> BOOLEAN]
  /\ held \in [Handle -> Nat]

FlagExact == \A h \in Handle : live[h] => held[h] = IF locked[h] THEN 1 ELSE 0

BorrowsHeld == \A h \in Handle : mapping[h] => live[h] /\ locked[h]

FlagInv == FlagTypes /\ FlagExact /\ BorrowsHeld /\ NoBugcheck

LEMMA MdlInitFlags == MdlInit => FlagInv
BY DEF MdlInit, FlagInv, FlagTypes, FlagExact, BorrowsHeld, NoBugcheck

\* The destructor, explicit unlock and free find exactly the locks the flag promises.
LEMMA MdlStepFlags ==
  ASSUME TypicalUse, FlagInv, [MdlNext]_mdlVars
  PROVE  FlagInv'
<1> USE DEF FlagInv, FlagTypes, FlagExact, BorrowsHeld, NoBugcheck
<1>1. ASSUME NEW h \in Handle, NEW pages \in SUBSET Page, New(h, pages)
      PROVE  FlagInv'
  BY <1>1 DEF New
<1>2. ASSUME NEW h \in Handle, Lock(h)
      PROVE  FlagInv'
  BY <1>2 DEF Lock, LockUnchecked, Exclusive
<1>3. ASSUME NEW h \in Handle, LockRaises(h)
      PROVE  FlagInv'
  BY <1>3 DEF LockRaises, rustVars, kernelVars
<1>4. ASSUME NEW h \in Handle, Unlock(h)
      PROVE  FlagInv'
  BY <1>4 DEF Unlock, Exclusive, MmUnlockPages
<1>5. ASSUME NEW h \in Handle, MapLocked(h)
      PROVE  FlagInv'
  <2>1. held[h] > 0
    BY <1>5 DEF MapLocked, Exclusive
  <2> QED BY <1>5, <2>1 DEF MapLocked, Exclusive
<1>6. ASSUME NEW h \in Handle, DropMap(h)
      PROVE  FlagInv'
  BY <1>6 DEF DropMap
<1>7. ASSUME NEW h \in Handle, Drop(h)
      PROVE  FlagInv'
  <2>1. CASE locked[h]
    BY <1>7, <2>1 DEF Drop, Exclusive, MmUnlockPages
  <2>2. CASE ~locked[h]
    BY <1>7, <2>2 DEF Drop, Exclusive
  <2> QED BY <2>1, <2>2
<1>8. CASE UNCHANGED mdlVars
  BY <1>8 DEF mdlVars
<1> QED
  BY <1>1, <1>2, <1>3, <1>4, <1>5, <1>6, <1>7, <1>8 DEF MdlNext

\* Callers that follow mdl.rs:20-27 never make the wrappers break a rule of the
\* memory manager: no unlock without a lock, no mapping of unlocked pages, no unmap
\* after the unlock, in any interleaving of any number of Mdl values.
THEOREM TypicalUseIsSafe ==
  ASSUME TypicalUse
  PROVE  MdlSpec => []NoBugcheck
<1>1. MdlInit => FlagInv
  BY MdlInitFlags
<1>2. FlagInv /\ [MdlNext]_mdlVars => FlagInv'
  BY MdlStepFlags
<1>3. FlagInv => NoBugcheck
  BY DEF FlagInv
<1> QED BY <1>1, <1>2, <1>3, PTL DEF MdlSpec

(***************************************************************************)
(* The kernel's counts.  A mapped page is locked because both counts are   *)
(* those of the wrappers over the page, and the wrappers that map it are   *)
(* among those that lock it.                                               *)
(***************************************************************************)
Pinning(p) == {h \in Handle : live[h] /\ locked[h] /\ p \in region[h]}
Viewing(p) == {h \in Handle : mapping[h] /\ p \in region[h]}

CountTypes ==
  /\ region \in [Handle -> SUBSET Page]
  /\ pins \in [Page -> Nat] /\ views \in [Page -> Nat]

CountInv ==
  /\ FlagInv /\ CountTypes
  /\ \A p \in Page : pins[p] = Cardinality(Pinning(p))
  /\ \A p \in Page : views[p] = Cardinality(Viewing(p))

LEMMA CountsFinite ==
  \A p \in Page : /\ IsFiniteSet(Pinning(p)) /\ IsFiniteSet(Pinning(p)')
                  /\ IsFiniteSet(Viewing(p)) /\ IsFiniteSet(Viewing(p)')
BY MdlAssumption, FS_Subset DEF Pinning, Viewing

\* A routine that counts one more for every page of h.
LEMMA RaiseCounts ==
  ASSUME NEW count \in [Page -> Nat], NEW pages, NEW h, NEW p \in Page,
         NEW S, IsFiniteSet(S), h \notin S, count[p] = Cardinality(S)
  PROVE  /\ p \in pages => Raise(count, pages)[p] = Cardinality(S \cup {h})
         /\ p \notin pages => Raise(count, pages)[p] = Cardinality(S)
<1>1. Cardinality(S \cup {h}) = Cardinality(S) + 1
  BY FS_AddElement
<1> QED BY <1>1 DEF Raise

\* And one less.
LEMMA LowerCounts ==
  ASSUME NEW count \in [Page -> Nat], NEW pages, NEW h, NEW p \in Page,
         NEW S, IsFiniteSet(S), p \in pages => h \in S, count[p] = Cardinality(S)
  PROVE  /\ Lower(count, pages)[p] = Cardinality(IF p \in pages THEN S \ {h} ELSE S)
         /\ Lower(count, pages)[p] \in Nat
<1>1. p \in pages => Cardinality(S \ {h}) = Cardinality(S) - 1
  BY FS_RemoveElement
<1>2. Cardinality(S \ {h}) \in Nat
  BY FS_RemoveElement, FS_CardinalityType
<1> QED BY <1>1, <1>2 DEF Lower

LEMMA RaiseType ==
  ASSUME NEW count \in [Page -> Nat], NEW pages
  PROVE  Raise(count, pages) \in [Page -> Nat]
BY DEF Raise

LEMMA InitCounts == MdlInit => CountInv
<1> SUFFICES ASSUME MdlInit PROVE CountInv
  OBVIOUS
<1>1. FlagInv /\ CountTypes
  BY MdlInitFlags DEF MdlInit, CountTypes
<1>2. \A p \in Page : Pinning(p) = {} /\ Viewing(p) = {}
  BY DEF MdlInit, Pinning, Viewing
<1> QED BY <1>1, <1>2, FS_EmptySet DEF CountInv, MdlInit

\* lock: h joins the wrappers that lock its pages.
LEMMA LockCounts ==
  ASSUME TypicalUse, CountInv, FlagInv', NEW h \in Handle, Lock(h)
  PROVE  CountInv'
<1>1. /\ pins' = Raise(pins, region[h]) /\ UNCHANGED <<region, views, mapping, live>>
      /\ locked' = [locked EXCEPT ![h] = TRUE] /\ live[h] /\ ~locked[h]
  BY DEF Lock, LockUnchecked, Exclusive
<1>2. CountTypes'
  BY <1>1, RaiseType DEF CountInv, CountTypes
<1>3. \A p \in Page : Viewing(p)' = Viewing(p)
  BY <1>1 DEF Viewing
<1>4. ASSUME NEW p \in Page
      PROVE  pins'[p] = Cardinality(Pinning(p)')
  <2>1. Pinning(p)' = IF p \in region[h] THEN Pinning(p) \cup {h} ELSE Pinning(p)
    BY <1>1 DEF Pinning, CountInv, FlagInv, FlagTypes
  <2>2. h \notin Pinning(p)
    BY <1>1 DEF Pinning
  <2>3. pins \in [Page -> Nat] /\ IsFiniteSet(Pinning(p)) /\ pins[p] = Cardinality(Pinning(p))
    BY CountsFinite DEF CountInv, CountTypes
  <2>4. /\ p \in region[h] => Raise(pins, region[h])[p] = Cardinality(Pinning(p) \cup {h})
        /\ p \notin region[h] => Raise(pins, region[h])[p] = Cardinality(Pinning(p))
    BY <2>2, <2>3, RaiseCounts
  <2> QED BY <1>1, <2>1, <2>4
<1> QED BY <1>1, <1>2, <1>3, <1>4 DEF CountInv

\* unlock, and the destructor of a locked Mdl: h leaves them.
LEMMA UnlockCounts ==
  ASSUME CountInv, FlagInv', NEW h \in Handle, Exclusive(h), locked[h],
         MmUnlockPages(h), locked' = [locked EXCEPT ![h] = FALSE],
         live' = live \/ live' = [live EXCEPT ![h] = FALSE],
         UNCHANGED <<region, mapping, views>>
  PROVE  CountInv'
<1>1. pins' = Lower(pins, region[h]) /\ live[h]
  BY DEF MmUnlockPages, Exclusive, CountInv, FlagInv, FlagExact
<1>2. \A p \in Page : Viewing(p)' = Viewing(p)
  BY DEF Viewing
<1>3. ASSUME NEW p \in Page
      PROVE  pins'[p] = Cardinality(Pinning(p)') /\ pins'[p] \in Nat
  <2>1. Pinning(p)' = IF p \in region[h] THEN Pinning(p) \ {h} ELSE Pinning(p)
    BY <1>1 DEF Pinning, CountInv, FlagInv, FlagTypes
  <2>2. p \in region[h] => h \in Pinning(p)
    BY <1>1 DEF Pinning
  <2>3. pins \in [Page -> Nat] /\ IsFiniteSet(Pinning(p)) /\ pins[p] = Cardinality(Pinning(p))
    BY CountsFinite DEF CountInv, CountTypes
  <2>4. /\ Lower(pins, region[h])[p]
          = Cardinality(IF p \in region[h] THEN Pinning(p) \ {h} ELSE Pinning(p))
        /\ Lower(pins, region[h])[p] \in Nat
    BY <2>2, <2>3, LowerCounts
  <2> QED BY <1>1, <2>1, <2>4
<1>4. CountTypes'
  BY <1>1, <1>3 DEF CountInv, CountTypes, Lower
<1> QED BY <1>2, <1>3, <1>4 DEF CountInv

LEMMA MapCounts ==
  ASSUME TypicalUse, CountInv, FlagInv', NEW h \in Handle, MapLocked(h)
  PROVE  CountInv'
<1>1. held[h] > 0
  BY DEF MapLocked, Exclusive, CountInv, FlagInv, FlagExact
<1>2. /\ views' = Raise(views, region[h]) /\ UNCHANGED <<region, pins, locked, live>>
      /\ mapping' = [mapping EXCEPT ![h] = TRUE] /\ ~mapping[h]
  BY <1>1 DEF MapLocked, Exclusive
<1>3. CountTypes'
  BY <1>2, RaiseType DEF CountInv, CountTypes
<1>4. \A p \in Page : Pinning(p)' = Pinning(p)
  BY <1>2 DEF Pinning
<1>5. ASSUME NEW p \in Page
      PROVE  views'[p] = Cardinality(Viewing(p)')
  <2>1. Viewing(p)' = IF p \in region[h] THEN Viewing(p) \cup {h} ELSE Viewing(p)
    BY <1>2 DEF Viewing, CountInv, FlagInv, FlagTypes
  <2>2. h \notin Viewing(p)
    BY <1>2 DEF Viewing
  <2>3. views \in [Page -> Nat] /\ IsFiniteSet(Viewing(p)) /\ views[p] = Cardinality(Viewing(p))
    BY CountsFinite DEF CountInv, CountTypes
  <2>4. /\ p \in region[h] => Raise(views, region[h])[p] = Cardinality(Viewing(p) \cup {h})
        /\ p \notin region[h] => Raise(views, region[h])[p] = Cardinality(Viewing(p))
    BY <2>2, <2>3, RaiseCounts, SMTT(40)
  <2> QED BY <1>2, <2>1, <2>4
<1> QED BY <1>2, <1>3, <1>4, <1>5 DEF CountInv

LEMMA DropMapCounts ==
  ASSUME CountInv, FlagInv', NEW h \in Handle, DropMap(h)
  PROVE  CountInv'
<1>1. /\ views' = Lower(views, region[h]) /\ UNCHANGED <<region, pins, locked, live>>
      /\ mapping' = [mapping EXCEPT ![h] = FALSE] /\ mapping[h]
  BY DEF DropMap
<1>2. \A p \in Page : Pinning(p)' = Pinning(p)
  BY <1>1 DEF Pinning
<1>3. ASSUME NEW p \in Page
      PROVE  views'[p] = Cardinality(Viewing(p)') /\ views'[p] \in Nat
  <2>1. Viewing(p)' = IF p \in region[h] THEN Viewing(p) \ {h} ELSE Viewing(p)
    BY <1>1 DEF Viewing, CountInv, FlagInv, FlagTypes
  <2>2. p \in region[h] => h \in Viewing(p)
    BY <1>1 DEF Viewing
  <2>3. views \in [Page -> Nat] /\ IsFiniteSet(Viewing(p)) /\ views[p] = Cardinality(Viewing(p))
    BY CountsFinite DEF CountInv, CountTypes
  <2>4. /\ Lower(views, region[h])[p]
          = Cardinality(IF p \in region[h] THEN Viewing(p) \ {h} ELSE Viewing(p))
        /\ Lower(views, region[h])[p] \in Nat
    BY <2>2, <2>3, LowerCounts
  <2> QED BY <1>1, <2>1, <2>4
<1>4. CountTypes'
  BY <1>1, <1>3 DEF CountInv, CountTypes, Lower
<1> QED BY <1>1, <1>2, <1>3, <1>4 DEF CountInv

\* A step that changes neither the counts nor the wrappers over any page.
LEMMA OtherCounts ==
  ASSUME CountInv, FlagInv', UNCHANGED <<pins, views>>, CountTypes',
         \A p \in Page : Pinning(p)' = Pinning(p) /\ Viewing(p)' = Viewing(p)
  PROVE  CountInv'
BY DEF CountInv

LEMMA MdlStepCounts ==
  ASSUME TypicalUse, CountInv, [MdlNext]_mdlVars
  PROVE  CountInv'
<1>1. FlagInv /\ FlagInv'
  BY MdlStepFlags DEF CountInv
<1>2. ASSUME NEW h \in Handle, NEW pages \in SUBSET Page, New(h, pages)
      PROVE  CountInv'
  <2>1. ~locked'[h] /\ ~live[h] /\ ~mapping[h] /\ ~mapping'[h]
    BY <1>1, <1>2 DEF New, FlagInv, BorrowsHeld, FlagTypes
  <2>2. \A p \in Page : Pinning(p)' = Pinning(p) /\ Viewing(p)' = Viewing(p)
    BY <1>1, <1>2, <2>1 DEF New, Pinning, Viewing, FlagInv, FlagTypes, CountInv, CountTypes
  <2>3. CountTypes'
    BY <1>2 DEF New, CountInv, CountTypes
  <2> QED BY <1>1, <1>2, <2>2, <2>3, OtherCounts DEF New
<1>3. ASSUME NEW h \in Handle, Lock(h)
      PROVE  CountInv'
  BY <1>1, <1>3, LockCounts
<1>4. ASSUME NEW h \in Handle, LockRaises(h)
      PROVE  CountInv'
  BY <1>1, <1>4, OtherCounts DEF LockRaises, rustVars, kernelVars, Pinning, Viewing, CountInv, CountTypes
<1>5. ASSUME NEW h \in Handle, Unlock(h)
      PROVE  CountInv'
  BY <1>1, <1>5, UnlockCounts DEF Unlock
<1>6. ASSUME NEW h \in Handle, MapLocked(h)
      PROVE  CountInv'
  BY <1>1, <1>6, MapCounts
<1>7. ASSUME NEW h \in Handle, DropMap(h)
      PROVE  CountInv'
  BY <1>1, <1>7, DropMapCounts
<1>8. ASSUME NEW h \in Handle, Drop(h)
      PROVE  CountInv'
  <2>1. CASE locked[h]
    BY <1>1, <1>8, <2>1, UnlockCounts DEF Drop
  <2>2. CASE ~locked[h]
    <3>1. \A p \in Page : Pinning(p)' = Pinning(p) /\ Viewing(p)' = Viewing(p)
      BY <1>1, <1>8, <2>2 DEF Drop, Pinning, Viewing, FlagInv, FlagTypes
    <3> QED BY <1>1, <1>8, <2>2, <3>1, OtherCounts DEF Drop, CountInv, CountTypes
  <2> QED BY <2>1, <2>2
<1>9. CASE UNCHANGED mdlVars
  BY <1>1, <1>9, OtherCounts DEF mdlVars, Pinning, Viewing, CountInv, CountTypes
<1> QED
  BY <1>2, <1>3, <1>4, <1>5, <1>6, <1>7, <1>8, <1>9 DEF MdlNext

LEMMA CountsHold == ASSUME TypicalUse PROVE MdlSpec => []CountInv
<1>1. MdlInit => CountInv
  BY InitCounts
<1>2. CountInv /\ [MdlNext]_mdlVars => CountInv'
  BY MdlStepCounts
<1> QED BY <1>1, <1>2, PTL DEF MdlSpec

\* The flags and the kernel's lock counts never part, for callers that follow the
\* documented order, any number of wrappers and any pages: every lock is released once.
THEOREM FlagsMatchCounts == ASSUME TypicalUse PROVE MdlSpec => []PinsAccounted
<1>1. CountInv => PinsAccounted
  BY DEF CountInv, PinsAccounted, Pinning
<1> QED BY <1>1, CountsHold, PTL

LEMMA CountsPin == CountInv => MappedPagesArePinned
<1> SUFFICES ASSUME CountInv, NEW p \in Page, views[p] > 0 PROVE pins[p] > 0
  BY DEF MappedPagesArePinned
<1>1. Viewing(p) \subseteq Pinning(p)
  BY DEF CountInv, FlagInv, BorrowsHeld, Viewing, Pinning
<1>2. Viewing(p) # {}
  <2>1. views[p] = Cardinality(Viewing(p))
    BY DEF CountInv
  <2>2. Cardinality({}) = 0
    BY FS_EmptySet
  <2> QED BY <2>1, <2>2
<1>3. Cardinality(Pinning(p)) # 0
  BY <1>1, <1>2, CountsFinite, FS_EmptySet
<1> QED BY <1>3 DEF CountInv, CountTypes

\* Whatever wrappers share a page, it is locked while one of them maps it.
THEOREM MappingsArePinned == ASSUME TypicalUse PROVE MdlSpec => []MappedPagesArePinned
<1>1. CountInv => MappedPagesArePinned
  BY CountsPin
<1> QED BY <1>1, CountsHold, PTL

\* Type correctness: with the counts known, only the lock counts of the descriptors and
\* the ways to stop are left.
THEOREM WrapperTypes == ASSUME TypicalUse PROVE MdlSpec => []TypeOK
<1> DEFINE Rest == held \in [Handle -> 0..MaxLocks] /\ stopped \in {"no", "raised", "bugcheck"}
<1>1. CountInv /\ Rest => TypeOK
  BY DEF TypeOK, CountInv, CountTypes, FlagInv, FlagTypes
<1>2. MdlInit => Rest
  BY MdlAssumption DEF MdlInit
<1>3. Rest /\ [MdlNext]_mdlVars => Rest'
  <2> SUFFICES ASSUME Rest, [MdlNext]_mdlVars PROVE Rest'
    OBVIOUS
  <2>1. ASSUME NEW h \in Handle, MmUnlockPages(h) PROVE Rest'
    BY <2>1, MdlAssumption DEF MmUnlockPages
  <2>2. ASSUME NEW h \in Handle, NEW pages, New(h, pages) PROVE Rest'
    BY <2>2, MdlAssumption DEF New
  <2>3. ASSUME NEW h \in Handle, Lock(h) PROVE Rest'
    BY <2>3, MdlAssumption DEF Lock, LockUnchecked
  <2>4. ASSUME NEW h \in Handle, LockRaises(h) \/ MapLocked(h) \/ DropMap(h) PROVE Rest'
    BY <2>4 DEF LockRaises, kernelVars, MapLocked, DropMap
  <2>5. ASSUME NEW h \in Handle, Unlock(h) \/ Drop(h) PROVE Rest'
    BY <2>1, <2>5 DEF Unlock, Drop
  <2>6. CASE UNCHANGED mdlVars
    BY <2>6 DEF mdlVars
  <2> QED BY <2>2, <2>3, <2>4, <2>5, <2>6 DEF MdlNext
<1> HIDE DEF Rest
<1>4. MdlSpec => []Rest
  BY <1>2, <1>3, PTL DEF MdlSpec
<1> QED BY <1>1, <1>4, CountsHold, PTL


(***************************************************************************)
(* What a call owns and has done follows from where it is.                 *)
(***************************************************************************)
Locking == {"map", "protect", "copy", "unmap", "free"}
Mapping == {"protect", "copy", "unmap"}
Owning == {"lock"} \cup Locking

Owns(w) ==
  /\ live[w] <=> pc[w] \in Owning
  /\ locked[w] <=> pc[w] \in Locking
  /\ mapping[w] <=> pc[w] \in Mapping
  /\ pc[w] \in Owning => Valid(req[w]) /\ region[w] = PagesOf(req[w])

Copied(w) ==
  /\ left[w] \subseteq DOMAIN req[w].src
  /\ pc[w] \in {"check", "lock", "map", "protect"} => ~ok[w] /\ left[w] = DOMAIN req[w].src
  /\ pc[w] = "copy" => ~ok[w]
  /\ pc[w] = "unmap" => ok[w]
  /\ pc[w] \in {"unmap", "free", "returned"} =>
       IF ok[w] THEN Valid(req[w]) /\ left[w] = {} ELSE left[w] = DOMAIN req[w].src

CallTypes ==
  /\ mem = [a \in Addr |-> mem[a]]
  /\ pc \in [Writer -> Steps]
  /\ req \in [Writer -> Request]
  /\ left = [w \in Writer |-> left[w]]
  /\ ok \in [Writer -> BOOLEAN]
  /\ failed \in [Writer -> BOOLEAN]

WriteInv == CountInv /\ CallTypes /\ \A w \in Writer : Owns(w) /\ Copied(w)

LEMMA WriteInit == Init => WriteInv
<1> SUFFICES ASSUME Init PROVE WriteInv
  OBVIOUS
<1>1. CountInv
  BY InitCounts DEF Init
<1>2. CallTypes
  BY DEF Init, CallTypes, Steps
<1>3. \A w \in Writer : Owns(w) /\ Copied(w)
  BY WriteAssumption DEF Init, MdlInit, Owns, Copied, Owning, Locking, Mapping
<1> QED BY <1>1, <1>2, <1>3 DEF WriteInv

\* The pages of a call that is not rejected.
LEMMA PagesOfCall ==
  ASSUME NEW r \in Request, Valid(r)
  PROVE  /\ PagesOf(r) \in (SUBSET Page) \ {{}}
         /\ DOMAIN r.src = 1..Len(r.src)
         /\ \A i \in DOMAIN r.src : r.dst + i - 1 \in Addr /\ (r.dst + i - 1) \div PageSize \in PagesOf(r)
<1>1. /\ r.dst \in Nat /\ r.src \in Seq({r.src[i] : i \in DOMAIN r.src})
      /\ r.dst..(r.dst + Len(r.src) - 1) \subseteq Addr
  BY RequestAssumption
<1>2. Len(r.src) \in Nat /\ DOMAIN r.src = 1..Len(r.src) /\ Len(r.src) # 0
  BY <1>1 DEF Valid
<1>3. ASSUME NEW i \in DOMAIN r.src
      PROVE  r.dst + i - 1 \in r.dst..(r.dst + Len(r.src) - 1)
  BY <1>1, <1>2
<1>4. r.dst \in r.dst..(r.dst + Len(r.src) - 1)
  BY <1>1, <1>2
<1>5. PagesOf(r) \subseteq Page /\ PagesOf(r) # {}
  BY <1>1, <1>4, WriteAssumption DEF PagesOf
<1> QED BY <1>1, <1>2, <1>3, <1>5 DEF PagesOf

\* The function only uses the wrappers as callers of Mdl do.
LEMMA StepsUseMdl ==
  ASSUME WriteInv, [Next]_vars
  PROVE  [MdlNext]_mdlVars
<1>1. ASSUME NEW w \in Writer, MdlNew(w) PROVE MdlNext
  <2>1. PagesOf(req[w]) \in (SUBSET Page) \ {{}}
    BY <1>1, PagesOfCall DEF MdlNew, WriteInv, CallTypes
  <2> QED BY <1>1, <2>1, WriteAssumption DEF MdlNew, MdlNext
<1>2. ASSUME NEW w \in Writer,
             MdlLock(w) \/ MdlLockRaises(w) \/ MdlMapLocked(w) \/ DropMapping(w) \/ DropMdl(w)
      PROVE  MdlNext
  BY <1>2, WriteAssumption DEF MdlLock, MdlLockRaises, MdlMapLocked, DropMapping, DropMdl, MdlNext
<1>3. ASSUME NEW w \in Writer,
             \/ Call(w) \/ Return(w) \/ RejectArguments(w) \/ MdlNewFails(w) \/ MdlMapFails(w)
             \/ Protect(w) \/ CopyByte(w) \/ CopyDone(w)
      PROVE  UNCHANGED mdlVars
  BY <1>3 DEF Call, Return, RejectArguments, MdlNewFails, MdlMapFails, Protect, CopyByte, CopyDone
<1>4. CASE UNCHANGED vars
  BY <1>4 DEF vars
<1> QED BY <1>1, <1>2, <1>3, <1>4 DEF Next, Body

\* A step of w tells nothing new about the calls of other threads.
LEMMA OthersOwn ==
  ASSUME NEW w, NEW u \in Writer, Owns(u), Copied(u),
         pc'[u] = pc[u], req'[u] = req[u], left'[u] = left[u], ok'[u] = ok[u],
         live'[u] = live[u], locked'[u] = locked[u], mapping'[u] = mapping[u], region'[u] = region[u]
  PROVE  Owns(u)' /\ Copied(u)'
BY DEF Owns, Copied

Others(w) == \A u \in Writer : u # w =>
  /\ pc'[u] = pc[u] /\ req'[u] = req[u] /\ left'[u] = left[u] /\ ok'[u] = ok[u]
  /\ live'[u] = live[u] /\ locked'[u] = locked[u]
  /\ mapping'[u] = mapping[u] /\ region'[u] = region[u]

LEMMA OneCall ==
  ASSUME WriteInv, NEW w \in Writer, CountInv', CallTypes', Others(w), Owns(w)', Copied(w)'
  PROVE  WriteInv'
BY DEF WriteInv, Others, Owns, Copied

\* Steps that leave the wrappers alone.
LEMMA LocalSteps ==
  ASSUME WriteInv, CountInv', NEW w \in Writer,
         \/ Call(w) \/ Return(w) \/ RejectArguments(w) \/ MdlNewFails(w) \/ MdlMapFails(w)
         \/ Protect(w) \/ CopyByte(w) \/ CopyDone(w)
  PROVE  WriteInv'
<1> USE DEF WriteInv, CallTypes, Others, Owns, Copied, Owning, Locking, Mapping, Steps, At, Goto,
            mdlVars, codeVars, localVars
<1>1. CASE Call(w)
  <2>1. PICK r \in Request : /\ req' = [req EXCEPT ![w] = r]
                             /\ left' = [left EXCEPT ![w] = DOMAIN r.src]
    BY <1>1 DEF Call
  <2> QED BY <1>1, <2>1, OneCall DEF Call
<1>2. CASE Return(w)
  BY <1>2, OneCall DEF Return
<1>3. CASE RejectArguments(w)
  BY <1>3, OneCall DEF RejectArguments
<1>4. CASE MdlNewFails(w)
  BY <1>4, OneCall DEF MdlNewFails
<1>5. CASE MdlMapFails(w)
  BY <1>5, OneCall DEF MdlMapFails
<1>6. CASE Protect(w)
  BY <1>6, OneCall DEF Protect
<1>7. CASE CopyByte(w)
  <2>1. PICK i \in left[w] :
          /\ mem' = [mem EXCEPT ![req[w].dst + i - 1] = req[w].src[i]]
          /\ left' = [left EXCEPT ![w] = @ \ {i}]
    BY <1>7 DEF CopyByte
  <2> QED BY <1>7, <2>1, OneCall DEF CopyByte
<1>8. CASE CopyDone(w)
  BY <1>8, OneCall DEF CopyDone
<1> QED BY <1>1, <1>2, <1>3, <1>4, <1>5, <1>6, <1>7, <1>8

LEMMA WrapperSteps ==
  ASSUME WriteInv, CountInv', NEW w \in Writer,
         MdlNew(w) \/ MdlLock(w) \/ MdlLockRaises(w) \/ MdlMapLocked(w) \/ DropMapping(w) \/ DropMdl(w)
  PROVE  WriteInv'
<1> USE DEF WriteInv, CallTypes, Others, Owns, Copied, Owning, Locking, Mapping, Steps, At, Goto,
            codeVars, localVars, CountInv, FlagInv, FlagTypes, CountTypes
<1>1. w \in Handle
  BY WriteAssumption
<1>2. CASE MdlNew(w)
  BY <1>1, <1>2, OneCall DEF MdlNew, New
<1>3. CASE MdlLock(w)
  BY <1>1, <1>3, OneCall DEF MdlLock, Lock, LockUnchecked
<1>4. CASE MdlLockRaises(w)
  BY <1>1, <1>4, OneCall DEF MdlLockRaises, LockRaises, rustVars
<1>5. CASE MdlMapLocked(w)
  <2>1. held[w] > 0
    BY <1>1, <1>5 DEF MdlMapLocked, FlagExact
  <2>2. /\ mapping' = [mapping EXCEPT ![w] = TRUE] /\ pc[w] = "map"
        /\ pc' = [pc EXCEPT ![w] = "protect"]
        /\ UNCHANGED <<live, region, locked, held, pins, mem, left, req, ok, failed>>
    BY <1>5, <2>1 DEF MdlMapLocked, MapLocked
  <2> QED BY <1>1, <2>2, OneCall
<1>6. CASE DropMapping(w)
  BY <1>1, <1>6, OneCall DEF DropMapping, DropMap
<1>7. CASE DropMdl(w)
  BY <1>1, <1>7, OneCall DEF DropMdl, Drop
<1> QED BY <1>2, <1>3, <1>4, <1>5, <1>6, <1>7

LEMMA WriteStep ==
  ASSUME WriteInv, [Next]_vars
  PROVE  WriteInv'
<1>1. CountInv'
  BY StepsUseMdl, MdlStepCounts, WriteAssumption DEF WriteInv
<1>2. CASE UNCHANGED vars
  BY <1>1, <1>2 DEF vars, mdlVars, WriteInv, CallTypes, Owns, Copied
<1>3. CASE Next
  BY <1>1, <1>3, LocalSteps, WrapperSteps DEF Next, Body
<1> QED BY <1>2, <1>3

(***************************************************************************)
(* Theorems.                                                               *)
(***************************************************************************)
LEMMA Invariance == Spec => []WriteInv
BY WriteInit, WriteStep, PTL DEF Spec

\* Whatever holds of wrappers whose callers follow the documented order holds here.
LEMMA UsesMdl == Spec => MdlSpec
<1>1. Init => MdlInit
  BY DEF Init
<1> QED BY <1>1, Invariance, StepsUseMdl, PTL DEF Spec, MdlSpec

\* Type correctness of the calls and of the wrappers they own.
THEOREM WriteTypes == Spec => []RWTypeOK
<1>1. WriteInv /\ TypeOK => RWTypeOK
  BY DEF WriteInv, CallTypes, Copied, RWTypeOK
<1>2. MdlSpec => []TypeOK
  BY WrapperTypes, WriteAssumption
<1> QED BY <1>1, <1>2, Invariance, UsesMdl, PTL

\* On every path and beside any number of other calls over the same pages, a call gives
\* back the locks and the mappings it took before it returns (rw.rs:34).
THEOREM CallsGiveBack == Spec => []NothingOutlivesTheCall
<1>1. ASSUME WriteInv, NEW p \in Page
      PROVE  LET Running(steps) == {w \in Writer : pc[w] \in steps /\ p \in region[w]}
             IN  /\ pins[p] = Cardinality(Running({"map", "protect", "copy", "unmap"})
                               \cup {w \in Running({"free"}) : held[w] > 0})
                 /\ views[p] = Cardinality(Running({"protect", "copy", "unmap"}))
  <2> DEFINE Running(steps) == {w \in Writer : pc[w] \in steps /\ p \in region[w]}
             Holding == Running({"map", "protect", "copy", "unmap"})
                          \cup {w \in Running({"free"}) : held[w] > 0}
  <2>1. Handle = Writer
    BY WriteAssumption
  <2>2. \A w \in Writer : pc[w] = "free" => held[w] > 0
    BY <1>1, <2>1 DEF WriteInv, Owns, Owning, Locking, CountInv, FlagInv, FlagExact
  <2>3. \A w \in Writer : w \in Pinning(p) <=> pc[w] \in Locking /\ p \in region[w]
    BY <1>1, <2>1 DEF WriteInv, Owns, Owning, Pinning
  <2>4. Pinning(p) = Holding
    BY <2>1, <2>2, <2>3 DEF Locking, Pinning
  <2>5. Viewing(p) = Running({"protect", "copy", "unmap"})
    BY <1>1, <2>1 DEF WriteInv, Owns, Mapping, Viewing
  <2> HIDE DEF Running, Holding
  <2>6. pins[p] = Cardinality(Holding) /\ views[p] = Cardinality(Running({"protect", "copy", "unmap"}))
    BY <1>1, <2>4, <2>5 DEF WriteInv, CountInv
  <2> QED BY <2>6 DEF Running, Holding
<1>2. WriteInv => NothingOutlivesTheCall
  BY <1>1 DEF NothingOutlivesTheCall
<1> QED BY <1>2, Invariance, PTL

\* What changes memory is a copy through a view of a locked page.
LEMMA StoresAreCopies ==
  ASSUME WriteInv, Next, mem' # mem
  PROVE  \E w \in Writer : \E i \in left[w] :
           /\ pc[w] = "copy"
           /\ mem' = [mem EXCEPT ![req[w].dst + i - 1] = req[w].src[i]]
BY DEF Next, Body, Call, Return, RejectArguments, MdlNew, MdlNewFails, MdlLock, MdlLockRaises,
   MdlMapLocked, MdlMapFails, Protect, CopyByte, CopyDone, DropMapping, DropMdl, codeVars, At

\* Whatever the other threads lock, map and give back meanwhile, every byte is stored in a
\* page that is locked and mapped then.
THEOREM StoresAreSafe == Spec => StoresThroughLockedView
<1>1. ASSUME WriteInv, Next, NEW a \in Addr, mem'[a] # mem[a]
      PROVE  pins[a \div PageSize] > 0 /\ views[a \div PageSize] > 0
  <2>1. PICK w \in Writer : \E i \in left[w] :
          /\ pc[w] = "copy"
          /\ mem' = [mem EXCEPT ![req[w].dst + i - 1] = req[w].src[i]]
    BY <1>1, StoresAreCopies
  <2> PICK i \in left[w] :
          /\ pc[w] = "copy"
          /\ mem' = [mem EXCEPT ![req[w].dst + i - 1] = req[w].src[i]]
    BY <2>1
  <2>2. a = req[w].dst + i - 1
    BY <1>1 DEF WriteInv, CallTypes
  <2>3. /\ Valid(req[w]) /\ region[w] = PagesOf(req[w]) /\ mapping[w]
        /\ req[w] \in Request /\ i \in DOMAIN req[w].src
    BY <1>1 DEF WriteInv, CallTypes, Owns, Copied, Owning, Locking, Mapping
  <2> DEFINE p == a \div PageSize
  <2>4. p \in region[w] /\ p \in Page
    BY <2>2, <2>3, PagesOfCall
  <2> HIDE DEF p
  <2>5. w \in Viewing(p)
    BY <2>3, <2>4, WriteAssumption DEF Viewing
  <2>6. Cardinality(Viewing(p)) # 0 /\ Cardinality(Viewing(p)) \in Nat
    BY <2>4, <2>5, CountsFinite, FS_EmptySet, FS_CardinalityType
  <2>7. views[p] > 0
    BY <1>1, <2>4, <2>6 DEF WriteInv, CountInv
  <2>8. pins[p] > 0
    BY <1>1, <2>4, <2>7, CountsPin DEF WriteInv, MappedPagesArePinned
  <2> QED BY <2>7, <2>8 DEF p
<1> DEFINE Safe == \A a \in Addr : mem'[a] # mem[a] =>
                     LET p == a \div PageSize IN pins[p] > 0 /\ views[p] > 0
<1>2. WriteInv /\ [Next]_vars => [Safe]_vars
  BY <1>1
<1> HIDE DEF Safe
<1>3. Spec => [][Safe]_vars
  BY <1>2, Invariance, PTL DEF Spec
<1> QED BY <1>3 DEF Safe, StoresThroughLockedView

(***************************************************************************)
(* The refinement: a step of the call of w changes its record in CallView, *)
(* as an action of the contract does, or leaves it as it is.               *)
(***************************************************************************)
View(w) ==
  IF pc[w] = "idle"
  THEN [st |-> "idle", dst |-> 0, src |-> <<>>, left |-> {}, ok |-> FALSE]
  ELSE [st |-> IF pc[w] = "returned" THEN "done" ELSE "writing",
        dst |-> req[w].dst, src |-> req[w].src, left |-> left[w],
        ok |-> pc[w] = "returned" /\ ok[w]]

OtherCalls(w) == \A u \in Writer : u # w =>
  pc'[u] = pc[u] /\ req'[u] = req[u] /\ left'[u] = left[u] /\ ok'[u] = ok[u]

LEMMA ViewOf == /\ CallView = [w \in Writer |-> View(w)]
                /\ CallView' = [w \in Writer |-> View(w)']
BY DEF CallView, View

LEMMA OneView ==
  ASSUME NEW w \in Writer, OtherCalls(w)
  PROVE  CallView' = [CallView EXCEPT ![w] = View(w)']
<1>1. \A u \in Writer : u # w => View(u)' = View(u)
  BY DEF View, OtherCalls
<1> QED BY <1>1, ViewOf

\* A call that is under way, as a record.
ViewSet(w) ==
  [st : {"writing"}, dst : {req[w].dst}, src : {req[w].src}, left : SUBSET left[w], ok : BOOLEAN]

\* A step moves one call on.
LEMMA StepOthers ==
  ASSUME WriteInv, NEW w \in Writer, Call(w) \/ Body(w) \/ Return(w)
  PROVE  OtherCalls(w)
BY DEF WriteInv, CallTypes, Call, Body, Return, RejectArguments, MdlNew, MdlNewFails, MdlLock,
   MdlLockRaises, MdlMapLocked, MdlMapFails, Protect, CopyByte, CopyDone, DropMapping, DropMdl,
   Goto, codeVars, localVars, OtherCalls

LEMMA Stutters ==
  ASSUME WriteInv, NEW w \in Writer,
         \/ MdlNew(w) \/ MdlLock(w) \/ MdlLockRaises(w) \/ MdlMapLocked(w) \/ MdlMapFails(w)
         \/ Protect(w) \/ CopyDone(w) \/ DropMapping(w)
  PROVE  UNCHANGED <<mem, CallView>>
<1>1. /\ UNCHANGED <<mem, req, left>>
      /\ pc[w] \notin {"idle", "returned"} /\ pc'[w] \notin {"idle", "returned"}
  BY DEF MdlNew, MdlLock, MdlLockRaises, MdlMapLocked, MdlMapFails, Protect, CopyDone, DropMapping,
     At, Goto, codeVars, localVars, WriteInv, CallTypes
<1>2. View(w)' = View(w)
  BY <1>1 DEF View
<1>3. OtherCalls(w)
  BY StepOthers DEF Body
<1>4. CallView' = CallView
  BY <1>2, <1>3, OneView, ViewOf
<1> QED BY <1>1, <1>4

LEMMA CallBegins ==
  ASSUME WriteInv, NEW w \in Writer, Call(w)
  PROVE  \E r \in Request : Contract!Begin(w, r.dst, r.src)
<1>1. PICK r \in Request : /\ req' = [req EXCEPT ![w] = r]
                           /\ left' = [left EXCEPT ![w] = DOMAIN r.src]
  BY DEF Call
<1>2. pc[w] = "idle" /\ pc'[w] = "check" /\ req'[w] = r /\ left'[w] = DOMAIN r.src /\ mem' = mem
  BY <1>1 DEF Call, At, Goto, WriteInv, CallTypes
<1>3. View(w)' = [st |-> "writing", dst |-> r.dst, src |-> r.src, left |-> DOMAIN r.src, ok |-> FALSE]
  BY <1>2 DEF View
<1>4. CallView' = [CallView EXCEPT ![w] = View(w)']
  BY StepOthers, OneView
<1>5. CallView[w].st = "idle"
  BY <1>2, ViewOf DEF View
<1> QED BY <1>2, <1>3, <1>4, <1>5 DEF Contract!Begin

LEMMA CallRefused ==
  ASSUME WriteInv, NEW w \in Writer,
         RejectArguments(w) \/ MdlNewFails(w) \/ (DropMdl(w) /\ ~ok[w])
  PROVE  Contract!Refuse(w)
<1>1. /\ UNCHANGED <<mem, req, left, ok>> /\ pc[w] \in {"check", "free"} /\ pc'[w] = "returned"
      /\ ~ok[w] /\ left[w] = DOMAIN req[w].src
  BY DEF RejectArguments, MdlNewFails, DropMdl, At, Goto, codeVars, localVars, WriteInv, CallTypes, Copied
<1>2. /\ View(w) = [st |-> "writing", dst |-> req[w].dst, src |-> req[w].src, left |-> left[w], ok |-> FALSE]
      /\ View(w)' = [st |-> "done", dst |-> req[w].dst, src |-> req[w].src, left |-> left[w], ok |-> FALSE]
  BY <1>1 DEF View
<1>3. CallView' = [CallView EXCEPT ![w] = View(w)'] /\ CallView[w] = View(w)
  BY StepOthers, OneView, ViewOf DEF Body
<1>4. View(w)' = [View(w) EXCEPT !.st = "done"]
  <2>1. View(w) \in ViewSet(w)
    BY <1>2 DEF ViewSet
  <2>2. View(w)' = [st |-> "done", dst |-> View(w).dst, src |-> View(w).src,
                    left |-> View(w).left, ok |-> View(w).ok]
    BY <1>2
  <2> QED BY <2>1, <2>2 DEF ViewSet
<1>5. CallView' = [CallView EXCEPT ![w].st = "done"]
  BY <1>3, <1>4
<1>6. View(w).st = "writing" /\ View(w).left = DOMAIN View(w).src
  BY <1>1, <1>2
<1> QED BY <1>1, <1>3, <1>5, <1>6 DEF Contract!Refuse

LEMMA CallCompletes ==
  ASSUME WriteInv, NEW w \in Writer, DropMdl(w), ok[w]
  PROVE  Contract!Complete(w)
<1>1. /\ UNCHANGED <<mem, req, left, ok>> /\ pc[w] = "free" /\ pc'[w] = "returned"
      /\ Valid(req[w]) /\ left[w] = {} /\ ok[w] = TRUE
  BY DEF DropMdl, At, Goto, codeVars, localVars, WriteInv, CallTypes, Copied
<1>2. /\ View(w) = [st |-> "writing", dst |-> req[w].dst, src |-> req[w].src, left |-> {}, ok |-> FALSE]
      /\ View(w)' = [st |-> "done", dst |-> req[w].dst, src |-> req[w].src, left |-> {}, ok |-> TRUE]
  BY <1>1 DEF View
<1>3. CallView' = [CallView EXCEPT ![w] = View(w)'] /\ CallView[w] = View(w)
  BY StepOthers, OneView, ViewOf DEF Body
<1>4. View(w)' = [View(w) EXCEPT !.st = "done", !.ok = TRUE]
  <2>1. View(w) \in ViewSet(w)
    BY <1>2 DEF ViewSet
  <2>2. View(w)' = [st |-> "done", dst |-> View(w).dst, src |-> View(w).src,
                    left |-> View(w).left, ok |-> TRUE]
    BY <1>2
  <2> DEFINE d == [View(w) EXCEPT !.st = "done"]
             answer == TRUE
  <2>3. d = [st |-> "done", dst |-> View(w).dst, src |-> View(w).src,
             left |-> View(w).left, ok |-> View(w).ok]
    BY <2>1 DEF ViewSet
  <2>4. d \in [st : {"done"}, dst : {req[w].dst}, src : {req[w].src}, left : SUBSET left[w], ok : BOOLEAN]
    BY <2>1, <2>3 DEF ViewSet
  <2>5. View(w)' = [st |-> d.st, dst |-> d.dst, src |-> d.src, left |-> d.left, ok |-> answer]
    BY <2>2, <2>3
  <2> HIDE DEF d, answer
  <2>6. View(w)' = [d EXCEPT !.ok = answer]
    BY <2>4, <2>5
  <2> QED BY <2>6 DEF d, answer
<1>5. CallView' = [CallView EXCEPT ![w].st = "done", ![w].ok = TRUE]
  BY <1>3, <1>4, ViewOf
<1>6. /\ View(w).st = "writing" /\ View(w).left = {}
      /\ View(w).src # <<>> /\ View(w).dst # Contract!NullAddr
  BY <1>1, <1>2 DEF Contract!NullAddr, Valid
<1> QED BY <1>1, <1>3, <1>5, <1>6 DEF Contract!Complete

LEMMA CallCopies ==
  ASSUME WriteInv, NEW w \in Writer, CopyByte(w)
  PROVE  Contract!CopyByte(w)
<1>1. PICK i \in left[w] :
        /\ mem' = [mem EXCEPT ![req[w].dst + i - 1] = req[w].src[i]]
        /\ left' = [left EXCEPT ![w] = @ \ {i}]
  BY DEF CopyByte
<1>2. /\ UNCHANGED <<req, pc>> /\ pc[w] = "copy" /\ Valid(req[w]) /\ left'[w] = left[w] \ {i}
  BY <1>1 DEF CopyByte, At, localVars, WriteInv, CallTypes, Owns, Owning, Locking
<1>3. /\ View(w) = [st |-> "writing", dst |-> req[w].dst, src |-> req[w].src, left |-> left[w], ok |-> FALSE]
      /\ View(w)' = [st |-> "writing", dst |-> req[w].dst, src |-> req[w].src,
                     left |-> left[w] \ {i}, ok |-> FALSE]
  BY <1>2 DEF View
<1>4. CallView' = [CallView EXCEPT ![w] = View(w)'] /\ CallView[w] = View(w)
  BY StepOthers, OneView, ViewOf DEF Body
<1>5. View(w)' = [View(w) EXCEPT !.left = @ \ {i}]
  <2>1. View(w) \in ViewSet(w)
    BY <1>3 DEF ViewSet
  <2>2. View(w)' = [st |-> View(w).st, dst |-> View(w).dst, src |-> View(w).src,
                    left |-> View(w).left \ {i}, ok |-> View(w).ok]
    BY <1>3
  <2> QED BY <2>1, <2>2 DEF ViewSet
<1>6. CallView' = [CallView EXCEPT ![w].left = @ \ {i}]
  BY <1>4, <1>5
<1>7. /\ View(w).st = "writing" /\ i \in View(w).left /\ View(w).dst # Contract!NullAddr
      /\ mem' = [mem EXCEPT ![View(w).dst + i - 1] = View(w).src[i]]
  BY <1>1, <1>2, <1>3 DEF Contract!NullAddr, Valid
<1> QED BY <1>4, <1>6, <1>7 DEF Contract!CopyByte

LEMMA CallReturned ==
  ASSUME WriteInv, NEW w \in Writer, Return(w)
  PROVE  Contract!Return(w)
<1>1. UNCHANGED mem /\ pc[w] = "returned" /\ pc'[w] = "idle"
  BY DEF Return, At, Goto, codeVars, WriteInv, CallTypes
<1>2. View(w)' = Contract!NoCall /\ View(w).st = "done"
  BY <1>1 DEF View, Contract!NoCall
<1>3. CallView' = [CallView EXCEPT ![w] = View(w)'] /\ CallView[w] = View(w)
  BY StepOthers, OneView, ViewOf
<1> QED BY <1>1, <1>2, <1>3 DEF Contract!Return

\* The function implements its contract for any number of threads, whatever kernel routine
\* fails: FALSE means untouched, TRUE means every byte written, nothing else is stored.
THEOREM ContractIsImplemented == Spec => ImplementsCodeWrite
<1>1. Init => Contract!CallIdle
  <2>1. Init => \A w \in Writer : View(w) = Contract!NoCall
    BY DEF Init, View, Contract!NoCall
  <2> QED BY <2>1, ViewOf DEF Contract!CallIdle
<1>2. ASSUME WriteInv, NEW w \in Writer, Call(w) \/ Body(w) \/ Return(w)
      PROVE  Contract!CodeWriteNext \/ UNCHANGED <<mem, CallView>>
  BY <1>2, CallBegins, CallRefused, CallCompletes, CallCopies, CallReturned, Stutters
     DEF Body, Contract!CodeWriteNext
<1>3. UNCHANGED vars => UNCHANGED <<mem, CallView>>
  BY DEF vars, CallView
<1>4. WriteInv /\ [Next]_vars => [Contract!CodeWriteNext]_(Contract!writeVars)
  BY <1>2, <1>3 DEF Next, Contract!writeVars
<1> QED BY <1>1, <1>4, Invariance, PTL DEF Spec, ImplementsCodeWrite, Contract!CodeWriteSpec
=============================================================================
