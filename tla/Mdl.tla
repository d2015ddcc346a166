--------------------------------- MODULE Mdl ---------------------------------
(***************************************************************************)
(* The RAII wrappers of memory/mdl.rs: an `Mdl` owns one Windows memory    *)
(* descriptor list, an `MdlMap` borrows it for as long as a system mapping *)
(* of its pages exists.  The Rust side (what the wrappers believe) and the *)
(* kernel side (what the memory manager has counted) are separate          *)
(* variables, and the invariants relate the two.                           *)
(***************************************************************************)
EXTENDS Naturals, FiniteSets

CONSTANTS Handle,      \* the places that can own an Mdl (a local variable each)
          Page,        \* physical pages
          TypicalUse,  \* TRUE: callers follow steps 1-5 of mdl.rs:20-27;
                       \* FALSE: any call sequence safe Rust accepts
          MaxLocks     \* bound on repeated locks through one Mdl

ASSUME MdlAssumption == /\ TypicalUse \in BOOLEAN
                        /\ MaxLocks \in Nat \ {0}
                        /\ IsFiniteSet(Handle)

VARIABLES
  live,      \* live[h]: h owns an Mdl value (it is not dropped yet)
  region,    \* region[h]: the pages the Mdl describes
  locked,    \* the field Mdl.locked
  mapping,   \* mapping[h]: an MdlMap borrowing the Mdl of h is alive
  held,      \* kernel: page locks taken through the descriptor of h
  pins,      \* kernel: lock count of every page
  views,     \* kernel: system mappings of every page
  stopped    \* "no"; "raised": MmProbeAndLockPages raised an exception that
             \* nothing catches; "bugcheck": a memory manager rule was broken

rustVars   == <<live, region, locked, mapping>>
kernelVars == <<held, pins, views>>
mdlVars    == <<live, region, locked, mapping, held, pins, views, stopped>>

TypeOK ==
  /\ live \in [Handle -> BOOLEAN]
  /\ region \in [Handle -> SUBSET Page]
  /\ locked \in [Handle -> BOOLEAN]
  /\ mapping \in [Handle -> BOOLEAN]
  /\ held \in [Handle -> 0..MaxLocks]
  /\ pins \in [Page -> Nat]
  /\ views \in [Page -> Nat]
  /\ stopped \in {"no", "raised", "bugcheck"}

MdlInit ==
  /\ live = [h \in Handle |-> FALSE]
  /\ region = [h \in Handle |-> {}]
  /\ locked = [h \in Handle |-> FALSE]
  /\ mapping = [h \in Handle |-> FALSE]
  /\ held = [h \in Handle |-> 0]
  /\ pins = [p \in Page |-> 0]
  /\ views = [p \in Page |-> 0]
  /\ stopped = "no"

(***************************************************************************)
(* The memory manager, as the crate uses it.                               *)
(***************************************************************************)
Raise(count, pages) == [p \in Page |-> count[p] + IF p \in pages THEN 1 ELSE 0]
Lower(count, pages) == [p \in Page |-> count[p] - IF p \in pages THEN 1 ELSE 0]

\* MmUnlockPages: one lock of every page of the descriptor is undone.  Undoing
\* a lock that is not held is a bug check.
MmUnlockPages(h) ==
  IF held[h] > 0
  THEN /\ held' = [held EXCEPT ![h] = @ - 1]
       /\ pins' = Lower(pins, region[h])
       /\ stopped' = stopped
  ELSE /\ stopped' = "bugcheck"
       /\ UNCHANGED <<held, pins>>

\* The caller owns the Mdl and no MdlMap borrows it: `&mut self` is available.
Exclusive(h) == stopped = "no" /\ live[h] /\ ~mapping[h]

(***************************************************************************)
(* Mdl::new, lock, unlock, map_locked, and the two destructors.            *)
(***************************************************************************)
New(h, pages) ==
  /\ stopped = "no"
  /\ ~live[h]
  /\ live' = [live EXCEPT ![h] = TRUE]
  /\ region' = [region EXCEPT ![h] = pages]
  /\ locked' = [locked EXCEPT ![h] = FALSE]
  /\ held' = [held EXCEPT ![h] = 0]
  /\ UNCHANGED <<mapping, pins, views, stopped>>

LockUnchecked(h) ==
  /\ Exclusive(h)
  /\ held[h] < MaxLocks
  /\ locked' = [locked EXCEPT ![h] = TRUE]
  /\ held' = [held EXCEPT ![h] = @ + 1]
  /\ pins' = Raise(pins, region[h])
  /\ UNCHANGED <<live, region, mapping, views, stopped>>

\* The code takes another lock whatever `locked` says; only a caller that
\* follows the documented order keeps the second one from happening.
Lock(h) == (TypicalUse => ~locked[h]) /\ LockUnchecked(h)

\* MmProbeAndLockPages raises: no Rust frame handles it.
LockRaises(h) ==
  /\ Exclusive(h)
  /\ TypicalUse => ~locked[h]
  /\ stopped' = "raised"
  /\ UNCHANGED <<rustVars, kernelVars>>

\* mutant: the flag survives an explicit unlock
Unlock_KeepsFlag(h) ==
  /\ Exclusive(h)
  /\ TypicalUse => locked[h]
  /\ MmUnlockPages(h)
  /\ UNCHANGED <<live, region, locked, mapping, views>>

\* mutant: unlock takes &self, so that it can be called while a mapping borrows the Mdl
Unlock_Shared(h) ==
  /\ stopped = "no" /\ live[h]
  /\ TypicalUse => locked[h]
  /\ MmUnlockPages(h)
  /\ locked' = [locked EXCEPT ![h] = FALSE]
  /\ UNCHANGED <<live, region, mapping, views>>

Unlock(h) ==
  /\ Exclusive(h)
  /\ TypicalUse => locked[h]
  /\ MmUnlockPages(h)
  /\ locked' = [locked EXCEPT ![h] = FALSE]
  /\ UNCHANGED <<live, region, mapping, views>>

\* A null mapping leaves everything as it was, so only success is an action.
\* Mapping pages that are not locked is a bug check.
MapLocked(h) ==
  /\ Exclusive(h)
  /\ TypicalUse => locked[h]
  /\ IF held[h] > 0
     THEN /\ mapping' = [mapping EXCEPT ![h] = TRUE]
          /\ views' = Raise(views, region[h])
          /\ stopped' = stopped
     ELSE /\ stopped' = "bugcheck"
          /\ UNCHANGED <<mapping, views>>
  /\ UNCHANGED <<live, region, locked, held, pins>>

\* mutant: the mapping can be dropped again
DropMap_Again(h) ==
  /\ stopped = "no"
  /\ mapping[h]
  /\ views' = Lower(views, region[h])
  /\ stopped' = IF held[h] > 0 THEN stopped ELSE "bugcheck"
  /\ UNCHANGED <<live, region, locked, mapping, held, pins>>

\* Drop for MdlMap: the borrow ends, MmUnmapLockedPages needs pages still locked.
DropMap(h) ==
  /\ stopped = "no"
  /\ mapping[h]
  /\ mapping' = [mapping EXCEPT ![h] = FALSE]
  /\ views' = Lower(views, region[h])
  /\ stopped' = IF held[h] > 0 THEN stopped ELSE "bugcheck"
  /\ UNCHANGED <<live, region, locked, held, pins>>

\* mutant: the destructor forgets to unlock
Drop_NoUnlock(h) ==
  /\ Exclusive(h)
  /\ live' = [live EXCEPT ![h] = FALSE]
  /\ locked' = [locked EXCEPT ![h] = FALSE]
  /\ UNCHANGED <<region, mapping, held, pins, views, stopped>>

\* Drop for Mdl: unlock when the flag says so, then IoFreeMdl.
Drop(h) ==
  /\ Exclusive(h)
  /\ IF locked[h] THEN MmUnlockPages(h)
                  ELSE UNCHANGED <<held, pins, stopped>>
  /\ live' = [live EXCEPT ![h] = FALSE]
  /\ locked' = [locked EXCEPT ![h] = FALSE]
  /\ UNCHANGED <<region, mapping, views>>

MdlNext == \E h \in Handle :
  \/ \E pages \in (SUBSET Page) \ {{}} : New(h, pages)
  \/ Lock(h)
  \/ LockRaises(h)
  \/ Unlock(h)
  \/ MapLocked(h)
  \/ DropMap(h)
  \/ Drop(h)

MdlSpec == MdlInit /\ [][MdlNext]_mdlVars

(***************************************************************************)
(* Properties.                                                             *)
(***************************************************************************)

\* The lock count the kernel keeps for a page is the number of live Mdl values
\* over it whose flag says "locked": mdl.rs derives every MmUnlockPages from that
\* flag, so a difference is a lock nobody will release or one released twice.
PinsAccounted == \A p \in Page :
  pins[p] = Cardinality({h \in Handle : live[h] /\ locked[h] /\ p \in region[h]})

\* A page that is mapped into system space is locked, also when several Mdl values
\* share it and are unlocked and dropped in any order.
MappedPagesArePinned == \A p \in Page : views[p] > 0 => pins[p] > 0

\* No sequence of wrapper calls breaks a memory manager rule (unlocking or mapping
\* what is not locked, unmapping after the unlock).
NoBugcheck == stopped # "bugcheck"

\* "These wrappers automatically release every acquired resource" (mdl.rs:10):
\* once every Mdl is dropped no page is left locked or mapped.
EverythingReleased ==
  (\A h \in Handle : ~live[h]) => \A p \in Page : pins[p] = 0 /\ views[p] = 0
=============================================================================
