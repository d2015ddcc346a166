------------------------ MODULE KernelAllocator_proof ------------------------
(***************************************************************************)
(* Proofs about KernelAllocator, for any number of threads, any set of     *)
(* layouts, any address space and any placement ExAllocatePool chooses.    *)
(***************************************************************************)
EXTENDS KernelAllocator, TLAPS

(***************************************************************************)
(* The inductive invariant.  HeadersIntact alone is not inductive: a store *)
(* spares a header only because blocks lie inside allocations, allocations *)
(* are disjoint, and no allocation has two owners.                         *)
(***************************************************************************)
PoolInMemory == \A b \in Base : \A a \in Extent(b) : a \in Addr

PoolDisjoint == \A b, c \in Base :
  b # c /\ pool[b] > 0 /\ pool[c] > 0 => b + pool[b] <= c \/ c + pool[c] <= b

BlocksLive == \A k \in blocks : pool[k.home] > 0

InFlight == \A t \in Thread :
  /\ pc[t] # "idle" => base[t] \in Base /\ pool[base[t]] > 0
  /\ pc[t] = "header" => pool[base[t]] = layout[t].size + Ext(layout[t])

OneOwner ==
  /\ \A j, k \in blocks : j.home = k.home => j = k
  /\ \A k \in blocks, t \in Thread : pc[t] # "idle" => base[t] # k.home
  /\ \A t, u \in Thread : t # u /\ pc[t] # "idle" /\ pc[u] # "idle" => base[t] # base[u]

Inv == /\ TypeOK
       /\ PoolInMemory /\ PoolDisjoint
       /\ BlocksLive /\ BlocksInsideAllocation /\ HeadersIntact
       /\ InFlight /\ OneOwner
       /\ FreesAreValid /\ NothingLeaks

-----------------------------------------------------------------------------

\* The address read from the header of a block is the one alloc wrote there.
LEMMA StoredIsHome ==
  ASSUME Inv, NEW k \in blocks
  PROVE  Stored(k.ptr) = k.home
<1> USE AllocatorAssumption
<1>1. /\ k.ptr \in Nat /\ k.home \in Base /\ k.home \in Nat
      /\ pool[k.home] \in Nat
      /\ k.size \in Nat \ {0}
  BY DEF Inv, TypeOK
<1>2. /\ k.home <= k.ptr - PtrSize
      /\ k.ptr + k.size <= k.home + pool[k.home]
  BY DEF Inv, BlocksInsideAllocation
<1>3. \A a \in Header(k.ptr) : a \in Extent(k.home)
  BY <1>1, <1>2 DEF Header, Extent
<1>4. \A a \in Header(k.ptr) : mem[a] = k.home
  BY <1>1, <1>3 DEF Inv, PoolInMemory, HeadersIntact
<1>5. k.ptr - 1 \in Header(k.ptr)
  BY <1>1 DEF Header
<1>6. \A b \in Base : (\A a \in Header(k.ptr) : mem[a] = b) => b = k.home
  BY <1>4, <1>5
<1> QED
  BY <1>1, <1>4, <1>6 DEF Stored

\* Header and bytes of a block are addresses of the allocation it was carved from.
LEMMA BlockInExtent ==
  ASSUME Inv, NEW k \in blocks
  PROVE  /\ Header(k.ptr) \subseteq Extent(k.home)
         /\ Bytes(k) \subseteq Extent(k.home)
         /\ Header(k.ptr) \cap Bytes(k) = {}
<1> USE AllocatorAssumption
<1>1. /\ k.ptr \in Nat /\ k.home \in Base /\ k.home \in Nat
      /\ pool[k.home] \in Nat
      /\ k.size \in Nat \ {0}
  BY DEF Inv, TypeOK
<1>2. /\ k.home <= k.ptr - PtrSize
      /\ k.ptr + k.size <= k.home + pool[k.home]
  BY DEF Inv, BlocksInsideAllocation
<1> QED
  BY <1>1, <1>2 DEF Header, Bytes, Extent

\* Two live allocations share no byte.
LEMMA ExtentsDisjoint ==
  ASSUME Inv, NEW b \in Base, NEW c \in Base, b # c
  PROVE  Extent(b) \cap Extent(c) = {}
<1>1. b \in Nat /\ c \in Nat /\ pool[b] \in Nat /\ pool[c] \in Nat
  BY AllocatorAssumption DEF Inv, TypeOK
<1>2. CASE pool[b] > 0 /\ pool[c] > 0
  <2>1. b + pool[b] <= c \/ c + pool[c] <= b
    BY <1>2 DEF Inv, PoolDisjoint
  <2> QED BY <1>1, <2>1 DEF Extent
<1>3. CASE ~(pool[b] > 0 /\ pool[c] > 0)
  BY <1>1, <1>3 DEF Extent
<1> QED BY <1>2, <1>3

\* Nothing but the header of k itself and the bytes outside its allocation can be
\* stored to by anyone but alloc: a changed byte outside every header keeps them all.
LEMMA StoreOutsideHeaders ==
  ASSUME Inv, NEW k \in blocks, NEW b \in Base, b # k.home
  PROVE  Header(k.ptr) \cap Extent(b) = {}
<1>1. k.home \in Base
  BY DEF Inv, TypeOK
<1> QED BY <1>1, BlockInExtent, ExtentsDisjoint

-----------------------------------------------------------------------------

LEMMA InitInv == Init => Inv
<1> SUFFICES ASSUME Init PROVE Inv
  OBVIOUS
<1> USE AllocatorAssumption DEF Init
<1>1. TypeOK
  BY DEF TypeOK, Cell
<1>2. PoolInMemory
  BY DEF PoolInMemory, Extent
<1> QED
  BY <1>1, <1>2 DEF Inv, PoolDisjoint, BlocksLive, BlocksInsideAllocation,
       HeadersIntact, InFlight, OneOwner, FreesAreValid, NothingLeaks

LEMMA AllocPoolInv ==
  ASSUME Inv, NEW t \in Thread, AllocPool(t)
  PROVE  Inv'
<1> USE AllocatorAssumption
<1>1. PICK l \in Layout, b \in Base :
        /\ Unused(b, l.size + Ext(l))
        /\ pool' = [pool EXCEPT ![b] = l.size + Ext(l)]
        /\ layout' = [layout EXCEPT ![t] = l]
        /\ base' = [base EXCEPT ![t] = b]
  BY DEF AllocPool
<1> DEFINE n == l.size + Ext(l)
<1>2. /\ pc[t] = "idle" /\ pc' = [pc EXCEPT ![t] = "header"]
      /\ UNCHANGED <<mem, blocks, corrupted>>
  BY DEF AllocPool
<1>3. n \in Nat /\ n > 0 /\ b \in Nat /\ b > 0
  BY DEF Ext
<1>4. TypeOK
  BY DEF Inv
<1>5. pool[b] = 0
  BY <1>1, <1>3, <1>4 DEF Unused, TypeOK
<1>6. \A c \in Base : pool'[c] = IF c = b THEN n ELSE pool[c]
  BY <1>1, <1>4 DEF TypeOK
<1>7. \A u \in Thread : /\ pc'[u] = IF u = t THEN "header" ELSE pc[u]
                        /\ base'[u] = IF u = t THEN b ELSE base[u]
                        /\ layout'[u] = IF u = t THEN l ELSE layout[u]
  BY <1>1, <1>2, <1>4 DEF TypeOK
<1> HIDE DEF n
<1>8. TypeOK'
  BY <1>1, <1>2, <1>3, <1>4 DEF TypeOK, Cell, n
<1>9. PoolInMemory'
  <2>1. \A a \in b..(b + n - 1) : a \in Addr
    BY <1>1 DEF Unused, n
  <2> QED BY <1>6, <2>1 DEF Inv, PoolInMemory, Extent
<1>10. PoolDisjoint'
  <2>1. \A c \in Base : pool[c] > 0 => c + pool[c] <= b \/ b + n <= c
    BY <1>1 DEF Unused, n
  <2> QED BY <1>6, <2>1 DEF Inv, PoolDisjoint
<1>11. \A k \in blocks : k.home \in Base /\ k.home # b
  BY <1>4, <1>5 DEF Inv, TypeOK, BlocksLive
<1>12. BlocksLive' /\ BlocksInsideAllocation' /\ HeadersIntact'
  BY <1>2, <1>6, <1>11
     DEF Inv, BlocksLive, BlocksInsideAllocation, HeadersIntact
<1>13. \A u \in Thread : u # t /\ pc[u] # "idle" => base[u] \in Base /\ base[u] # b
  BY <1>5 DEF Inv, InFlight
<1>14. InFlight'
  <2> SUFFICES ASSUME NEW u \in Thread
               PROVE  /\ pc'[u] # "idle" => base'[u] \in Base /\ pool'[base'[u]] > 0
                      /\ pc'[u] = "header" => pool'[base'[u]] = layout'[u].size + Ext(layout'[u])
    BY DEF InFlight, Ext
  <2>1. CASE u = t
    <3>1. base'[u] = b /\ layout'[u] = l /\ pool'[b] = n
      BY <2>1, <1>6, <1>7
    <3> QED BY <3>1, <1>3 DEF n
  <2>2. CASE u # t
    <3>1. pc'[u] = pc[u] /\ base'[u] = base[u] /\ layout'[u] = layout[u]
      BY <2>2, <1>7
    <3>2. pc[u] # "idle" => base[u] \in Base /\ pool'[base[u]] = pool[base[u]]
      BY <2>2, <1>6, <1>13
    <3> QED BY <3>1, <3>2 DEF Inv, InFlight
  <2> QED BY <2>1, <2>2
<1>15. OneOwner'
  BY <1>2, <1>7, <1>11, <1>13 DEF Inv, OneOwner
<1>16. FreesAreValid' /\ NothingLeaks'
  <2>1. ASSUME NEW c \in Base, pool'[c] > 0
        PROVE  \/ \E k \in blocks' : k.home = c
               \/ \E u \in Thread : pc'[u] # "idle" /\ base'[u] = c
    <3>1. CASE c = b
      BY <3>1, <1>7
    <3>2. CASE c # b
      <4>1. \/ \E k \in blocks : k.home = c
            \/ \E u \in Thread : pc[u] # "idle" /\ base[u] = c
        BY <2>1, <3>2, <1>6 DEF Inv, NothingLeaks
      <4> QED BY <4>1, <1>2, <1>7
    <3> QED BY <3>1, <3>2
  <2>2. FreesAreValid'
    BY <1>2 DEF Inv, FreesAreValid
  <2> QED BY <2>1, <2>2 DEF NothingLeaks
<1> QED
  BY <1>8, <1>9, <1>10, <1>12, <1>14, <1>15, <1>16 DEF Inv

LEMMA AllocHeaderInv ==
  ASSUME Inv, NEW t \in Thread, AllocHeader(t)
  PROVE  Inv'
<1> USE AllocatorAssumption
<1> DEFINE b == base[t]
           l == layout[t]
<1>1. PICK gap \in AlignOffset(b + PtrSize, l.align) :
        /\ mem' = [a \in Addr |-> IF a \in Header(b + PtrSize + gap) THEN b ELSE mem[a]]
        /\ blocks' = blocks \cup
             {[ptr |-> b + PtrSize + gap, size |-> l.size, home |-> b]}
  BY DEF AllocHeader
<1>2. /\ pc[t] = "header" /\ pc' = [pc EXCEPT ![t] = "idle"]
      /\ UNCHANGED <<pool, layout, base, corrupted>>
  BY DEF AllocHeader
<1>3. TypeOK
  BY DEF Inv
<1>4. /\ b \in Base /\ b \in Nat /\ pool[b] \in Nat /\ pool[b] > 0
      /\ pool[b] = l.size + (l.align - 1) + PtrSize
  <2>1. b \in Base /\ pool[b] > 0 /\ pool[b] = l.size + Ext(l)
    BY <1>2 DEF Inv, InFlight
  <2>2. b \in Nat /\ pool[b] \in Nat
    BY <2>1, <1>3 DEF TypeOK
  <2>3. l.size \in Nat /\ l.align \in Nat
    BY <1>3 DEF TypeOK
  <2> QED BY <2>1, <2>2, <2>3 DEF Ext
<1>5. l.size \in Nat \ {0} /\ l.align \in Nat \ {0}
  BY <1>3 DEF TypeOK
<1>6. gap \in 0..(l.align - 1)
  BY <1>1 DEF AlignOffset
<1> DEFINE ptr == b + PtrSize + gap
           new == [ptr |-> ptr, size |-> l.size, home |-> b]
<1>7. /\ ptr \in Nat /\ b <= ptr - PtrSize
      /\ ptr + l.size <= b + pool[b]
  BY <1>4, <1>5, <1>6
<1>8. \A u \in Thread : pc'[u] = IF u = t THEN "idle" ELSE pc[u]
  BY <1>2, <1>3 DEF TypeOK
<1>9. /\ new.ptr = ptr /\ new.size = l.size /\ new.home = b
      /\ blocks' = blocks \cup {new}
  BY <1>1
<1>10. new \in [ptr : Nat, size : Nat \ {0}, home : Base]
  BY <1>4, <1>5, <1>7
<1>11. mem' = [a \in Addr |-> IF a \in Header(ptr) THEN b ELSE mem[a]]
  BY <1>1
<1>12. Header(ptr) \subseteq Extent(b)
  BY <1>4, <1>5, <1>7 DEF Header, Extent
<1> HIDE DEF ptr, new, b, l
<1>13. TypeOK'
  BY <1>2, <1>3, <1>4, <1>9, <1>10, <1>11 DEF TypeOK, Cell
<1>14. PoolInMemory' /\ PoolDisjoint' /\ FreesAreValid'
  BY <1>2 DEF Inv, PoolInMemory, PoolDisjoint, Extent, FreesAreValid
<1>15. \A k \in blocks : k.home # b
  BY <1>2 DEF Inv, OneOwner, b
<1>16. BlocksLive' /\ BlocksInsideAllocation'
  BY <1>2, <1>4, <1>7, <1>9 DEF Inv, BlocksLive, BlocksInsideAllocation
<1>17. HeadersIntact'
  <2> SUFFICES ASSUME NEW k \in blocks', NEW a \in Header(k.ptr), a \in Addr
               PROVE  mem'[a] = k.home
    BY DEF HeadersIntact, Header
  <2>1. CASE k = new
    BY <2>1, <1>9, <1>11
  <2>2. CASE k \in blocks
    <3>1. Header(k.ptr) \cap Extent(b) = {}
      BY <2>2, <1>4, <1>15, StoreOutsideHeaders
    <3>2. a \notin Header(ptr)
      BY <3>1, <1>12
    <3>3. mem[a] = k.home
      BY <2>2 DEF Inv, HeadersIntact
    <3> QED BY <3>2, <3>3, <1>11
  <2> QED BY <2>1, <2>2, <1>9
<1>18. InFlight'
  BY <1>2, <1>8 DEF Inv, InFlight, Ext
<1>19. OneOwner'
  <2>1. \A u \in Thread : u # t /\ pc[u] # "idle" => base[u] # b
    BY <1>2 DEF Inv, OneOwner, b
  <2> QED BY <2>1, <1>2, <1>8, <1>9, <1>15 DEF Inv, OneOwner
<1>20. NothingLeaks'
  <2>1. new \in blocks' /\ new.home = base[t]
    BY <1>9 DEF b
  <2>2. ASSUME NEW c \in Base, pool[c] > 0
        PROVE  \/ \E k \in blocks' : k.home = c
               \/ \E u \in Thread : pc'[u] # "idle" /\ base[u] = c
    <3>1. \/ \E k \in blocks : k.home = c
          \/ \E u \in Thread : pc[u] # "idle" /\ base[u] = c
      BY <2>2 DEF Inv, NothingLeaks
    <3> QED BY <3>1, <2>1, <1>8, <1>9
  <2> QED BY <2>2, <1>2 DEF NothingLeaks
<1> QED
  BY <1>13, <1>14, <1>16, <1>17, <1>18, <1>19, <1>20 DEF Inv

LEMMA DeallocReadInv ==
  ASSUME Inv, NEW t \in Thread, DeallocRead(t)
  PROVE  Inv'
<1>1. PICK k \in blocks : /\ blocks' = blocks \ {k}
                          /\ base' = [base EXCEPT ![t] = Stored(k.ptr)]
  BY DEF DeallocRead
<1>2. /\ pc[t] = "idle" /\ pc' = [pc EXCEPT ![t] = "free"]
      /\ UNCHANGED <<pool, mem, layout, corrupted>>
  BY DEF DeallocRead
<1>3. Stored(k.ptr) = k.home
  BY StoredIsHome
<1>4. k.home \in Base /\ pool[k.home] > 0
  BY DEF Inv, TypeOK, BlocksLive
<1>5. \A u \in Thread : /\ pc'[u] = IF u = t THEN "free" ELSE pc[u]
                        /\ base'[u] = IF u = t THEN k.home ELSE base[u]
  BY <1>1, <1>2, <1>3 DEF Inv, TypeOK
<1>6. TypeOK'
  BY <1>1, <1>2, <1>3, <1>4 DEF Inv, TypeOK, Cell
<1>7. /\ PoolInMemory' /\ PoolDisjoint' /\ BlocksLive'
      /\ BlocksInsideAllocation' /\ HeadersIntact' /\ FreesAreValid'
  BY <1>1, <1>2 DEF Inv, PoolInMemory, PoolDisjoint, Extent, BlocksLive,
       BlocksInsideAllocation, HeadersIntact, FreesAreValid
<1>8. InFlight'
  BY <1>2, <1>4, <1>5 DEF Inv, InFlight, Ext
<1>9. OneOwner'
  BY <1>1, <1>2, <1>5 DEF Inv, OneOwner
<1>10. NothingLeaks'
  BY <1>1, <1>2, <1>5 DEF Inv, NothingLeaks
<1> QED
  BY <1>6, <1>7, <1>8, <1>9, <1>10 DEF Inv

LEMMA DeallocFreeInv ==
  ASSUME Inv, NEW t \in Thread, DeallocFree(t)
  PROVE  Inv'
<1> DEFINE b == base[t]
<1>1. /\ pc[t] = "free" /\ pc' = [pc EXCEPT ![t] = "idle"]
      /\ UNCHANGED <<mem, blocks, layout, base>>
  BY DEF DeallocFree
<1>2. b \in Base /\ pool[b] > 0
  BY <1>1 DEF Inv, InFlight
<1>3. pool' = [pool EXCEPT ![b] = 0] /\ corrupted' = corrupted
  BY <1>2 DEF DeallocFree
<1>4. \A c \in Base : pool'[c] = IF c = b THEN 0 ELSE pool[c]
  BY <1>3 DEF Inv, TypeOK
<1>5. \A u \in Thread : pc'[u] = IF u = t THEN "idle" ELSE pc[u]
  BY <1>1 DEF Inv, TypeOK
<1>6. \A k \in blocks : k.home \in Base /\ k.home # b
  BY <1>1 DEF Inv, TypeOK, OneOwner
<1>7. \A u \in Thread : u # t /\ pc[u] # "idle" => base[u] \in Base /\ base[u] # b
  BY <1>1 DEF Inv, OneOwner, InFlight
<1>8. TypeOK'
  BY <1>1, <1>3 DEF Inv, TypeOK, Cell
<1> HIDE DEF b
<1>9. PoolInMemory' /\ PoolDisjoint'
  <2>1. Base \subseteq Nat
    BY AllocatorAssumption
  <2> QED BY <2>1, <1>4 DEF Inv, PoolInMemory, PoolDisjoint, Extent
<1>10. BlocksLive' /\ BlocksInsideAllocation' /\ HeadersIntact' /\ FreesAreValid'
  BY <1>1, <1>3, <1>4, <1>6 DEF Inv, BlocksLive, BlocksInsideAllocation,
       HeadersIntact, FreesAreValid
<1>11. InFlight'
  BY <1>1, <1>4, <1>5, <1>7 DEF Inv, InFlight, Ext
<1>12. OneOwner'
  BY <1>1, <1>5 DEF Inv, OneOwner
<1>13. NothingLeaks'
  BY <1>1, <1>4, <1>5 DEF Inv, NothingLeaks, b
<1> QED
  BY <1>8, <1>9, <1>10, <1>11, <1>12, <1>13 DEF Inv

\* A store to one byte that is in no header keeps the invariant.
LEMMA StoreInv ==
  ASSUME Inv, NEW a \in Addr, NEW v \in Cell,
         \A k \in blocks : a \notin Header(k.ptr),
         mem' = [mem EXCEPT ![a] = v],
         UNCHANGED <<pool, blocks, pc, layout, base, corrupted>>
  PROVE  Inv'
<1>1. TypeOK'
  BY DEF Inv, TypeOK
<1>2. HeadersIntact'
  BY DEF Inv, TypeOK, HeadersIntact, Header
<1> QED
  BY <1>1, <1>2 DEF Inv, PoolInMemory, PoolDisjoint, Extent, BlocksLive,
       BlocksInsideAllocation, InFlight, Ext, OneOwner, FreesAreValid, NothingLeaks

LEMMA OwnerWritesInv ==
  ASSUME Inv, OwnerWrites
  PROVE  Inv'
<1>1. PICK j \in blocks : \E a \in Bytes(j), v \in Cell :
        a \in Addr /\ mem' = [mem EXCEPT ![a] = v]
  BY DEF OwnerWrites
<1>2. PICK a \in Bytes(j), v \in Cell : a \in Addr /\ mem' = [mem EXCEPT ![a] = v]
  BY <1>1
<1>3. j.home \in Base
  BY DEF Inv, TypeOK
<1>4. ASSUME NEW k \in blocks PROVE a \notin Header(k.ptr)
  <2>1. CASE k = j
    BY <2>1, BlockInExtent
  <2>2. CASE k # j
    <3>1. k.home # j.home
      BY <2>2 DEF Inv, OneOwner
    <3>2. Header(k.ptr) \cap Extent(j.home) = {}
      BY <3>1, <1>3, StoreOutsideHeaders
    <3> QED BY <3>2, BlockInExtent
  <2> QED BY <2>1, <2>2
<1>5. UNCHANGED <<pool, blocks, pc, layout, base, corrupted>>
  BY DEF OwnerWrites
<1> QED BY <1>2, <1>4, <1>5, StoreInv

LEMMA OthersWriteInv ==
  ASSUME Inv, OthersWrite
  PROVE  Inv'
<1>1. PICK a \in Addr, v \in Cell :
        /\ \A b \in Base : pool[b] > 0 => a \notin Extent(b)
        /\ mem' = [mem EXCEPT ![a] = v]
  BY DEF OthersWrite
<1>2. ASSUME NEW k \in blocks PROVE a \notin Header(k.ptr)
  <2>1. k.home \in Base /\ pool[k.home] > 0
    BY DEF Inv, TypeOK, BlocksLive
  <2> QED BY <2>1, <1>1, BlockInExtent
<1>3. UNCHANGED <<pool, blocks, pc, layout, base, corrupted>>
  BY DEF OthersWrite
<1> QED BY <1>1, <1>2, <1>3, StoreInv

LEMMA NextInv == Inv /\ [Next]_vars => Inv'
<1> SUFFICES ASSUME Inv, [Next]_vars PROVE Inv'
  OBVIOUS
<1>1. ASSUME NEW t \in Thread, AllocPool(t) PROVE Inv'
  BY <1>1, AllocPoolInv
<1>2. ASSUME NEW t \in Thread, AllocHeader(t) PROVE Inv'
  BY <1>2, AllocHeaderInv
<1>3. ASSUME NEW t \in Thread, DeallocRead(t) PROVE Inv'
  BY <1>3, DeallocReadInv
<1>4. ASSUME NEW t \in Thread, DeallocFree(t) PROVE Inv'
  BY <1>4, DeallocFreeInv
<1>5. CASE OwnerWrites
  BY <1>5, OwnerWritesInv
<1>6. CASE OthersWrite
  BY <1>6, OthersWriteInv
<1>7. CASE UNCHANGED vars
  BY <1>7 DEF vars, Inv, TypeOK, PoolInMemory, PoolDisjoint, Extent, BlocksLive,
       BlocksInsideAllocation, HeadersIntact, InFlight, Ext, OneOwner,
       FreesAreValid, NothingLeaks
<1> QED
  BY <1>1, <1>2, <1>3, <1>4, <1>5, <1>6, <1>7 DEF Next

\* The inductive invariant holds in every reachable state.
THEOREM Invariance == Spec => []Inv
<1> QED BY InitInv, NextInv, PTL DEF Spec

-----------------------------------------------------------------------------

\* Variables keep their types: in particular every address read from a header is
\* a pool address or 0.
THEOREM TypeCorrect == Spec => []TypeOK
<1>1. Inv => TypeOK
  BY DEF Inv
<1> QED BY <1>1, Invariance, PTL

\* For every layout, alignment and interleaving, the header below a live block leads
\* back to the allocation it was carved from (kalloc/mod.rs:89).
THEOREM HeadersStayIntact == Spec => []HeadersIntact
<1>1. Inv => HeadersIntact
  BY DEF Inv
<1> QED BY <1>1, Invariance, PTL

\* dealloc hands ExFreePool a live allocation, each exactly once (kalloc/mod.rs:106).
THEOREM FreesStayValid == Spec => []FreesAreValid
<1>1. Inv => FreesAreValid
  BY DEF Inv
<1> QED BY <1>1, Invariance, PTL

\* Every live allocation has an owner: neither alloc nor dealloc loses one.
THEOREM NothingEverLeaks == Spec => []NothingLeaks
<1>1. Inv => NothingLeaks
  BY DEF Inv
<1> QED BY <1>1, Invariance, PTL

\* No byte belongs to two blocks, and no block covers the header of another.
THEOREM BlocksStayDisjoint == Spec => []BlocksDisjoint
<1>1. Inv => BlocksDisjoint
  <2> SUFFICES ASSUME Inv, NEW j \in blocks, NEW k \in blocks, j # k
               PROVE  (Header(j.ptr) \cup Bytes(j)) \cap (Header(k.ptr) \cup Bytes(k)) = {}
    BY DEF BlocksDisjoint
  <2>1. j.home \in Base /\ k.home \in Base /\ j.home # k.home
    BY DEF Inv, TypeOK, OneOwner
  <2>2. Extent(j.home) \cap Extent(k.home) = {}
    BY <2>1, ExtentsDisjoint
  <2> QED BY <2>2, BlockInExtent
<1> QED BY <1>1, Invariance, PTL

\* A block and its header lie inside their allocation.
THEOREM BlocksStayInside == Spec => []BlocksInsideAllocation
<1>1. Inv => BlocksInsideAllocation
  BY DEF Inv
<1> QED BY <1>1, Invariance, PTL
=============================================================================
