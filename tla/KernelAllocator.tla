--------------------------- MODULE KernelAllocator ---------------------------
(***************************************************************************)
(* kalloc::KernelAllocator, the crate's GlobalAlloc.  ExAllocatePool knows *)
(* nothing of a Layout, so `alloc` asks for more than the layout's size,   *)
(* moves the block to an aligned address and writes the pool address into  *)
(* the pointer-sized header just below it; `dealloc` reads that header     *)
(* back.  Everything depends on no header ever being overwritten while its *)
(* block is alive.                                                         *)
(***************************************************************************)
EXTENDS Integers

CONSTANTS Thread,
          Addr,     \* addresses of the pool's bytes
          Base,     \* addresses that ExAllocatePool may return
          Layout,   \* layouts asked for: records [size, align]
          PtrSize   \* size_of::<*mut u8>()

ASSUME AllocatorAssumption ==
  /\ PtrSize \in Nat \ {0}
  /\ Addr \subseteq Nat
  /\ Base \subseteq Nat \ {0}
  /\ Layout \subseteq [size : Nat \ {0}, align : Nat \ {0}]

VARIABLES
  pool,       \* pool[b]: length of the live pool allocation at b, 0: none
  mem,        \* mem[a]: the pool address whose header byte a holds, 0: other data
  blocks,     \* blocks handed out: [ptr, size, home]; home is a history field,
              \* the pool address the block was carved from
  pc, layout, base,   \* per thread: the step and the locals of alloc and dealloc
  corrupted   \* ExFreePool was given an address that is not a live allocation

vars == <<pool, mem, blocks, pc, layout, base, corrupted>>

\* What a byte can hold, as far as reading a header can tell.
Cell == Base \cup {0}

TypeOK ==
  /\ pool \in [Base -> Nat]
  /\ mem \in [Addr -> Cell]
  /\ blocks \subseteq [ptr : Nat, size : Nat \ {0}, home : Base]
  /\ pc \in [Thread -> {"idle", "header", "free"}]
  /\ layout \in [Thread -> Layout]
  /\ base \in [Thread -> Cell]
  /\ corrupted \in BOOLEAN

Init ==
  /\ pool = [b \in Base |-> 0]
  /\ mem \in [Addr -> {0}]
  /\ blocks = {}
  /\ pc = [t \in Thread |-> "idle"]
  /\ layout \in [Thread -> Layout]
  /\ base = [t \in Thread |-> 0]
  /\ corrupted = FALSE

\* The bytes of a pool allocation, of a block, and of the header below a block.
Extent(b) == b..(b + pool[b] - 1)
Bytes(k) == k.ptr..(k.ptr + k.size - 1)
Header(ptr) == (ptr - PtrSize)..(ptr - 1)

\* mutant: the header is not counted in the size of the allocation
Ext_NoHeader(l) == l.align - 1

\* The local `ext` of alloc: room for the alignment gap and the header.
Ext(l) == (l.align - 1) + PtrSize

\* ExAllocatePool returns unused memory: n bytes at b that meet no live allocation.
Unused(b, n) ==
  /\ \A a \in b..(b + n - 1) : a \in Addr
  /\ \A c \in Base : pool[c] > 0 => c + pool[c] <= b \/ b + n <= c

\* alloc, up to ExAllocatePool; a null answer returns null and changes nothing.
AllocPool(t) ==
  /\ pc[t] = "idle"
  /\ \E l \in Layout, b \in Base :
       /\ Unused(b, l.size + Ext(l))
       /\ pool' = [pool EXCEPT ![b] = l.size + Ext(l)]
       /\ layout' = [layout EXCEPT ![t] = l]
       /\ base' = [base EXCEPT ![t] = b]
  /\ pc' = [pc EXCEPT ![t] = "header"]
  /\ UNCHANGED <<mem, blocks, corrupted>>

\* align_offset: the gap below `align` that takes x to a multiple of it.
AlignOffset(x, align) == {gap \in 0..(align - 1) : (x + gap) % align = 0}

\* mutant: the header is written at the pool address, not below the block
AllocHeader_AtBase(t) ==
  /\ pc[t] = "header"
  /\ \E gap \in AlignOffset(base[t] + PtrSize, layout[t].align) :
       LET ptr == base[t] + PtrSize + gap
       IN  /\ mem' = [a \in Addr |-> IF a \in Header(base[t] + PtrSize) THEN base[t] ELSE mem[a]]
           /\ blocks' = blocks \cup {[ptr |-> ptr, size |-> layout[t].size, home |-> base[t]]}
  /\ pc' = [pc EXCEPT ![t] = "idle"]
  /\ UNCHANGED <<pool, layout, base, corrupted>>

\* mutant: the block is given out at the pool address when that is aligned
AllocHeader_NoStart(t) ==
  /\ pc[t] = "header"
  /\ \E gap \in AlignOffset(base[t], layout[t].align) :
       LET ptr == base[t] + gap
       IN  /\ mem' = [a \in Addr |-> IF a \in Header(ptr) THEN base[t] ELSE mem[a]]
           /\ blocks' = blocks \cup {[ptr |-> ptr, size |-> layout[t].size, home |-> base[t]]}
  /\ pc' = [pc EXCEPT ![t] = "idle"]
  /\ UNCHANGED <<pool, layout, base, corrupted>>

\* The rest of alloc: align past the header, write the header, return the block.
AllocHeader(t) ==
  /\ pc[t] = "header"
  /\ \E gap \in AlignOffset(base[t] + PtrSize, layout[t].align) :
       LET ptr == base[t] + PtrSize + gap
       IN  /\ mem' = [a \in Addr |-> IF a \in Header(ptr) THEN base[t] ELSE mem[a]]
           /\ blocks' = blocks \cup {[ptr |-> ptr, size |-> layout[t].size, home |-> base[t]]}
  /\ pc' = [pc EXCEPT ![t] = "idle"]
  /\ UNCHANGED <<pool, layout, base, corrupted>>

\* The pointer read from the header below ptr, 0 when its bytes do not form one.
Stored(ptr) ==
  IF \E b \in Base : \A a \in Header(ptr) : mem[a] = b
  THEN CHOOSE b \in Base : \A a \in Header(ptr) : mem[a] = b
  ELSE 0

\* mutant: the block's own address is freed, not the one in its header
DeallocRead_NoHeader(t) ==
  /\ pc[t] = "idle"
  /\ \E k \in blocks :
       /\ blocks' = blocks \ {k}
       /\ base' = [base EXCEPT ![t] = k.ptr]
  /\ pc' = [pc EXCEPT ![t] = "free"]
  /\ UNCHANGED <<pool, mem, layout, corrupted>>

\* dealloc, up to the read; the caller gives the block up.  A null pointer returns.
DeallocRead(t) ==
  /\ pc[t] = "idle"
  /\ \E k \in blocks :
       /\ blocks' = blocks \ {k}
       /\ base' = [base EXCEPT ![t] = Stored(k.ptr)]
  /\ pc' = [pc EXCEPT ![t] = "free"]
  /\ UNCHANGED <<pool, mem, layout, corrupted>>

\* mutant: the pool allocation is not released
DeallocFree_Leaks(t) ==
  /\ pc[t] = "free"
  /\ pc' = [pc EXCEPT ![t] = "idle"]
  /\ UNCHANGED <<pool, mem, blocks, layout, base, corrupted>>

\* ExFreePool(base).
DeallocFree(t) ==
  /\ pc[t] = "free"
  /\ IF base[t] \in Base /\ pool[base[t]] > 0
     THEN pool' = [pool EXCEPT ![base[t]] = 0] /\ corrupted' = corrupted
     ELSE corrupted' = TRUE /\ pool' = pool
  /\ pc' = [pc EXCEPT ![t] = "idle"]
  /\ UNCHANGED <<mem, blocks, layout, base>>

\* The owner of a block stores anything in it, a copy of a header included.
OwnerWrites ==
  /\ \E k \in blocks : \E a \in Bytes(k), v \in Cell :
       a \in Addr /\ mem' = [mem EXCEPT ![a] = v]
  /\ UNCHANGED <<pool, blocks, pc, layout, base, corrupted>>

\* Memory outside live allocations belongs to others and keeps no value: this is
\* also how stale headers come to be in memory that is handed out again.
OthersWrite ==
  /\ \E a \in Addr, v \in Cell :
       /\ \A b \in Base : pool[b] > 0 => a \notin Extent(b)
       /\ mem' = [mem EXCEPT ![a] = v]
  /\ UNCHANGED <<pool, blocks, pc, layout, base, corrupted>>

Next ==
  \/ \E t \in Thread : AllocPool(t) \/ AllocHeader(t) \/ DeallocRead(t) \/ DeallocFree(t)
  \/ OwnerWrites
  \/ OthersWrite

Spec == Init /\ [][Next]_vars

(***************************************************************************)
(* Properties.                                                             *)
(***************************************************************************)

\* The header below every block that is alive leads back to the pool allocation the
\* block was carved from, whatever its owner, the owners of the neighbouring blocks
\* and the users of freed memory have stored since.
HeadersIntact == \A k \in blocks :
  \A a \in Header(k.ptr) : a \in Addr => mem[a] = k.home

\* A block and its header lie inside the allocation, for every size, alignment and
\* address the pool returns.
BlocksInsideAllocation == \A k \in blocks :
  /\ k.home <= k.ptr - PtrSize
  /\ k.ptr + k.size <= k.home + pool[k.home]

\* No byte belongs to two blocks, and no block covers the header of another.
BlocksDisjoint == \A j, k \in blocks :
  j # k => (Header(j.ptr) \cup Bytes(j)) \cap (Header(k.ptr) \cup Bytes(k)) = {}

\* Every ExFreePool gets a live allocation: nothing else, and none twice.
FreesAreValid == ~corrupted

\* A live allocation belongs to a block or to a thread inside alloc or dealloc:
\* nothing leaks on the way.
NothingLeaks == \A b \in Base :
  pool[b] > 0 => \/ \E k \in blocks : k.home = b
                 \/ \E t \in Thread : pc[t] # "idle" /\ base[t] = b
=============================================================================
