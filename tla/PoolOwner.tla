----------------------------- MODULE PoolOwner -----------------------------
(***************************************************************************)
(* kalloc::pool and kalloc::contiguous, over the adapters of               *)
(* memory::allocator: PoolMemory, PoolMemorySlice, ContiguousMemory and    *)
(* ContiguousMemorySlice.                                                  *)
(*                                                                         *)
(* A wrapper is a pointer, a length and what its destructor passes on.     *)
(* Its values are bytes of memory that kernel routines hand out and take   *)
(* back with anything in them.  Where Clone or Drop of an element runs,    *)
(* the other owners run as well.                                           *)
(***************************************************************************)
EXTENDS Naturals, Sequences

CONSTANTS
  Owner,       \* variables that may hold a wrapper
  Value,       \* 1..n: the values made by callers and by Clone, in order
  Zero, Hole,
  Addr, Base,  \* the memory the kernel gives out, and where a block of it may begin
  Size,        \* size_of::<T>()
  Word,        \* usize counts modulo this
  Count,       \* the lengths asked for
  Type,        \* the wrappers in use, of AllTypes
  Caching      \* MEMORY_CACHING_TYPE

AllTypes == [family : {"pool", "contiguous"}, form : {"one", "slice"}]

ASSUME PoolOwnerAssumption ==
  /\ Size \in Nat \ {0} /\ Word \in Nat \ {0} /\ Size < Word
  /\ Addr \subseteq Nat \ {0} /\ Base \subseteq Addr
  /\ Count \subseteq 0..(Word - 1)
  /\ Value \subseteq Nat
  /\ {Zero, Hole} \cap Nat = {} /\ Zero # Hole
  /\ Type \subseteq AllTypes

VARIABLES
  heap,      \* base |-> [family, bytes, caching] of what the kernel has given out
  mem,       \* mem[a]: byte k of value v as <<v, k>>, ZeroByte or OldByte
  own,       \* own[o]: the wrapper in variable o, or one being made or dropped
  dropped, lost,
  born,      \* the last value made
  leaked,    \* the allocations that were leaked
  misfreed   \* a free routine was given what it did not give out

vars == <<heap, mem, own, dropped, lost, born, leaked, misfreed>>

ZeroByte == <<Zero, 0>>
OldByte == <<Hole, 0>>

Nothing == [st |-> "none", type |-> [family |-> "pool", form |-> "one"],
            ptr |-> 0, len |-> 0, caching |-> "none", next |-> 0, filled |-> {}, val |-> 0]

\* The byte count a slice passes to alloc and free; a single owner passes size_of::<T>().
Bytes(type, n) == IF type.form = "one" THEN Size ELSE (n * Size) % Word

\* The bytes from p on, as far as they exist.
Span(p, n) == {a \in Addr : p <= a /\ a < p + n}

Element(p, i) == p + i * Size
Stored(m, a, v) == [x \in Addr |-> IF x \in Span(a, Size) THEN <<v, x - a>> ELSE m[x]]
Cleared(m, p, n) == [x \in Addr |-> IF x \in Span(p, n) THEN ZeroByte ELSE m[x]]

\* What is left of bytes that were given back.
Overwritten(p, n) == [x \in Addr |-> IF x \in Span(p, n) THEN OldByte ELSE mem[x]]

\* The value in the bytes of an element, if they are still the bytes of one.
ValueAt(m, a) ==
  IF \A x \in Span(a, Size) : m[x] = ZeroByte THEN Zero
  ELSE IF m[a][1] \in Value /\ \A x \in Span(a, Size) : m[x] = <<m[a][1], x - a>> THEN m[a][1]
  ELSE Hole

-----------------------------------------------------------------------------

Init ==
  /\ heap = <<>>
  /\ mem = [a \in Addr |-> OldByte]
  /\ own = [o \in Owner |-> Nothing]
  /\ dropped = {} /\ lost = {}
  /\ born = 0
  /\ leaked = {}
  /\ misfreed = FALSE

(***************************************************************************)
(* The kernel's allocators.  Neither routine says what is in the memory.   *)
(***************************************************************************)
Extent(b, n) == Span(b, IF n = 0 THEN 1 ELSE n)

\* Where a block of n bytes may be put.
Room(n) == {b \in Base :
  /\ b..(b + n - 1) \subseteq Addr
  /\ \A c \in DOMAIN heap : Extent(b, n) \cap Extent(c, heap[c].bytes) = {}}

Given(b, type, n, c) ==
  [x \in DOMAIN heap \cup {b} |->
     IF x = b THEN [family |-> type.family, bytes |-> n, caching |-> c] ELSE heap[x]]

\* alloc_contiguous_memory clears what it is given, alloc_pool does not.
ClearedByAlloc(type, b, n) == IF type.family = "contiguous" THEN Cleared(mem, b, n) ELSE mem

\* free_contiguous_memory is told the size and the caching type, free_pool is not.
FreedAsPool(w) == heap[w.ptr].family = "pool"
FreedAsContiguous(w) ==
  heap[w.ptr] = [family |-> "contiguous", bytes |-> Bytes(w.type, w.len), caching |-> w.caching]

MayFree(w) ==
  /\ w.ptr \in DOMAIN heap
  /\ IF w.type.family = "pool" THEN FreedAsPool(w) ELSE FreedAsContiguous(w)

-----------------------------------------------------------------------------

Cachings(type) == IF type.family = "contiguous" THEN Caching ELSE {"none"}
Lengths(type) == IF type.form = "one" THEN {1} ELSE Count

\* A wrapper in state st of n elements at b, just made.
Wrapper(st, type, b, n, c) ==
  [Nothing EXCEPT !.st = st, !.type = type, !.ptr = b, !.len = n, !.caching = c]

\* What all constructors begin with: the arguments, and a block for them.
Allocated(o, type, n, c, b) ==
  /\ own[o].st = "none"
  /\ b \in Room(Bytes(type, n))
  /\ heap' = Given(b, type, Bytes(type, n), c)

\* new of a single owner: the value is moved in.
New(o, type, n, c, b) ==
  /\ type.form = "one"
  /\ Allocated(o, type, n, c, b)
  /\ born + 1 \in Value /\ born' = born + 1
  /\ mem' = Stored(ClearedByAlloc(type, b, Bytes(type, n)), b, born + 1)
  /\ own' = [own EXCEPT ![o] = Wrapper("init", type, b, n, c)]
  /\ UNCHANGED <<dropped, lost, leaked, misfreed>>

\* new of a slice, which gets clones of the value, one at a time.
NewSlice(o, type, n, c, b) ==
  /\ type.form = "slice"
  /\ Allocated(o, type, n, c, b)
  /\ born + 1 \in Value /\ born' = born + 1
  /\ mem' = ClearedByAlloc(type, b, Bytes(type, n))
  /\ own' = [own EXCEPT ![o] = [Wrapper("cloning", type, b, n, c) EXCEPT !.val = born + 1]]
  /\ UNCHANGED <<dropped, lost, leaked, misfreed>>

\* No memory: the early return drops the value that was given.
NewFails(o) ==
  /\ own[o].st = "none"
  /\ born + 1 \in Value /\ born' = born + 1
  /\ dropped' = dropped \cup {born + 1}
  /\ UNCHANGED <<heap, mem, own, lost, leaked, misfreed>>

\* mutant: one clone too many
Clone_OneMore(o) ==
  /\ own[o].st = "cloning" /\ own[o].next <= own[o].len
  /\ born + 1 \in Value /\ born' = born + 1
  /\ mem' = Stored(mem, Element(own[o].ptr, own[o].next), born + 1)
  /\ own' = [own EXCEPT ![o].next = @ + 1]
  /\ UNCHANGED <<heap, dropped, lost, leaked, misfreed>>

Clone(o) ==
  /\ own[o].st = "cloning" /\ own[o].next < own[o].len
  /\ born + 1 \in Value /\ born' = born + 1
  /\ mem' = Stored(mem, Element(own[o].ptr, own[o].next), born + 1)
  /\ own' = [own EXCEPT ![o].next = @ + 1]
  /\ UNCHANGED <<heap, dropped, lost, leaked, misfreed>>

\* Some(Self { .. }), and then the end of the value that was cloned.
CloneEnds(o) ==
  /\ own[o].st = "cloning" /\ own[o].next = own[o].len
  /\ own' = [own EXCEPT ![o].st = "returning", ![o].next = 0]
  /\ UNCHANGED <<heap, mem, dropped, lost, born, leaked, misfreed>>

DropCloned(o) ==
  /\ own[o].st = "returning"
  /\ dropped' = dropped \cup {own[o].val}
  /\ own' = [own EXCEPT ![o].st = "init", ![o].val = 0]
  /\ UNCHANGED <<heap, mem, lost, born, leaked, misfreed>>

\* new_uninit clears its elements, except for a single one in the pool.
NewUninit(o, type, n, c, b) ==
  /\ Allocated(o, type, n, c, b)
  /\ mem' = LET m == ClearedByAlloc(type, b, Bytes(type, n))
            IN  IF type = [family |-> "pool", form |-> "one"] THEN m
                ELSE Cleared(m, b, n * Size)
  /\ own' = [own EXCEPT ![o] = Wrapper("uninit", type, b, n, c)]
  /\ UNCHANGED <<dropped, lost, born, leaked, misfreed>>

NewZeroed(o, type, n, c, b) ==
  /\ Allocated(o, type, n, c, b)
  /\ mem' = Cleared(ClearedByAlloc(type, b, Bytes(type, n)), b, n * Size)
  /\ own' = [own EXCEPT ![o] = Wrapper("init", type, b, n, c)]
  /\ UNCHANGED <<dropped, lost, born, leaked, misfreed>>

-----------------------------------------------------------------------------

\* The caller, or the initializer, writes an element it has not written before.
InitSlot(o, i) ==
  /\ own[o].st = "uninit" /\ i \in 0..(own[o].len - 1) \ own[o].filled
  /\ born + 1 \in Value /\ born' = born + 1
  /\ mem' = Stored(mem, Element(own[o].ptr, i), born + 1)
  /\ own' = [own EXCEPT ![o].filled = @ \cup {i}]
  /\ UNCHANGED <<heap, dropped, lost, leaked, misfreed>>

\* mutant: self is not forgotten, so its destructor frees the block
AssumeInit_NotForgotten(o) ==
  /\ own[o].st = "uninit" /\ own[o].filled = 0..(own[o].len - 1)
  /\ own' = [own EXCEPT ![o].st = "init", ![o].filled = {}]
  /\ heap' = [b \in DOMAIN heap \ {own[o].ptr} |-> heap[b]]
  /\ UNCHANGED <<mem, dropped, lost, born, leaked, misfreed>>

\* assume_init, called when its safety condition holds; it forgets self, so that the old
\* wrapper's destructor does not run.  new_with_initializer ends with it.
AssumeInit(o) ==
  /\ own[o].st = "uninit" /\ own[o].filled = 0..(own[o].len - 1)
  /\ own' = [own EXCEPT ![o].st = "init", ![o].filled = {}]
  /\ UNCHANGED <<heap, mem, dropped, lost, born, leaked, misfreed>>

Assign(o, i) ==
  /\ own[o].st = "init" /\ i < own[o].len
  /\ born + 1 \in Value /\ born' = born + 1
  /\ LET a == Element(own[o].ptr, i)
     IN  /\ dropped' = dropped \cup ({ValueAt(mem, a)} \cap Value)
         /\ mem' = Stored(mem, a, born + 1)
  /\ UNCHANGED <<heap, own, lost, leaked, misfreed>>

\* The elements a wrapper holds, from the one its destructor is at.
Contents(o) == {ValueAt(mem, Element(own[o].ptr, i)) :
  i \in IF own[o].st = "uninit" THEN own[o].filled ELSE own[o].next..(own[o].len - 1)}

Leak(o) ==
  /\ own[o].st \in {"init", "uninit"}
  /\ lost' = lost \cup (Contents(o) \cap Value)
  /\ leaked' = leaked \cup {own[o].ptr}
  /\ own' = [own EXCEPT ![o] = Nothing]
  /\ UNCHANGED <<heap, mem, dropped, born, misfreed>>

DropBegins(o) ==
  /\ own[o].st = "init"
  /\ own' = [own EXCEPT ![o].st = "dropping"]
  /\ UNCHANGED <<heap, mem, dropped, lost, born, leaked, misfreed>>

\* mutant: the last element is left out
DropElement_NotLast(o) ==
  /\ own[o].st = "dropping" /\ own[o].next < own[o].len
  /\ dropped' = IF own[o].next = own[o].len - 1 THEN dropped
                ELSE dropped \cup ({ValueAt(mem, Element(own[o].ptr, own[o].next))} \cap Value)
  /\ own' = [own EXCEPT ![o].next = @ + 1]
  /\ UNCHANGED <<heap, mem, lost, born, leaked, misfreed>>

\* drop_in_place: the elements in order
DropElement(o) ==
  /\ own[o].st = "dropping" /\ own[o].next < own[o].len
  /\ dropped' = dropped \cup ({ValueAt(mem, Element(own[o].ptr, own[o].next))} \cap Value)
  /\ own' = [own EXCEPT ![o].next = @ + 1]
  /\ UNCHANGED <<heap, mem, lost, born, leaked, misfreed>>

\* The rest of the destructor; for MaybeUninit elements it is all of it.
Free(o) ==
  /\ own[o].st = "uninit" \/ (own[o].st = "dropping" /\ own[o].next = own[o].len)
  /\ LET w == own[o]
     IN  IF MayFree(w)
         THEN /\ heap' = [b \in DOMAIN heap \ {w.ptr} |-> heap[b]]
              /\ mem' = Overwritten(w.ptr, heap[w.ptr].bytes)
              /\ UNCHANGED misfreed
         ELSE misfreed' = TRUE /\ UNCHANGED <<heap, mem>>
  /\ lost' = lost \cup (Contents(o) \cap Value)
  /\ own' = [own EXCEPT ![o] = Nothing]
  /\ UNCHANGED <<dropped, born, leaked>>

Next ==
  \E o \in Owner :
    \/ NewFails(o) \/ Clone(o) \/ CloneEnds(o) \/ DropCloned(o)
    \/ AssumeInit(o) \/ Leak(o) \/ DropBegins(o) \/ DropElement(o) \/ Free(o)
    \/ \E i \in 0..(own[o].len - 1) : InitSlot(o, i) \/ Assign(o, i)
    \/ \E type \in Type, b \in Base : \E n \in Lengths(type), c \in Cachings(type) :
         \/ New(o, type, n, c, b) \/ NewSlice(o, type, n, c, b)
         \/ NewUninit(o, type, n, c, b) \/ NewZeroed(o, type, n, c, b)

Spec == Init /\ [][Next]_vars

(***************************************************************************)
(* Properties.                                                             *)
(***************************************************************************)

States == {"none", "cloning", "returning", "uninit", "init", "dropping"}

TypeOK ==
  /\ DOMAIN heap \subseteq Addr
  /\ \A b \in DOMAIN heap : heap[b].bytes \in 0..(Word - 1)
  /\ \A o \in Owner :
       /\ own[o].st \in States
       /\ own[o].next \in 0..own[o].len
       /\ own[o].filled \subseteq 0..(own[o].len - 1)
  /\ born \in Value \cup {0}
  /\ dropped \subseteq 1..born /\ lost \subseteq 1..born
  /\ leaked \subseteq DOMAIN heap

Owning == {o \in Owner : own[o].st # "none"}

\* pool.rs:378 "PoolMemorySlice<T> owns a contiguous allocation containing len elements":
\* the elements of every wrapper lie in the block it points to.
ElementsInside == \A o \in Owning :
  /\ own[o].ptr \in DOMAIN heap
  /\ own[o].len * Size <= heap[own[o].ptr].bytes

\* Each block has one owner, in constructors, destructors and between them, and is given
\* back by the routine, and with the size and the caching type, it was allocated with;
\* only leak leaves one behind.
BlocksAccounted ==
  /\ ~misfreed
  /\ ElementsInside
  /\ \A b \in DOMAIN heap \ leaked : \E o \in Owning : own[o].ptr = b
  /\ \A o \in Owning : own[o].ptr \notin leaked /\ \A q \in Owning \ {o} : own[o].ptr # own[q].ptr

\* The boxes that the wrappers stand for.
BoxOf(o) ==
  LET w == own[o]
      val(i) == ValueAt(mem, Element(w.ptr, i))
      kind == IF w.st = "returning" THEN "init" ELSE w.st
  IN  IF w.st \in {"none", "cloning"} THEN [kind |-> "none", vals |-> <<>>]
      ELSE [kind |-> kind,
            vals |-> [i \in 1..(w.len - w.next) |->
                        IF w.st = "uninit" /\ i - 1 \notin w.filled THEN Hole
                        ELSE val(w.next + i - 1)]]

AllBoxes == [o \in Owner |-> BoxOf(o)]
Longest == CHOOSE n \in Count \cup {1} : \A k \in Count \cup {1} : k <= n

Boxes == INSTANCE Box WITH boxes <- AllBoxes, MaxLen <- Longest

\* The wrappers behave like Box<T> and Box<[T]> (pool.rs:22 and 27): whatever other owners
\* do to the same memory before, after or meanwhile, the values in a wrapper change only
\* through it, and each is dropped once, or leaked with it.
ImplementsBox == Boxes!BoxSpec
=============================================================================
