--------------------------- MODULE PoolOwner_proof ---------------------------
(***************************************************************************)
(* Proofs about PoolOwner for lengths whose byte counts fit in a word, for *)
(* any number of owners, sizes of elements and placements of blocks.       *)
(***************************************************************************)
EXTENDS PoolOwner, FiniteSetTheorems, SequenceTheorems, TLAPS

\* What the run owner_wrap shows to be needed: count * size_of::<T>() does not wrap.
NoWrap == \A n \in Count : n * Size < Word

(***************************************************************************)
(* BlocksAccounted is not inductive: that a free routine is given what it  *)
(* gave out rests on every wrapper still knowing, in whatever state, the   *)
(* family, the byte count and the caching type of its block.               *)
(***************************************************************************)
Wrappers ==
  [st : States, type : AllTypes, ptr : Nat, len : Nat, caching : Caching \cup {"none"},
   next : Nat, filled : SUBSET Nat, val : Nat]

OwnTypes == own \in [Owner -> Wrappers] /\ born \in Nat

BlockOf(w) == [family |-> w.type.family, bytes |-> Bytes(w.type, w.len), caching |-> w.caching]

\* A wrapper knows its block.
KnowsBlock(w) ==
  /\ w.ptr \in DOMAIN heap \ leaked
  /\ heap[w.ptr] = BlockOf(w)
  /\ w.len \in Lengths(w.type)

Owns(o) == own[o].st # "none"

OneOwner == \A o, q \in Owner : Owns(o) /\ Owns(q) /\ own[o].ptr = own[q].ptr => o = q

AllOwned == \A b \in DOMAIN heap \ leaked : \E o \in Owner : Owns(o) /\ own[o].ptr = b

HeapTypes ==
  /\ \A b \in DOMAIN heap : heap[b].bytes \in Nat
  /\ heap = [b \in DOMAIN heap |-> heap[b]]
  /\ leaked \subseteq DOMAIN heap

OwnerInv ==
  /\ OwnTypes /\ HeapTypes /\ OneOwner /\ AllOwned /\ ~misfreed
  /\ \A o \in Owner : Owns(o) => KnowsBlock(own[o])

LEMMA BytesNat ==
  ASSUME NEW type \in AllTypes, NEW n \in Nat
  PROVE  Bytes(type, n) \in Nat
<1>1. n * Size \in Nat /\ Size \in Nat /\ Word \in Nat \ {0}
  BY PoolOwnerAssumption
<1>2. (n * Size) % Word \in Nat
  BY <1>1
<1> QED BY <1>1, <1>2 DEF Bytes

LEMMA LengthsNat == \A type \in AllTypes : Lengths(type) \subseteq Nat
BY PoolOwnerAssumption DEF Lengths

\* Without a wrap the elements fit into the bytes asked for.
LEMMA ElementsFit ==
  ASSUME NoWrap, NEW type \in AllTypes, NEW n \in Lengths(type)
  PROVE  n * Size <= Bytes(type, n)
<1>1. Size \in Nat /\ Word \in Nat \ {0}
  BY PoolOwnerAssumption
<1>2. CASE type.form = "one"
  BY <1>1, <1>2 DEF Lengths, Bytes
<1>3. CASE type.form # "one"
  <2>1. n \in Count /\ n \in Nat
    BY <1>3, LengthsNat DEF Lengths
  <2>2. n * Size \in Nat /\ n * Size < Word
    BY <1>1, <2>1 DEF NoWrap
  <2>3. (n * Size) % Word = n * Size
    BY <1>1, <2>2
  <2> QED BY <1>3, <2>2, <2>3 DEF Bytes
<1> QED BY <1>2, <1>3

LEMMA OwnerInitInv == Init => OwnerInv
<1> SUFFICES ASSUME Init PROVE OwnerInv
  OBVIOUS
<1>1. Nothing \in Wrappers
  BY DEF Nothing, Wrappers, States, AllTypes
<1>2. own = [o \in Owner |-> Nothing] /\ heap = <<>> /\ DOMAIN heap = {} /\ ~misfreed /\ born = 0
      /\ leaked = {}
  BY DEF Init
<1>3. \A o \in Owner : ~Owns(o)
  BY <1>2 DEF Owns, Nothing
<1>4. heap = [b \in DOMAIN heap |-> heap[b]]
  BY <1>2
<1> QED BY <1>1, <1>2, <1>3, <1>4 DEF OwnerInv, OwnTypes, HeapTypes, OneOwner, AllOwned

\* A step that leaves the blocks, and who has which, alone.
LEMMA SameBlocks ==
  ASSUME OwnerInv, OwnTypes', UNCHANGED <<heap, leaked, misfreed>>,
         \A o \in Owner : /\ Owns(o)' = Owns(o)
                          /\ own'[o].ptr = own[o].ptr /\ own'[o].len = own[o].len
                          /\ own'[o].type = own[o].type /\ own'[o].caching = own[o].caching
  PROVE  OwnerInv'
<1>1. HeapTypes' /\ ~misfreed'
  BY DEF OwnerInv, HeapTypes
<1>2. OneOwner' /\ AllOwned'
  BY DEF OwnerInv, OneOwner, AllOwned
<1>3. ASSUME NEW o \in Owner, Owns(o)'
      PROVE  KnowsBlock(own[o])'
  <2>1. KnowsBlock(own[o])
    BY <1>3 DEF OwnerInv
  <2>2. /\ own'[o].ptr = own[o].ptr /\ own'[o].len = own[o].len
        /\ own'[o].type = own[o].type /\ own'[o].caching = own[o].caching
    OBVIOUS
  <2> QED BY <2>1, <2>2 DEF KnowsBlock, BlockOf, Bytes, Lengths
<1> QED BY <1>1, <1>2, <1>3 DEF OwnerInv

\* A block that the kernel gives out is new.
LEMMA RoomIsNew ==
  ASSUME HeapTypes, NEW n \in Nat, NEW b \in Room(n)
  PROVE  b \in Nat /\ b \notin DOMAIN heap
<1>1. b \in Addr /\ b \in Nat
  BY PoolOwnerAssumption DEF Room
<1>2. \A k \in Nat : b \in Extent(b, k)
  BY <1>1 DEF Extent, Span
<1>3. \A c \in DOMAIN heap : Extent(b, n) \cap Extent(c, heap[c].bytes) = {}
  BY DEF Room
<1> QED BY <1>1, <1>2, <1>3 DEF HeapTypes

\* What all constructors do: a new block, and a wrapper that knows it.
LEMMA NewBlock ==
  ASSUME OwnerInv, NEW o \in Owner, NEW type \in Type, NEW n \in Lengths(type),
         NEW c \in Cachings(type), NEW b, Allocated(o, type, n, c, b),
         NEW w \in Wrappers, w.st # "none", w.type = type, w.ptr = b, w.len = n, w.caching = c,
         own' = [own EXCEPT ![o] = w], born' \in Nat, UNCHANGED <<leaked, misfreed>>
  PROVE  OwnerInv'
<1>1. type \in AllTypes /\ n \in Nat /\ Bytes(type, n) \in Nat
  BY PoolOwnerAssumption, LengthsNat, BytesNat
<1>2. /\ b \notin DOMAIN heap /\ own[o].st = "none" /\ OwnTypes /\ HeapTypes
      /\ heap' = Given(b, type, Bytes(type, n), c)
  BY <1>1, RoomIsNew DEF Allocated, OwnerInv
<1>3. /\ DOMAIN heap' = DOMAIN heap \cup {b}
      /\ heap' = [x \in DOMAIN heap' |-> heap'[x]]
      /\ heap'[b] = [family |-> type.family, bytes |-> Bytes(type, n), caching |-> c]
      /\ \A x \in DOMAIN heap : heap'[x] = heap[x]
  BY <1>2 DEF Given
<1>4. OwnTypes'
  BY <1>2 DEF OwnTypes
<1>5. HeapTypes'
  BY <1>1, <1>2, <1>3 DEF HeapTypes
<1>6. own'[o] = w /\ \A q \in Owner \ {o} : own'[q] = own[q]
  BY <1>2 DEF OwnTypes
<1>7. \A q \in Owner : Owns(q) => own[q].ptr # b
  BY <1>2 DEF OwnerInv, KnowsBlock
<1>8. OneOwner'
  BY <1>6, <1>7 DEF OneOwner, Owns, OwnerInv
<1>9. AllOwned'
  <2> SUFFICES ASSUME NEW x \in DOMAIN heap' \ leaked
               PROVE  \E q \in Owner : Owns(q)' /\ own'[q].ptr = x
    BY DEF AllOwned
  <2>1. CASE x = b
    BY <1>6, <2>1 DEF Owns
  <2>2. CASE x # b
    <3>1. PICK q \in Owner : Owns(q) /\ own[q].ptr = x
      BY <1>3, <2>2 DEF OwnerInv, AllOwned
    <3>2. q # o
      BY <1>2, <3>1 DEF Owns
    <3> QED BY <1>6, <3>1, <3>2 DEF Owns
  <2> QED BY <2>1, <2>2
<1>10. b \notin leaked /\ leaked' = leaked
  BY <1>2 DEF HeapTypes
<1>11. ASSUME NEW q \in Owner, Owns(q)'
       PROVE  KnowsBlock(own[q])'
  <2>1. CASE q = o
    BY <1>3, <1>6, <1>10, <2>1 DEF KnowsBlock, BlockOf, Lengths, Bytes
  <2>2. CASE q # o
    <3>1. own'[q] = own[q] /\ KnowsBlock(own[q])
      BY <1>6, <1>11, <2>2 DEF OwnerInv, Owns
    <3>2. own[q].ptr # b /\ own[q].ptr \in DOMAIN heap
      BY <1>2, <3>1 DEF KnowsBlock
    <3> QED BY <1>3, <1>10, <3>1, <3>2 DEF KnowsBlock, BlockOf, Lengths, Bytes
  <2> QED BY <2>1, <2>2
<1>12. ~misfreed'
  BY DEF OwnerInv
<1> QED BY <1>4, <1>5, <1>8, <1>9, <1>11, <1>12 DEF OwnerInv

\* A wrapper is gone, and its block given back or leaked.
LEMMA BlockLeaves ==
  ASSUME OwnerInv, NEW o \in Owner, Owns(o),
         own' = [own EXCEPT ![o] = Nothing], UNCHANGED <<born, misfreed>>,
         \/ /\ heap' = [b \in DOMAIN heap \ {own[o].ptr} |-> heap[b]]
            /\ UNCHANGED leaked
         \/ heap' = heap /\ leaked' = leaked \cup {own[o].ptr}
  PROVE  OwnerInv'
<1>1. OwnTypes /\ HeapTypes /\ KnowsBlock(own[o])
  BY DEF OwnerInv
<1>2. Nothing \in Wrappers /\ Nothing.st = "none"
  BY DEF Nothing, Wrappers, States, AllTypes
<1>3. OwnTypes'
  BY <1>1, <1>2 DEF OwnTypes
<1>4. /\ DOMAIN heap' \ leaked' = (DOMAIN heap \ leaked) \ {own[o].ptr}
      /\ DOMAIN heap' \subseteq DOMAIN heap
      /\ \A b \in DOMAIN heap' : heap'[b] = heap[b]
      /\ leaked' \subseteq DOMAIN heap'
      /\ heap' = [b \in DOMAIN heap' |-> heap'[b]]
  BY <1>1 DEF HeapTypes, KnowsBlock
<1>5. HeapTypes'
  BY <1>1, <1>4 DEF HeapTypes
<1>6. own'[o] = Nothing /\ \A q \in Owner \ {o} : own'[q] = own[q]
  BY <1>1 DEF OwnTypes
<1>7. \A q \in Owner : Owns(q)' => q # o /\ Owns(q)
  BY <1>2, <1>6 DEF Owns
<1>8. OneOwner'
  BY <1>6, <1>7 DEF OneOwner, OwnerInv
<1>9. AllOwned'
  <2> SUFFICES ASSUME NEW x \in DOMAIN heap' \ leaked'
               PROVE  \E q \in Owner : Owns(q)' /\ own'[q].ptr = x
    BY DEF AllOwned
  <2>1. x \in DOMAIN heap \ leaked /\ x # own[o].ptr
    BY <1>4
  <2>2. PICK q \in Owner : Owns(q) /\ own[q].ptr = x
    BY <2>1 DEF OwnerInv, AllOwned
  <2>3. q # o
    BY <2>1, <2>2
  <2> QED BY <1>6, <2>2, <2>3 DEF Owns
<1>10. ASSUME NEW q \in Owner, Owns(q)'
       PROVE  KnowsBlock(own[q])'
  <2>1. q # o /\ Owns(q) /\ own'[q] = own[q]
    BY <1>6, <1>7, <1>10
  <2>2. KnowsBlock(own[q]) /\ own[q].ptr # own[o].ptr
    BY <2>1 DEF OwnerInv, OneOwner
  <2>3. own[q].ptr \in DOMAIN heap' \ leaked'
    BY <1>4, <2>2 DEF KnowsBlock
  <2> QED BY <1>4, <2>1, <2>2, <2>3 DEF KnowsBlock, BlockOf, Bytes, Lengths
<1> QED BY <1>3, <1>5, <1>8, <1>9, <1>10 DEF OwnerInv

\* A free routine is given what it gave out: the wrapper knows its block.
LEMMA FreeGivesBack ==
  ASSUME OwnerInv, NEW o \in Owner, Free(o)
  PROVE  OwnerInv'
<1>1. Owns(o) /\ KnowsBlock(own[o]) /\ own[o] \in Wrappers
  BY DEF Free, Owns, OwnerInv, OwnTypes
<1>2. MayFree(own[o])
  BY <1>1 DEF MayFree, KnowsBlock, BlockOf, FreedAsPool, FreedAsContiguous, Wrappers, AllTypes
<1>3. /\ heap' = [b \in DOMAIN heap \ {own[o].ptr} |-> heap[b]] /\ UNCHANGED misfreed
      /\ own' = [own EXCEPT ![o] = Nothing] /\ UNCHANGED <<born, leaked>>
  BY <1>2 DEF Free
<1> QED BY <1>1, <1>3, BlockLeaves

LEMMA MadeWrapper ==
  ASSUME NEW st \in States, NEW type \in AllTypes, NEW b \in Nat, NEW n \in Nat,
         NEW c \in Cachings(type), NEW v \in Nat
  PROVE  LET w == [Wrapper(st, type, b, n, c) EXCEPT !.val = v]
         IN  /\ w \in Wrappers
             /\ w.st = st /\ w.type = type /\ w.ptr = b /\ w.len = n /\ w.caching = c
BY DEF Wrapper, Nothing, Wrappers, Cachings

LEMMA PlainWrapper ==
  ASSUME NEW st \in States, NEW type \in AllTypes, NEW b \in Nat, NEW n \in Nat,
         NEW c \in Cachings(type)
  PROVE  LET w == Wrapper(st, type, b, n, c)
         IN  /\ w \in Wrappers
             /\ w.st = st /\ w.type = type /\ w.ptr = b /\ w.len = n /\ w.caching = c
BY DEF Wrapper, Nothing, Wrappers, Cachings

LEMMA NewInv ==
  ASSUME OwnerInv, NEW o \in Owner, NEW type \in Type, NEW b \in Base,
         NEW n \in Lengths(type), NEW c \in Cachings(type),
         \/ New(o, type, n, c, b) \/ NewSlice(o, type, n, c, b)
         \/ NewUninit(o, type, n, c, b) \/ NewZeroed(o, type, n, c, b)
  PROVE  OwnerInv'
<1>1. type \in AllTypes /\ b \in Nat /\ n \in Nat /\ born \in Nat
  BY PoolOwnerAssumption, LengthsNat DEF OwnerInv, OwnTypes
<1>2. ASSUME NEW st \in {"init", "uninit"}, Allocated(o, type, n, c, b),
             own' = [own EXCEPT ![o] = Wrapper(st, type, b, n, c)], born' \in Nat,
             UNCHANGED <<leaked, misfreed>>
      PROVE  OwnerInv'
  <2> DEFINE w == Wrapper(st, type, b, n, c)
  <2>1. /\ w \in Wrappers /\ w.st # "none"
        /\ w.type = type /\ w.ptr = b /\ w.len = n /\ w.caching = c
    BY <1>1, <1>2, PlainWrapper DEF States
  <2> HIDE DEF w
  <2>2. /\ own' = [own EXCEPT ![o] = w] /\ Allocated(o, type, n, c, b)
        /\ born' \in Nat /\ UNCHANGED <<leaked, misfreed>>
    BY <1>2 DEF w
  <2> QED BY <2>1, <2>2, NewBlock
<1>3. CASE New(o, type, n, c, b)
  BY <1>1, <1>2, <1>3 DEF New
<1>4. CASE NewUninit(o, type, n, c, b)
  BY <1>1, <1>2, <1>4 DEF NewUninit
<1>5. CASE NewZeroed(o, type, n, c, b)
  BY <1>1, <1>2, <1>5 DEF NewZeroed
<1>6. CASE NewSlice(o, type, n, c, b)
  <2> DEFINE w == [Wrapper("cloning", type, b, n, c) EXCEPT !.val = born + 1]
  <2>1. /\ w \in Wrappers /\ w.st # "none"
        /\ w.type = type /\ w.ptr = b /\ w.len = n /\ w.caching = c
    <3>1. "cloning" \in States /\ born + 1 \in Nat
      BY <1>1 DEF States
    <3> HIDE DEF w
    <3>2. /\ w \in Wrappers /\ w.st = "cloning"
          /\ w.type = type /\ w.ptr = b /\ w.len = n /\ w.caching = c
      BY <1>1, <3>1, MadeWrapper DEF w
    <3> QED BY <3>2
  <2> HIDE DEF w
  <2>2. /\ own' = [own EXCEPT ![o] = w] /\ Allocated(o, type, n, c, b)
        /\ born' \in Nat /\ UNCHANGED <<leaked, misfreed>>
    BY <1>1, <1>6 DEF NewSlice, w
  <2> QED BY <2>1, <2>2, NewBlock
<1> QED BY <1>3, <1>4, <1>5, <1>6

\* Cloning, writing elements and dropping them: the wrapper keeps its block.
LEMMA UseInv ==
  ASSUME OwnerInv, NEW o \in Owner,
         \/ NewFails(o) \/ Clone(o) \/ CloneEnds(o) \/ DropCloned(o)
         \/ AssumeInit(o) \/ DropBegins(o) \/ DropElement(o)
         \/ \E i \in 0..(own[o].len - 1) : InitSlot(o, i) \/ Assign(o, i)
  PROVE  OwnerInv'
<1>1. own \in [Owner -> Wrappers] /\ born \in Nat
  BY DEF OwnerInv, OwnTypes
<1>2. own[o] \in Wrappers /\ own[o].next + 1 \in Nat /\ own[o].len \in Nat /\ own[o].filled \subseteq Nat
  BY <1>1 DEF Wrappers
<1>3. ASSUME NEW w \in Wrappers, own' = [own EXCEPT ![o] = w], born' \in Nat,
             w.ptr = own[o].ptr, w.len = own[o].len, w.type = own[o].type,
             w.caching = own[o].caching, own[o].st # "none", w.st # "none",
             UNCHANGED <<heap, leaked, misfreed>>
      PROVE  OwnerInv'
  <2>1. OwnTypes'
    BY <1>1, <1>3 DEF OwnTypes
  <2>2. own'[o] = w /\ \A q \in Owner \ {o} : own'[q] = own[q]
    BY <1>1, <1>3
  <2> QED BY <1>3, <2>1, <2>2, SameBlocks DEF Owns
<1>4. CASE NewFails(o)
  BY <1>1, <1>4, SameBlocks DEF NewFails, OwnTypes, Owns
<1>5. CASE Clone(o)
  <2> DEFINE w == [own[o] EXCEPT !.next = @ + 1]
  <2>1. /\ w \in Wrappers /\ w.st # "none" /\ w.ptr = own[o].ptr /\ w.len = own[o].len
        /\ w.type = own[o].type /\ w.caching = own[o].caching
    BY <1>2, <1>5 DEF Clone, Wrappers, States
  <2>2. /\ own' = [own EXCEPT ![o] = w] /\ own[o].st # "none" /\ born' \in Nat
        /\ UNCHANGED <<heap, leaked, misfreed>>
    BY <1>1, <1>2, <1>5 DEF Clone, Wrappers
  <2> HIDE DEF w
  <2> QED BY <1>3, <2>1, <2>2
<1>6. CASE CloneEnds(o)
  <2> DEFINE w == [own[o] EXCEPT !.st = "returning", !.next = 0]
  <2>1. /\ w \in Wrappers /\ w.st # "none" /\ w.ptr = own[o].ptr /\ w.len = own[o].len
        /\ w.type = own[o].type /\ w.caching = own[o].caching
    BY <1>2, <1>6 DEF CloneEnds, Wrappers, States
  <2>2. /\ own' = [own EXCEPT ![o] = w] /\ own[o].st # "none" /\ born' \in Nat
        /\ UNCHANGED <<heap, leaked, misfreed>>
    BY <1>1, <1>2, <1>6 DEF CloneEnds, Wrappers
  <2> HIDE DEF w
  <2> QED BY <1>3, <2>1, <2>2
<1>7. CASE DropCloned(o)
  <2> DEFINE w == [own[o] EXCEPT !.st = "init", !.val = 0]
  <2>1. /\ w \in Wrappers /\ w.st # "none" /\ w.ptr = own[o].ptr /\ w.len = own[o].len
        /\ w.type = own[o].type /\ w.caching = own[o].caching
    BY <1>2, <1>7 DEF DropCloned, Wrappers, States
  <2>2. /\ own' = [own EXCEPT ![o] = w] /\ own[o].st # "none" /\ born' \in Nat
        /\ UNCHANGED <<heap, leaked, misfreed>>
    BY <1>1, <1>2, <1>7 DEF DropCloned, Wrappers
  <2> HIDE DEF w
  <2> QED BY <1>3, <2>1, <2>2
<1>8. CASE AssumeInit(o)
  <2> DEFINE w == [own[o] EXCEPT !.st = "init", !.filled = {}]
  <2>1. /\ w \in Wrappers /\ w.st # "none" /\ w.ptr = own[o].ptr /\ w.len = own[o].len
        /\ w.type = own[o].type /\ w.caching = own[o].caching
    BY <1>2, <1>8 DEF AssumeInit, Wrappers, States
  <2>2. /\ own' = [own EXCEPT ![o] = w] /\ own[o].st # "none" /\ born' \in Nat
        /\ UNCHANGED <<heap, leaked, misfreed>>
    BY <1>1, <1>2, <1>8 DEF AssumeInit, Wrappers
  <2> HIDE DEF w
  <2> QED BY <1>3, <2>1, <2>2
<1>9. CASE DropBegins(o)
  <2> DEFINE w == [own[o] EXCEPT !.st = "dropping"]
  <2>1. /\ w \in Wrappers /\ w.st # "none" /\ w.ptr = own[o].ptr /\ w.len = own[o].len
        /\ w.type = own[o].type /\ w.caching = own[o].caching
    BY <1>2, <1>9 DEF DropBegins, Wrappers, States
  <2>2. /\ own' = [own EXCEPT ![o] = w] /\ own[o].st # "none" /\ born' \in Nat
        /\ UNCHANGED <<heap, leaked, misfreed>>
    BY <1>1, <1>2, <1>9 DEF DropBegins, Wrappers
  <2> HIDE DEF w
  <2> QED BY <1>3, <2>1, <2>2
<1>10. CASE DropElement(o)
  <2> DEFINE w == [own[o] EXCEPT !.next = @ + 1]
  <2>1. /\ w \in Wrappers /\ w.st # "none" /\ w.ptr = own[o].ptr /\ w.len = own[o].len
        /\ w.type = own[o].type /\ w.caching = own[o].caching
    BY <1>2, <1>10 DEF DropElement, Wrappers, States
  <2>2. /\ own' = [own EXCEPT ![o] = w] /\ own[o].st # "none" /\ born' \in Nat
        /\ UNCHANGED <<heap, leaked, misfreed>>
    BY <1>1, <1>2, <1>10 DEF DropElement, Wrappers
  <2> HIDE DEF w
  <2> QED BY <1>3, <2>1, <2>2
<1>11. ASSUME NEW i \in 0..(own[o].len - 1), InitSlot(o, i)
       PROVE  OwnerInv'
  <2> DEFINE w == [own[o] EXCEPT !.filled = @ \cup {i}]
  <2>1. /\ w \in Wrappers /\ w.st # "none" /\ w.ptr = own[o].ptr /\ w.len = own[o].len
        /\ w.type = own[o].type /\ w.caching = own[o].caching
    BY <1>2, <1>11 DEF InitSlot, Wrappers, States
  <2>2. /\ own' = [own EXCEPT ![o] = w] /\ own[o].st # "none" /\ born' \in Nat
        /\ UNCHANGED <<heap, leaked, misfreed>>
    BY <1>1, <1>2, <1>11 DEF InitSlot, Wrappers
  <2> HIDE DEF w
  <2> QED BY <1>3, <2>1, <2>2
<1>12. ASSUME NEW i \in 0..(own[o].len - 1), Assign(o, i)
       PROVE  OwnerInv'
  BY <1>1, <1>12, SameBlocks DEF Assign, OwnTypes, Owns
<1> QED BY <1>4, <1>5, <1>6, <1>7, <1>8, <1>9, <1>10, <1>11, <1>12

LEMMA LeakInv ==
  ASSUME OwnerInv, NEW o \in Owner, Leak(o)
  PROVE  OwnerInv'
BY BlockLeaves DEF Leak, Owns

LEMMA OwnerStepInv ==
  ASSUME OwnerInv, [Next]_vars
  PROVE  OwnerInv'
<1>1. CASE UNCHANGED vars
  BY <1>1, SameBlocks DEF vars, OwnerInv, OwnTypes, Owns
<1>2. CASE Next
  BY <1>2, NewInv, UseInv, LeakInv, FreeGivesBack DEF Next
<1> QED BY <1>1, <1>2

\* BlocksAccounted for any number of owners, lengths and placements of blocks, as long as
\* no byte count wraps: one owner for each block, elements inside it, and every block given
\* back as it was allocated, through constructors, conversions and destructors.
THEOREM BlocksStayAccounted == ASSUME NoWrap PROVE Spec => []BlocksAccounted
<1>1. OwnerInv => BlocksAccounted
  <2> SUFFICES ASSUME OwnerInv PROVE BlocksAccounted
    OBVIOUS
  <2>1. \A o \in Owning : o \in Owner /\ Owns(o) /\ KnowsBlock(own[o]) /\ own[o] \in Wrappers
    BY DEF Owning, Owns, OwnerInv, OwnTypes
  <2>2. ElementsInside
    <3> SUFFICES ASSUME NEW o \in Owning
                 PROVE  /\ own[o].ptr \in DOMAIN heap
                        /\ own[o].len * Size <= heap[own[o].ptr].bytes
      BY DEF ElementsInside
    <3>1. /\ own[o].ptr \in DOMAIN heap
          /\ heap[own[o].ptr].bytes = Bytes(own[o].type, own[o].len)
          /\ own[o].len \in Lengths(own[o].type) /\ own[o].type \in AllTypes
      <4>1. KnowsBlock(own[o]) /\ own[o].type \in AllTypes
        BY <2>1 DEF Wrappers
      <4>2. heap[own[o].ptr] = BlockOf(own[o])
        BY <4>1 DEF KnowsBlock
      <4>3. heap[own[o].ptr].bytes = Bytes(own[o].type, own[o].len)
        BY <4>2 DEF BlockOf
      <4> QED BY <4>1, <4>3 DEF KnowsBlock
    <3> QED BY <3>1, ElementsFit
  <2>3. \A b \in DOMAIN heap \ leaked : \E o \in Owning : own[o].ptr = b
    BY DEF OwnerInv, AllOwned, Owning, Owns
  <2>4. \A o \in Owning : own[o].ptr \notin leaked /\ \A q \in Owning \ {o} : own[o].ptr # own[q].ptr
    BY <2>1 DEF KnowsBlock, OwnerInv, OneOwner
  <2> QED BY <2>2, <2>3, <2>4 DEF BlocksAccounted, OwnerInv
<1>2. Init => OwnerInv
  BY OwnerInitInv
<1>3. OwnerInv /\ [Next]_vars => OwnerInv'
  BY OwnerStepInv
<1> QED BY <1>1, <1>2, <1>3, PTL DEF Spec

\* What a byte count that wraps does not spoil: a destructor computes the same count as the
\* constructor did, so no block is freed twice, freed wrongly, shared or lost without leak.
THEOREM WrappedBlocksComeBack == Spec => [](~misfreed /\ OneOwner /\ AllOwned)
<1>1. OwnerInv => ~misfreed /\ OneOwner /\ AllOwned
  BY DEF OwnerInv
<1> QED BY <1>1, OwnerInitInv, OwnerStepInv, PTL DEF Spec

(***************************************************************************)
(* What the values in memory and in the wrappers may be.  That only values *)
(* that were made are dropped or lost rests on memory holding no others.   *)
(***************************************************************************)
Holds(m, n) == \A a \in Addr : m[a][1] \in {Zero, Hole} \cup 1..n

Shaped(w, n) ==
  /\ w.next \in 0..w.len
  /\ w.filled \subseteq 0..(w.len - 1)
  /\ w.st \in {"cloning", "returning"} => w.val \in 1..n

ValueTypes ==
  /\ DOMAIN heap \subseteq Addr
  /\ \A b \in DOMAIN heap : heap[b].bytes \in 0..(Word - 1)
  /\ \A o \in Owner : Shaped(own[o], born)
  /\ born \in Value \cup {0}
  /\ dropped \subseteq 1..born /\ lost \subseteq 1..born
  /\ Holds(mem, born)

LEMMA Made ==
  ASSUME ValueTypes, NEW a
  PROVE  {ValueAt(mem, a)} \cap Value \subseteq 1..born
<1> SUFFICES ASSUME ValueAt(mem, a) \in Value PROVE ValueAt(mem, a) \in 1..born
  OBVIOUS
<1>1. ValueAt(mem, a) \in Nat /\ Zero \notin Nat /\ Hole \notin Nat
  BY PoolOwnerAssumption
<1>2. /\ ~ \A x \in Span(a, Size) : mem[x] = ZeroByte
      /\ \A x \in Span(a, Size) : mem[x] = <<mem[a][1], x - a>>
      /\ ValueAt(mem, a) = mem[a][1]
  BY <1>1 DEF ValueAt
<1>3. PICK x \in Span(a, Size) : mem[x] = <<mem[a][1], x - a>>
  BY <1>2
<1>4. x \in Addr /\ mem[x][1] = mem[a][1]
  BY <1>3 DEF Span
<1> QED BY <1>1, <1>2, <1>4 DEF ValueTypes, Holds

LEMMA StoredHolds ==
  ASSUME NEW m, NEW n \in Nat, Holds(m, n), NEW a
  PROVE  Holds(Stored(m, a, n + 1), n + 1)
BY DEF Holds, Stored

LEMMA ClearedHolds ==
  ASSUME NEW m, NEW n, Holds(m, n), NEW p, NEW k
  PROVE  Holds(Cleared(m, p, k), n)
BY DEF Holds, Cleared, ZeroByte

LEMMA AllocHolds ==
  ASSUME NEW n, Holds(mem, n), NEW type, NEW b, NEW k
  PROVE  Holds(ClearedByAlloc(type, b, k), n)
BY ClearedHolds DEF ClearedByAlloc

LEMMA HoldsMore ==
  ASSUME NEW m, NEW n \in Nat, Holds(m, n)
  PROVE  Holds(m, n + 1)
BY DEF Holds

\* A step that changes at most one wrapper and makes at most one value.
LEMMA OneWrapper ==
  ASSUME OwnTypes, ValueTypes, NEW o \in Owner, NEW w, own' = [own EXCEPT ![o] = w],
         born' = born \/ (born' = born + 1 /\ born' \in Value), Shaped(w, born')
  PROVE  /\ (\A q \in Owner : Shaped(own[q], born))'
         /\ (born \in Value \cup {0})' /\ 1..born \subseteq 1..born'
<1>1. born \in Nat /\ 1..born \subseteq 1..born'
  BY DEF OwnTypes
<1>2. (born \in Value \cup {0})'
  BY DEF ValueTypes
<1>3. ASSUME NEW q \in Owner PROVE Shaped(own'[q], born')
  <2>1. CASE q = o
    BY <2>1 DEF OwnTypes
  <2>2. CASE q # o
    BY <1>1, <2>2 DEF OwnTypes, ValueTypes, Shaped
  <2> QED BY <2>1, <2>2
<1> QED BY <1>1, <1>2, <1>3

LEMMA BytesInWord ==
  ASSUME NEW type, NEW n \in Nat
  PROVE  Bytes(type, n) \in 0..(Word - 1)
<1>1. Size \in Nat /\ Word \in Nat \ {0} /\ Size <= Word - 1 /\ n * Size \in Nat
  BY PoolOwnerAssumption
<1>2. (n * Size) % Word \in 0..(Word - 1)
  BY <1>1
<1> QED BY <1>1, <1>2 DEF Bytes

LEMMA NewTypes ==
  ASSUME OwnTypes, ValueTypes, NEW o \in Owner, NEW type \in Type, NEW b \in Base,
         NEW n \in Lengths(type), NEW c \in Cachings(type),
         \/ New(o, type, n, c, b) \/ NewSlice(o, type, n, c, b)
         \/ NewUninit(o, type, n, c, b) \/ NewZeroed(o, type, n, c, b)
  PROVE  ValueTypes'
<1>1. type \in AllTypes /\ b \in Addr /\ n \in Nat /\ born \in Nat
  BY PoolOwnerAssumption, LengthsNat DEF OwnTypes
<1>2. /\ heap' = Given(b, type, Bytes(type, n), c) /\ UNCHANGED <<dropped, lost>>
      /\ born' = born \/ (born' = born + 1 /\ born' \in Value)
  BY DEF New, NewSlice, NewUninit, NewZeroed, Allocated
<1>3. (DOMAIN heap \subseteq Addr /\ \A x \in DOMAIN heap : heap[x].bytes \in 0..(Word - 1))'
  BY <1>1, <1>2, BytesInWord DEF Given, ValueTypes
<1>4. \E w : own' = [own EXCEPT ![o] = w] /\ Shaped(w, born')
  <2>1. \A st : Wrapper(st, type, b, n, c).next = 0 /\ Wrapper(st, type, b, n, c).filled = {}
                /\ Wrapper(st, type, b, n, c).st = st /\ Wrapper(st, type, b, n, c).len = n
    BY DEF Wrapper, Nothing
  <2>2. \A st \in {"init", "uninit"} : Shaped(Wrapper(st, type, b, n, c), born')
    BY <1>1, <2>1 DEF Shaped
  <2>3. CASE NewSlice(o, type, n, c, b)
    <3> DEFINE w == [Wrapper("cloning", type, b, n, c) EXCEPT !.val = born + 1]
    <3>1. w.next = 0 /\ w.filled = {} /\ w.len = n /\ w.val = born + 1
      BY DEF Wrapper, Nothing
    <3>2. born' = born + 1 /\ own' = [own EXCEPT ![o] = w]
      BY <2>3 DEF NewSlice
    <3> HIDE DEF w
    <3>3. Shaped(w, born')
      BY <1>1, <3>1, <3>2 DEF Shaped
    <3> QED BY <3>2, <3>3
  <2>4. CASE ~NewSlice(o, type, n, c, b)
    <3>1. \E st \in {"init", "uninit"} : own' = [own EXCEPT ![o] = Wrapper(st, type, b, n, c)]
      BY <2>4 DEF New, NewUninit, NewZeroed
    <3> QED BY <2>2, <3>1
  <2> QED BY <2>3, <2>4
<1>5. Holds(mem', born')
  <2> DEFINE m == ClearedByAlloc(type, b, Bytes(type, n))
  <2>1. Holds(m, born) /\ Holds(m, born + 1)
    BY <1>1, AllocHolds, HoldsMore DEF ValueTypes
  <2>2. Holds(Stored(m, b, born + 1), born + 1) /\ Holds(Cleared(m, b, n * Size), born)
    <3> HIDE DEF m
    <3> QED BY <1>1, <2>1, StoredHolds, ClearedHolds
  <2> QED BY <2>1, <2>2 DEF New, NewSlice, NewUninit, NewZeroed
<1> QED BY <1>2, <1>3, <1>4, <1>5, OneWrapper DEF ValueTypes

LEMMA UseTypes ==
  ASSUME OwnTypes, ValueTypes, NEW o \in Owner,
         \/ NewFails(o) \/ Clone(o) \/ CloneEnds(o) \/ DropCloned(o)
         \/ AssumeInit(o) \/ DropBegins(o) \/ DropElement(o)
         \/ \E i \in 0..(own[o].len - 1) : InitSlot(o, i) \/ Assign(o, i)
  PROVE  ValueTypes'
<1>1. own \in [Owner -> Wrappers] /\ own[o] \in Wrappers /\ born \in Nat
  BY DEF OwnTypes
<1>2. /\ own[o].next \in Nat /\ own[o].len \in Nat /\ own[o].filled \subseteq Nat
      /\ Shaped(own[o], born)
  BY <1>1 DEF Wrappers, ValueTypes
<1>3. /\ UNCHANGED <<heap, lost>>
      /\ born' = born \/ (born' = born + 1 /\ born' \in Value)
  BY DEF NewFails, Clone, CloneEnds, DropCloned, AssumeInit, DropBegins, DropElement,
         InitSlot, Assign
<1>4. \E w : own' = [own EXCEPT ![o] = w] /\ Shaped(w, born')
  <2>1. CASE UNCHANGED own
    <3>1. own' = [own EXCEPT ![o] = own[o]] /\ Shaped(own[o], born')
      BY <1>1, <1>2, <1>3, <2>1 DEF Shaped
    <3> QED BY <3>1
  <2>2. CASE Clone(o)
    <3> DEFINE w == [own[o] EXCEPT !.next = @ + 1]
    <3>1. own' = [own EXCEPT ![o] = w] /\ own[o].next < own[o].len
      BY <2>2 DEF Clone
    <3>2. Shaped(w, born')
      BY <1>1, <1>2, <1>3, <3>1 DEF Shaped, Wrappers
    <3> QED BY <3>1, <3>2
  <2>3. CASE CloneEnds(o)
    <3> DEFINE w == [own[o] EXCEPT !.st = "returning", !.next = 0]
    <3>1. own' = [own EXCEPT ![o] = w] /\ own[o].st = "cloning" /\ UNCHANGED born
      BY <2>3 DEF CloneEnds
    <3>2. Shaped(w, born')
      BY <1>1, <1>2, <3>1 DEF Shaped, Wrappers
    <3> QED BY <3>1, <3>2
  <2>4. CASE DropCloned(o)
    <3> DEFINE w == [own[o] EXCEPT !.st = "init", !.val = 0]
    <3>1. own' = [own EXCEPT ![o] = w]
      BY <2>4 DEF DropCloned
    <3>2. Shaped(w, born')
      BY <1>1, <1>2 DEF Shaped, Wrappers
    <3> QED BY <3>1, <3>2
  <2>5. CASE AssumeInit(o)
    <3> DEFINE w == [own[o] EXCEPT !.st = "init", !.filled = {}]
    <3>1. own' = [own EXCEPT ![o] = w]
      BY <2>5 DEF AssumeInit
    <3>2. Shaped(w, born')
      BY <1>1, <1>2 DEF Shaped, Wrappers
    <3> QED BY <3>1, <3>2
  <2>6. CASE DropBegins(o)
    <3> DEFINE w == [own[o] EXCEPT !.st = "dropping"]
    <3>1. own' = [own EXCEPT ![o] = w]
      BY <2>6 DEF DropBegins
    <3>2. Shaped(w, born')
      BY <1>1, <1>2 DEF Shaped, Wrappers
    <3> QED BY <3>1, <3>2
  <2>7. CASE DropElement(o)
    <3> DEFINE w == [own[o] EXCEPT !.next = @ + 1]
    <3>1. own' = [own EXCEPT ![o] = w] /\ own[o].next < own[o].len /\ own[o].st = "dropping"
      BY <2>7 DEF DropElement
    <3>2. Shaped(w, born')
      BY <1>1, <1>2, <3>1 DEF Shaped, Wrappers
    <3> QED BY <3>1, <3>2
  <2>8. ASSUME NEW i \in 0..(own[o].len - 1), InitSlot(o, i)
        PROVE  \E w : own' = [own EXCEPT ![o] = w] /\ Shaped(w, born')
    <3> DEFINE w == [own[o] EXCEPT !.filled = @ \cup {i}]
    <3>1. own' = [own EXCEPT ![o] = w] /\ own[o].st = "uninit"
      BY <2>8 DEF InitSlot
    <3>2. Shaped(w, born')
      BY <1>1, <1>2, <3>1 DEF Shaped, Wrappers
    <3> QED BY <3>1, <3>2
  <2>9. NewFails(o) \/ (\E i \in 0..(own[o].len - 1) : Assign(o, i)) => UNCHANGED own
    BY DEF NewFails, Assign
  <2> QED BY <2>1, <2>2, <2>3, <2>4, <2>5, <2>6, <2>7, <2>8, <2>9
<1>5. Holds(mem', born')
  <2>1. \A a : Holds(Stored(mem, a, born + 1), born + 1)
    BY <1>1, StoredHolds DEF ValueTypes
  <2>2. Holds(mem, born) /\ Holds(mem, born + 1)
    BY <1>1, HoldsMore DEF ValueTypes
  <2> QED
    BY <2>1, <2>2 DEF NewFails, Clone, CloneEnds, DropCloned, AssumeInit, DropBegins,
       DropElement, InitSlot, Assign
<1>6. dropped' \subseteq 1..born'
  <2>1. dropped \subseteq 1..born /\ 1..born \subseteq 1..born'
    BY <1>1, <1>3 DEF ValueTypes
  <2>2. \A a : {ValueAt(mem, a)} \cap Value \subseteq 1..born
    BY Made
  <2>3. CASE NewFails(o)
    BY <1>1, <2>1, <2>3 DEF NewFails
  <2>4. CASE DropCloned(o)
    BY <1>2, <2>1, <2>4 DEF DropCloned, Shaped
  <2>5. CASE DropElement(o)
    BY <2>1, <2>2, <2>5 DEF DropElement
  <2>6. ASSUME NEW i \in 0..(own[o].len - 1), Assign(o, i) PROVE dropped' \subseteq 1..born'
    BY <2>1, <2>2, <2>6 DEF Assign
  <2> QED
    BY <2>1, <2>3, <2>4, <2>5, <2>6 DEF Clone, CloneEnds, AssumeInit, DropBegins, InitSlot
<1> QED BY <1>3, <1>4, <1>5, <1>6, OneWrapper DEF ValueTypes

LEMMA EndTypes ==
  ASSUME OwnTypes, ValueTypes, NEW o \in Owner, Leak(o) \/ Free(o)
  PROVE  ValueTypes'
<1>1. /\ own' = [own EXCEPT ![o] = Nothing] /\ UNCHANGED <<born, dropped>>
      /\ lost' = lost \cup (Contents(o) \cap Value)
  BY DEF Leak, Free
<1>2. Shaped(Nothing, born')
  BY DEF Shaped, Nothing
<1>3. lost' \subseteq 1..born
  <2>1. \A x \in Contents(o) : \E a : x = ValueAt(mem, a)
    BY DEF Contents
  <2> QED BY <1>1, <2>1, Made DEF ValueTypes
<1>4. (DOMAIN heap \subseteq Addr /\ \A b \in DOMAIN heap : heap[b].bytes \in 0..(Word - 1))'
  BY DEF Leak, Free, ValueTypes
<1>5. Holds(mem', born)
  BY DEF Leak, Free, ValueTypes, Holds, Overwritten, OldByte
<1> QED BY <1>1, <1>2, <1>3, <1>4, <1>5, OneWrapper DEF ValueTypes

\* Only values that were made are dropped or lost, and the positions that constructors and
\* destructors have come to lie within their wrapper, wrapped byte counts or not.
THEOREM OwnerTypes == Spec => []TypeOK
<1>1. Init => ValueTypes
  BY PoolOwnerAssumption DEF Init, ValueTypes, Nothing, Shaped, Holds, OldByte
<1>2. OwnerInv /\ ValueTypes /\ [Next]_vars => ValueTypes'
  <2> SUFFICES ASSUME OwnTypes, ValueTypes, [Next]_vars PROVE ValueTypes'
    BY DEF OwnerInv
  <2>1. CASE UNCHANGED vars
    BY <2>1 DEF vars, ValueTypes
  <2>2. CASE Next
    BY <2>2, NewTypes, UseTypes, EndTypes DEF Next
  <2> QED BY <2>1, <2>2
<1>3. OwnerInv /\ ValueTypes => TypeOK
  BY DEF OwnerInv, OwnTypes, HeapTypes, Wrappers, ValueTypes, Shaped, TypeOK
<1> QED BY <1>1, <1>2, <1>3, OwnerInitInv, OwnerStepInv, PTL DEF Spec

(***************************************************************************)
(* The wrappers implement boxes of values.  A box shares nothing with      *)
(* another; the wrappers' values are bytes of one memory.  That a step of  *)
(* one owner leaves the boxes of the others alone rests on blocks being    *)
(* disjoint and elements lying in them; that a value is in no two boxes,   *)
(* on what a constructor has cloned so far, and the value it clones, being *)
(* nowhere else.                                                           *)
(***************************************************************************)
Reads(w, m, i) == ValueAt(m, Element(w.ptr, i))

Building(w) == w.st \in {"cloning", "returning"}

\* What a constructor keeps: the clones it made, and last the value it was given.
Kept(w, m, i) == IF i = w.next THEN w.val ELSE Reads(w, m, i)

\* BoxOf, as a function of a wrapper and the memory.
Slot(w, m, i) ==
  IF w.st = "uninit" /\ i - 1 \notin w.filled THEN Hole ELSE Reads(w, m, w.next + i - 1)

BoxIn(w, m) ==
  IF w.st \in {"none", "cloning"} THEN [kind |-> "none", vals |-> <<>>]
  ELSE [kind |-> IF w.st = "returning" THEN "init" ELSE w.st,
        vals |-> [i \in 1..(w.len - w.next) |-> Slot(w, m, i)]]

HeldIn(w, m) == {BoxIn(w, m).vals[i] : i \in DOMAIN BoxIn(w, m).vals} \cap Value

HeldNow == UNION {HeldIn(own[o], mem) : o \in Owner}
Used == HeldNow \cup dropped \cup lost

BlocksApart ==
  /\ \A b \in DOMAIN heap : b..(b + heap[b].bytes - 1) \subseteq Addr
  /\ \A b, c \in DOMAIN heap :
       Extent(b, heap[b].bytes) \cap Extent(c, heap[c].bytes) # {} => b = c

Staged(w, m) ==
  /\ w.st \in {"returning", "uninit", "init"} => w.next = 0
  /\ w.st = "uninit" => \A i \in w.filled : Reads(w, m, i) \in Value

KeptApart ==
  /\ \A o \in Owner : Building(own[o]) =>
       \A i \in 0..own[o].next : Kept(own[o], mem, i) \in Value \ Used
  /\ \A o, q \in Owner : Building(own[o]) /\ Building(own[q]) =>
       \A i \in 0..own[o].next, j \in 0..own[q].next :
         Kept(own[o], mem, i) = Kept(own[q], mem, j) => o = q /\ i = j

BoxInv == OwnerInv /\ ValueTypes /\ BlocksApart /\ KeptApart /\ (\A o \in Owner : Staged(own[o], mem))

Ground(o) == Extent(own[o].ptr, heap[own[o].ptr].bytes)

LEMMA Strides ==
  ASSUME NEW i \in Nat, NEW j \in Nat, i < j
  PROVE  i * Size \in Nat /\ j * Size \in Nat /\ i * Size + Size <= j * Size
<1>1. Size \in Nat
  BY PoolOwnerAssumption
<1>2. PICK k \in Nat : j = (i + 1) + k
  <2>1. j - (i + 1) \in Nat /\ j = (i + 1) + (j - (i + 1))
    OBVIOUS
  <2> QED BY <2>1
<1>3. i * Size \in Nat /\ k * Size \in Nat
  BY <1>1
<1>4. j * Size = i * Size + Size + k * Size
  BY <1>1, <1>2
<1> QED BY <1>1, <1>3, <1>4

\* Elements lie in the first n * Size bytes, apart from each other.
LEMMA ElementWithin ==
  ASSUME NEW p \in Nat, NEW n \in Nat, NEW i \in 0..(n - 1)
  PROVE  /\ Span(Element(p, i), Size) \subseteq Span(p, n * Size)
         /\ Element(p, i) \in p..(p + n * Size - 1)
<1>1. i \in Nat /\ i < n /\ Size \in Nat \ {0}
  BY PoolOwnerAssumption
<1>2. i * Size \in Nat /\ n * Size \in Nat /\ i * Size + Size <= n * Size
  BY <1>1, Strides
<1>3. Addr \subseteq Nat
  BY PoolOwnerAssumption
<1> DEFINE e == i * Size  k == n * Size
<1>4. e \in Nat /\ k \in Nat /\ e + Size <= k /\ Element(p, i) = p + e
  BY <1>2 DEF Element
<1> HIDE DEF e, k
<1>5. p + e \in p..(p + k - 1)
  BY <1>1, <1>4
<1>6. Span(p + e, Size) \subseteq Span(p, k)
  <2> SUFFICES ASSUME NEW x \in Addr, p + e <= x, x < p + e + Size
               PROVE  p <= x /\ x < p + k
    BY DEF Span
  <2> QED BY <1>1, <1>3, <1>4
<1> QED BY <1>4, <1>5, <1>6 DEF k

LEMMA ElementsApart ==
  ASSUME NEW p \in Nat, NEW i \in Nat, NEW j \in Nat, i # j
  PROVE  Span(Element(p, i), Size) \cap Span(Element(p, j), Size) = {}
<1>1. Addr \subseteq Nat /\ Size \in Nat
  BY PoolOwnerAssumption
<1>2. \A k, l \in Nat : k < l => Span(p + k * Size, Size) \cap Span(p + l * Size, Size) = {}
  <2> SUFFICES ASSUME NEW k \in Nat, NEW l \in Nat, k < l
               PROVE  Span(p + k * Size, Size) \cap Span(p + l * Size, Size) = {}
    OBVIOUS
  <2> DEFINE e == k * Size  f == l * Size
  <2>1. e \in Nat /\ f \in Nat /\ e + Size <= f
    BY Strides
  <2> HIDE DEF e, f
  <2>2. Span(p + e, Size) \cap Span(p + f, Size) = {}
    <3> SUFFICES ASSUME NEW x \in Addr, x < p + e + Size, p + f <= x
                 PROVE  FALSE
      BY DEF Span
    <3> QED BY <1>1, <2>1
  <2> QED BY <2>2 DEF e, f
<1>3. i < j \/ j < i
  OBVIOUS
<1> QED BY <1>2, <1>3 DEF Element

LEMMA StartInSpan ==
  ASSUME NEW a \in Addr, NEW n \in Nat, n # 0
  PROVE  a \in Span(a, n)
<1>1. a \in Nat
  BY PoolOwnerAssumption
<1> QED BY <1>1 DEF Span

\* What an element reads as rests on its bytes.
LEMMA SameBytes ==
  ASSUME NEW m, NEW m2, NEW a \in Addr, \A x \in Span(a, Size) : m2[x] = m[x]
  PROVE  ValueAt(m2, a) = ValueAt(m, a)
<1>1. a \in Span(a, Size)
  BY StartInSpan, PoolOwnerAssumption
<1>2. m2[a] = m[a]
  BY <1>1
<1> QED BY <1>2 DEF ValueAt

LEMMA StoredReads ==
  ASSUME NEW m, NEW a \in Addr, NEW v \in Value
  PROVE  ValueAt(Stored(m, a, v), a) = v
<1> DEFINE s == Stored(m, a, v)
<1>1. a \in Span(a, Size) /\ a \in Nat /\ Span(a, Size) \subseteq Addr
  BY StartInSpan, PoolOwnerAssumption DEF Span
<1>2. \A x \in Span(a, Size) : s[x] = <<v, x - a>>
  BY <1>1 DEF Stored
<1>3. s[a] = <<v, 0>> /\ s[a][1] = v
  BY <1>1, <1>2
<1>4. v # Zero
  BY PoolOwnerAssumption
<1>5. s[a] # ZeroByte
  BY <1>3, <1>4 DEF ZeroByte
<1> HIDE DEF s
<1>6. ~ \A x \in Span(a, Size) : s[x] = ZeroByte
  BY <1>1, <1>5
<1>7. ValueAt(s, a) = v
  BY <1>2, <1>3, <1>6 DEF ValueAt
<1> QED BY <1>7 DEF s

LEMMA StoredElsewhere ==
  ASSUME NEW m, NEW a, NEW v, NEW x \in Addr, x \notin Span(a, Size)
  PROVE  Stored(m, a, v)[x] = m[x]
BY DEF Stored

LEMMA ClearedReads ==
  ASSUME NEW m, NEW p, NEW n, NEW a \in Addr, Span(a, Size) \subseteq Span(p, n)
  PROVE  ValueAt(Cleared(m, p, n), a) = Zero
<1>1. \A x \in Span(a, Size) : x \in Addr /\ Cleared(m, p, n)[x] = ZeroByte
  BY DEF Cleared, Span
<1> QED BY <1>1 DEF ValueAt

LEMMA ClearedElsewhere ==
  ASSUME NEW m, NEW p, NEW n, NEW x \in Addr, x \notin Span(p, n)
  PROVE  Cleared(m, p, n)[x] = m[x]
BY DEF Cleared

LEMMA SpanGrows ==
  ASSUME NEW p \in Nat, NEW k \in Nat, NEW n \in Nat, k <= n
  PROVE  Span(p, k) \subseteq Extent(p, n)
<1>1. Addr \subseteq Nat
  BY PoolOwnerAssumption
<1>2. Span(p, k) \subseteq Span(p, n)
  <2> SUFFICES ASSUME NEW x \in Addr, p <= x, x < p + k
               PROVE  x < p + n
    BY DEF Span
  <2> QED BY <1>1
<1>3. CASE n = 0
  <2> SUFFICES ASSUME NEW x \in Addr, p <= x, x < p + k
               PROVE  FALSE
    BY DEF Span
  <2> QED BY <1>1, <1>3
<1> QED BY <1>2, <1>3 DEF Extent

\* The elements of a wrapper lie in its block.
LEMMA OnGround ==
  ASSUME NoWrap, OwnerInv, BlocksApart, NEW o \in Owner, Owns(o), NEW i \in 0..(own[o].len - 1)
  PROVE  /\ Element(own[o].ptr, i) \in Addr
         /\ Span(Element(own[o].ptr, i), Size) \subseteq Ground(o)
<1> DEFINE p == own[o].ptr  n == own[o].len  k == heap[own[o].ptr].bytes
<1>1. own[o] \in Wrappers /\ KnowsBlock(own[o])
  BY DEF OwnerInv, OwnTypes
<1>2. /\ p \in DOMAIN heap /\ p \in Nat /\ n \in Nat /\ k \in Nat
      /\ heap[p] = BlockOf(own[o]) /\ own[o].type \in AllTypes /\ n \in Lengths(own[o].type)
  BY <1>1 DEF KnowsBlock, Wrappers, OwnerInv, HeapTypes
<1>3. k = Bytes(own[o].type, n)
  BY <1>2 DEF BlockOf
<1>4. n * Size <= k
  BY <1>2, <1>3, ElementsFit
<1>5. Size \in Nat /\ n * Size \in Nat
  BY <1>2, PoolOwnerAssumption
<1>6. p..(p + k - 1) \subseteq Addr
  BY <1>2 DEF BlocksApart
<1>7. Ground(o) = Extent(p, k)
  BY DEF Ground
<1>8. /\ Span(Element(p, i), Size) \subseteq Span(p, n * Size)
      /\ Element(p, i) \in p..(p + n * Size - 1)
  BY <1>2, ElementWithin
<1> HIDE DEF p, n, k
<1>9. Span(p, n * Size) \subseteq Extent(p, k) /\ p..(p + n * Size - 1) \subseteq p..(p + k - 1)
  BY <1>2, <1>4, <1>5, SpanGrows
<1> QED BY <1>6, <1>7, <1>8, <1>9 DEF p, n

LEMMA GroundsApart ==
  ASSUME OwnerInv, BlocksApart, NEW o \in Owner, NEW q \in Owner, Owns(o), Owns(q), o # q
  PROVE  Ground(o) \cap Ground(q) = {}
<1>1. KnowsBlock(own[o]) /\ KnowsBlock(own[q]) /\ own[o].ptr # own[q].ptr
  BY DEF OwnerInv, OneOwner
<1> QED BY <1>1 DEF KnowsBlock, BlocksApart, Ground

LEMMA BoxNow ==
  ASSUME NEW o
  PROVE  BoxOf(o) = BoxIn(own[o], mem)
BY DEF BoxOf, BoxIn, Slot, Reads

LEMMA BoxThen ==
  ASSUME NEW o
  PROVE  BoxOf(o)' = BoxIn(own'[o], mem')
BY DEF BoxOf, BoxIn, Slot, Reads

\* A box in which the same is read is the same.
LEMMA SameBox ==
  ASSUME NEW w \in Wrappers, NEW m, NEW m2, w.next \in 0..w.len,
         w.st # "none" => \A i \in 0..(w.len - 1) : Reads(w, m2, i) = Reads(w, m, i)
  PROVE  BoxIn(w, m2) = BoxIn(w, m)
<1>1. CASE w.st \in {"none", "cloning"}
  BY <1>1 DEF BoxIn
<1>2. CASE w.st \notin {"none", "cloning"}
  <2>1. w.len \in Nat /\ w.next \in Nat
    BY DEF Wrappers
  <2>2. ASSUME NEW i \in 1..(w.len - w.next) PROVE Slot(w, m2, i) = Slot(w, m, i)
    <3>1. w.next + i - 1 \in 0..(w.len - 1)
      BY <2>1
    <3> QED BY <1>2, <3>1 DEF Slot
  <2> QED BY <1>2, <2>2 DEF BoxIn
<1> QED BY <1>1, <1>2

\* What a step of owner o leaves the others.
Others(o) == \A q \in Owner \ {o} :
  /\ own'[q] = own[q]
  /\ Owns(q) => \A i \in 0..(own[q].len - 1) : Reads(own[q], mem', i) = Reads(own[q], mem, i)
  /\ BoxIn(own'[q], mem') = BoxIn(own[q], mem)

WritesOnly(S) == \A x \in Addr : x \notin S => mem'[x] = mem[x]
OffLimits(o, S) == \A q \in Owner \ {o} : Owns(q) => Ground(q) \cap S = {}

\* A step that writes no bytes of the others' blocks leaves their boxes alone.
LEMMA OthersStay ==
  ASSUME NoWrap, BoxInv, NEW o \in Owner, NEW w, own' = [own EXCEPT ![o] = w],
         NEW S, WritesOnly(S), OffLimits(o, S)
  PROVE  Others(o)
<1> SUFFICES ASSUME NEW q \in Owner \ {o}
             PROVE  /\ own'[q] = own[q]
                    /\ Owns(q) => \A i \in 0..(own[q].len - 1) :
                                    Reads(own[q], mem', i) = Reads(own[q], mem, i)
                    /\ BoxIn(own'[q], mem') = BoxIn(own[q], mem)
  BY DEF Others
<1>1. own'[q] = own[q] /\ own[q] \in Wrappers /\ own[q].next \in 0..own[q].len
  BY DEF BoxInv, OwnerInv, OwnTypes, ValueTypes, Shaped
<1>2. ASSUME Owns(q), NEW i \in 0..(own[q].len - 1)
      PROVE  Reads(own[q], mem', i) = Reads(own[q], mem, i)
  <2> DEFINE a == Element(own[q].ptr, i)
  <2>1. a \in Addr /\ Span(a, Size) \subseteq Ground(q)
    BY <1>2, OnGround DEF BoxInv
  <2>2. \A x \in Span(a, Size) : x \in Addr /\ x \notin S
    BY <1>2, <2>1 DEF Span, OffLimits
  <2>3. \A x \in Span(a, Size) : mem'[x] = mem[x]
    BY <2>2 DEF WritesOnly
  <2>4. ValueAt(mem', a) = ValueAt(mem, a)
    <3> HIDE DEF a
    <3> QED BY <2>1, <2>3, SameBytes
  <2> QED BY <2>4 DEF Reads
<1>3. BoxIn(own[q], mem') = BoxIn(own[q], mem)
  BY <1>1, <1>2, SameBox DEF Owns
<1> QED BY <1>1, <1>2, <1>3

\* A step that writes into its own block only.
LEMMA OwnGroundOnly ==
  ASSUME NoWrap, BoxInv, NEW o \in Owner, Owns(o), NEW w, own' = [own EXCEPT ![o] = w],
         WritesOnly(Ground(o))
  PROVE  Others(o)
<1>1. OffLimits(o, Ground(o))
  BY GroundsApart DEF BoxInv, OffLimits
<1> QED BY <1>1, OthersStay

LEMMA BoxesBecome ==
  ASSUME NEW o \in Owner, Others(o), NEW b, BoxIn(own'[o], mem') = b
  PROVE  AllBoxes' = [AllBoxes EXCEPT ![o] = b]
<1>1. AllBoxes' = [q \in Owner |-> BoxIn(own'[q], mem')]
  BY BoxThen DEF AllBoxes
<1>2. AllBoxes = [q \in Owner |-> BoxIn(own[q], mem)]
  BY BoxNow DEF AllBoxes
<1>3. \A q \in Owner \ {o} : BoxIn(own'[q], mem') = BoxIn(own[q], mem)
  BY DEF Others
<1> QED BY <1>1, <1>2, <1>3

LEMMA SpareIs == Boxes!Spare = Value \ Used
<1>1. \A o \in Owner : Boxes!In(AllBoxes[o]) = HeldIn(own[o], mem)
  BY BoxNow DEF AllBoxes, Boxes!In, HeldIn
<1>2. Boxes!Held = HeldNow
  BY <1>1 DEF Boxes!Held, HeldNow
<1> QED BY <1>2 DEF Boxes!Spare, Used

LEMMA NoBoxIs == [kind |-> "none", vals |-> <<>>] = Boxes!NoBox
BY DEF Boxes!NoBox

BoxStep == [Boxes!BoxNext]_(Boxes!boxVars)

\* The steps of boxes, told by what becomes of the box of o.
LEMMA AbsNew ==
  ASSUME NEW o \in Owner, NEW n \in 0..Longest, NEW s \in [1..n -> Value \ Used],
         \A i, j \in 1..n : s[i] = s[j] => i = j,
         AllBoxes[o] = Boxes!NoBox,
         AllBoxes' = [AllBoxes EXCEPT ![o] = [kind |-> "init", vals |-> s]],
         UNCHANGED <<dropped, lost>>
  PROVE  BoxStep
<1>1. Boxes!New(o)
  BY SpareIs DEF Boxes!New, Boxes!Becomes
<1> QED BY <1>1 DEF BoxStep, Boxes!BoxNext

\* What new_zeroed and new_uninit make boxes of.
Blank(kind, x) == \/ kind = "init" /\ x = Zero
                  \/ kind = "uninit" /\ x = Hole

LEMMA AbsNewOf ==
  ASSUME NEW o \in Owner, NEW n \in 0..Longest, NEW kind, NEW x,
         Blank(kind, x),
         NEW b, b = [kind |-> kind, vals |-> [i \in 1..n |-> x]],
         AllBoxes[o] = Boxes!NoBox, AllBoxes' = [AllBoxes EXCEPT ![o] = b],
         UNCHANGED <<dropped, lost>>
  PROVE  BoxStep
<1>1. Boxes!NewOf(o, kind, x)
  BY DEF Boxes!NewOf, Boxes!Becomes
<1> QED BY <1>1 DEF BoxStep, Boxes!BoxNext, Blank

LEMMA AbsDropSpare ==
  ASSUME NEW v \in Value \ Used, dropped' = dropped \cup {v}, AllBoxes' = AllBoxes, lost' = lost
  PROVE  BoxStep
<1>1. Boxes!DropSpare
  BY SpareIs DEF Boxes!DropSpare
<1> QED BY <1>1 DEF BoxStep, Boxes!BoxNext

BoxWith(kind, s) == [kind |-> kind, vals |-> s]

LEMMA BoxParts ==
  ASSUME NEW k, NEW s
  PROVE  BoxWith(k, s).kind = k /\ BoxWith(k, s).vals = s
BY DEF BoxWith

LEMMA AbsFill ==
  ASSUME NEW o \in Owner, NEW v \in Value \ Used, NEW s, NEW i \in DOMAIN s, s[i] = Hole,
         AllBoxes[o] = BoxWith("uninit", s),
         AllBoxes' = [AllBoxes EXCEPT ![o] = BoxWith("uninit", [s EXCEPT ![i] = v])],
         UNCHANGED <<dropped, lost>>
  PROVE  BoxStep
<1>1. AllBoxes[o].kind = "uninit" /\ AllBoxes[o].vals = s
  BY BoxParts
<1>2. [BoxWith("uninit", s) EXCEPT !.vals[i] = v] = BoxWith("uninit", [s EXCEPT ![i] = v])
  BY DEF BoxWith
<1>3. Boxes!Becomes(o, [AllBoxes[o] EXCEPT !.vals[i] = v])
  BY <1>2 DEF Boxes!Becomes
<1>4. Boxes!Fill(o, i)
  BY <1>1, <1>3, SpareIs DEF Boxes!Fill
<1> QED BY <1>1, <1>4 DEF BoxStep, Boxes!BoxNext

LEMMA AbsAssign ==
  ASSUME NEW o \in Owner, NEW v \in Value \ Used, NEW s, NEW i \in DOMAIN s,
         AllBoxes[o] = BoxWith("init", s),
         AllBoxes' = [AllBoxes EXCEPT ![o] = BoxWith("init", [s EXCEPT ![i] = v])],
         dropped' = dropped \cup ({s[i]} \cap Value), lost' = lost
  PROVE  BoxStep
<1>1. AllBoxes[o].kind = "init" /\ AllBoxes[o].vals = s
  BY BoxParts
<1>2. [BoxWith("init", s) EXCEPT !.vals[i] = v] = BoxWith("init", [s EXCEPT ![i] = v])
  BY DEF BoxWith
<1>3. Boxes!Becomes(o, [AllBoxes[o] EXCEPT !.vals[i] = v])
  BY <1>2 DEF Boxes!Becomes
<1>4. Boxes!Assign(o, i)
  BY <1>1, <1>3, SpareIs DEF Boxes!Assign
<1> QED BY <1>1, <1>4 DEF BoxStep, Boxes!BoxNext

LEMMA AbsAssumeInit ==
  ASSUME NEW o \in Owner, NEW s, \A i \in DOMAIN s : s[i] # Hole,
         AllBoxes[o] = BoxWith("uninit", s),
         AllBoxes' = [AllBoxes EXCEPT ![o] = BoxWith("init", s)], UNCHANGED <<dropped, lost>>
  PROVE  BoxStep
<1>1. AllBoxes[o].kind = "uninit" /\ AllBoxes[o].vals = s
  BY BoxParts
<1>2. [BoxWith("uninit", s) EXCEPT !.kind = "init"] = BoxWith("init", s)
  BY DEF BoxWith
<1>3. Boxes!Becomes(o, [AllBoxes[o] EXCEPT !.kind = "init"])
  BY <1>2 DEF Boxes!Becomes
<1>4. Boxes!AssumeInit(o)
  BY <1>1, <1>3 DEF Boxes!AssumeInit
<1> QED BY <1>4 DEF BoxStep, Boxes!BoxNext

LEMMA AbsForget ==
  ASSUME NEW o \in Owner, AllBoxes[o].kind \in {"init", "uninit"},
         AllBoxes' = [AllBoxes EXCEPT ![o] = Boxes!NoBox],
         lost' = lost \cup HeldIn(own[o], mem), dropped' = dropped
  PROVE  BoxStep
<1>1. Boxes!In(AllBoxes[o]) = HeldIn(own[o], mem)
  BY BoxNow DEF AllBoxes, Boxes!In, HeldIn
<1>2. Boxes!Forget(o)
  BY <1>1 DEF Boxes!Forget, Boxes!Becomes
<1> QED BY <1>2 DEF BoxStep, Boxes!BoxNext

LEMMA AbsDropBegins ==
  ASSUME NEW o \in Owner, NEW s, AllBoxes[o] = BoxWith("init", s),
         AllBoxes' = [AllBoxes EXCEPT ![o] = BoxWith("dropping", s)], UNCHANGED <<dropped, lost>>
  PROVE  BoxStep
<1>1. [BoxWith("init", s) EXCEPT !.kind = "dropping"] = BoxWith("dropping", s)
  BY DEF BoxWith
<1>2. Boxes!Becomes(o, [AllBoxes[o] EXCEPT !.kind = "dropping"])
  BY <1>1 DEF Boxes!Becomes
<1>3. Boxes!DropBegins(o)
  BY <1>2, BoxParts DEF Boxes!DropBegins
<1> QED BY <1>3 DEF BoxStep, Boxes!BoxNext

LEMMA AbsDropElement ==
  ASSUME NEW o \in Owner, NEW s, s # <<>>, AllBoxes[o] = BoxWith("dropping", s),
         AllBoxes' = [AllBoxes EXCEPT ![o] = BoxWith("dropping", Tail(s))],
         dropped' = dropped \cup ({Head(s)} \cap Value), lost' = lost
  PROVE  BoxStep
<1>1. AllBoxes[o].kind = "dropping" /\ AllBoxes[o].vals = s
  BY BoxParts
<1>2. [BoxWith("dropping", s) EXCEPT !.vals = Tail(@)] = BoxWith("dropping", Tail(s))
  <2> DEFINE t == Tail(BoxWith("dropping", s).vals)
  <2>1. t = Tail(s)
    BY BoxParts
  <2> HIDE DEF t
  <2>2. [BoxWith("dropping", s) EXCEPT !.vals = t] = BoxWith("dropping", t)
    BY DEF BoxWith
  <2> QED BY <2>1, <2>2 DEF t
<1>3. Boxes!Becomes(o, [AllBoxes[o] EXCEPT !.vals = Tail(@)])
  BY <1>2 DEF Boxes!Becomes
<1>4. Boxes!DropElement(o)
  BY <1>1, <1>3 DEF Boxes!DropElement
<1> QED BY <1>4 DEF BoxStep, Boxes!BoxNext

LEMMA AbsDropEnds ==
  ASSUME NEW o \in Owner, AllBoxes[o] = [kind |-> "dropping", vals |-> <<>>],
         AllBoxes' = [AllBoxes EXCEPT ![o] = Boxes!NoBox], UNCHANGED <<dropped, lost>>
  PROVE  BoxStep
<1>1. Boxes!DropEnds(o)
  BY DEF Boxes!DropEnds, Boxes!Becomes
<1> QED BY <1>1 DEF BoxStep, Boxes!BoxNext

LEMMA AbsStutter ==
  ASSUME AllBoxes' = AllBoxes, UNCHANGED <<dropped, lost>>
  PROVE  BoxStep
BY DEF BoxStep, Boxes!boxVars

LEMMA EmptyBox ==
  ASSUME NEW w, NEW m, w.st \in {"none", "cloning"}
  PROVE  BoxIn(w, m) = Boxes!NoBox /\ HeldIn(w, m) = {}
<1>1. BoxIn(w, m) = [kind |-> "none", vals |-> <<>>]
  BY DEF BoxIn
<1> QED BY <1>1 DEF HeldIn, Boxes!NoBox

LEMMA FullBox ==
  ASSUME NEW w, NEW m, w.st \notin {"none", "cloning"}
  PROVE  /\ BoxIn(w, m) = [kind |-> IF w.st = "returning" THEN "init" ELSE w.st,
                           vals |-> [i \in 1..(w.len - w.next) |-> Slot(w, m, i)]]
         /\ HeldIn(w, m) = {Slot(w, m, i) : i \in 1..(w.len - w.next)} \cap Value
<1>1. BoxIn(w, m) = [kind |-> IF w.st = "returning" THEN "init" ELSE w.st,
                     vals |-> [i \in 1..(w.len - w.next) |-> Slot(w, m, i)]]
  BY DEF BoxIn
<1> QED BY <1>1 DEF HeldIn

\* All values that are kept, held, dropped or lost were made.
LEMMA ReadsMade ==
  ASSUME ValueTypes, NEW w, NEW i, Reads(w, mem, i) \in Value
  PROVE  Reads(w, mem, i) \in 1..born
BY Made DEF Reads

LEMMA HeldMade ==
  ASSUME ValueTypes, NEW w
  PROVE  HeldIn(w, mem) \subseteq 1..born
<1>1. CASE w.st \in {"none", "cloning"}
  BY <1>1, EmptyBox
<1>2. CASE w.st \notin {"none", "cloning"}
  <2> SUFFICES ASSUME NEW i \in 1..(w.len - w.next), Slot(w, mem, i) \in Value
               PROVE  Slot(w, mem, i) \in 1..born
    BY <1>2, FullBox
  <2>1. Hole \notin Value
    BY PoolOwnerAssumption
  <2> QED BY <2>1, ReadsMade DEF Slot
<1> QED BY <1>1, <1>2

LEMMA UsedMade ==
  ASSUME ValueTypes
  PROVE  Used \subseteq 1..born
BY HeldMade DEF Used, HeldNow, ValueTypes

LEMMA KeptMade ==
  ASSUME ValueTypes, KeptApart, NEW o \in Owner, Building(own[o]), NEW i \in 0..own[o].next
  PROVE  Kept(own[o], mem, i) \in 1..born
<1>1. Kept(own[o], mem, i) \in Value /\ own[o].val \in 1..born
  BY DEF KeptApart, ValueTypes, Shaped, Building
<1> QED BY <1>1, ReadsMade DEF Kept

LEMMA BornNew ==
  ASSUME BoxInv
  PROVE  born + 1 \notin Used /\ born + 1 \notin 1..born
<1>1. born \in Nat
  BY DEF BoxInv, OwnerInv, OwnTypes
<1> QED BY <1>1, UsedMade DEF BoxInv

LEMMA UsedThen ==
  ASSUME NEW o \in Owner, Others(o)
  PROVE  Used' \subseteq Used \cup HeldIn(own'[o], mem') \cup dropped' \cup lost'
<1>1. HeldNow' = UNION {HeldIn(own'[q], mem') : q \in Owner}
  BY DEF HeldNow
<1>2. \A q \in Owner \ {o} : HeldIn(own'[q], mem') = HeldIn(own[q], mem)
  BY DEF Others, HeldIn
<1>3. HeldNow' \subseteq HeldNow \cup HeldIn(own'[o], mem')
  <2> SUFFICES ASSUME NEW q \in Owner, NEW v \in HeldIn(own'[q], mem')
               PROVE  v \in HeldNow \cup HeldIn(own'[o], mem')
    BY <1>1
  <2>1. CASE q = o
    BY <2>1
  <2>2. CASE q # o
    BY <1>2, <2>2 DEF HeldNow
  <2> QED BY <2>1, <2>2
<1> QED BY <1>3 DEF Used

\* What is kept stays apart if what comes to be held, dropped or lost was new or kept by
\* the one who acts.
LEMMA KeptStays ==
  ASSUME BoxInv, NEW o \in Owner, Others(o), NEW G,
         HeldIn(own'[o], mem') \cup dropped' \cup lost' \subseteq Used \cup G,
         \A x \in G : \/ x \notin 1..born
                      \/ Building(own[o]) /\ \E k \in 0..own[o].next : x = Kept(own[o], mem, k),
         Building(own'[o]) => \A i \in 0..own'[o].next :
           /\ Kept(own'[o], mem', i) \in Value \ (Used \cup G)
           /\ \/ Kept(own'[o], mem', i) \notin 1..born
              \/ /\ Building(own[o])
                 /\ \E k \in 0..own[o].next : Kept(own'[o], mem', i) = Kept(own[o], mem, k)
           /\ \A j \in 0..own'[o].next :
                Kept(own'[o], mem', i) = Kept(own'[o], mem', j) => i = j
  PROVE  KeptApart'
<1>1. Used' \subseteq Used \cup G
  BY UsedThen
<1>2. ASSUME NEW q \in Owner \ {o}, Building(own'[q]), NEW i \in 0..own'[q].next
      PROVE  /\ own'[q] = own[q] /\ Kept(own'[q], mem', i) = Kept(own[q], mem, i)
             /\ Kept(own[q], mem, i) \in (Value \ Used) \cap 1..born
  <2>1. own'[q] = own[q] /\ Owns(q) /\ own[q].len \in Nat /\ own[q].next \in 0..own[q].len
    BY <1>2 DEF Others, Owns, Building, BoxInv, OwnerInv, OwnTypes, Wrappers, ValueTypes, Shaped
  <2>2. i # own[q].next => i \in 0..(own[q].len - 1)
    BY <1>2, <2>1
  <2>3. Kept(own'[q], mem', i) = Kept(own[q], mem, i)
    BY <2>1, <2>2 DEF Kept, Others
  <2>4. Kept(own[q], mem, i) \in (Value \ Used) \cap 1..born
    BY <1>2, <2>1, KeptMade DEF BoxInv, KeptApart
  <2> QED BY <2>1, <2>3, <2>4
<1>3. ASSUME NEW q \in Owner \ {o}, Building(own'[q]), NEW i \in 0..own'[q].next,
             Building(own[o]), NEW k \in 0..own[o].next
      PROVE  Kept(own[q], mem, i) # Kept(own[o], mem, k)
  <2>1. own'[q] = own[q]
    BY <1>2, <1>3
  <2> QED BY <1>3, <2>1 DEF BoxInv, KeptApart
<1>4. ASSUME NEW q \in Owner, Building(own'[q]), NEW i \in 0..own'[q].next
      PROVE  Kept(own'[q], mem', i) \in Value \ Used'
  <2>1. CASE q = o
    BY <1>1, <1>4, <2>1
  <2>2. CASE q # o
    <3>1. Kept(own'[q], mem', i) \in (Value \ Used) \cap 1..born
      BY <1>2, <1>4, <2>2
    <3>2. Kept(own'[q], mem', i) \notin G
      BY <1>2, <1>3, <1>4, <2>2
    <3> QED BY <1>1, <3>1, <3>2
  <2> QED BY <2>1, <2>2
<1>5. ASSUME NEW p \in Owner, NEW q \in Owner, Building(own'[p]), Building(own'[q]),
             NEW i \in 0..own'[p].next, NEW j \in 0..own'[q].next,
             Kept(own'[p], mem', i) = Kept(own'[q], mem', j)
      PROVE  p = q /\ i = j
  <2>1. CASE p # o /\ q # o
    <3>1. /\ own'[p] = own[p] /\ own'[q] = own[q]
          /\ Kept(own[p], mem, i) = Kept(own[q], mem, j)
      BY <1>2, <1>5, <2>1
    <3> QED BY <1>5, <3>1 DEF BoxInv, KeptApart
  <2>2. CASE p = o /\ q = o
    BY <1>5, <2>2
  <2>3. ASSUME p = o, q # o PROVE FALSE
    <3>1. Kept(own'[p], mem', i) \in 1..born
      BY <1>2, <1>5, <2>3
    <3>2. PICK k \in 0..own[o].next : Building(own[o]) /\ Kept(own'[p], mem', i) = Kept(own[o], mem, k)
      BY <1>5, <2>3, <3>1
    <3> QED BY <1>2, <1>3, <1>5, <2>3, <3>2
  <2>4. ASSUME p # o, q = o PROVE FALSE
    <3>1. Kept(own'[q], mem', j) \in 1..born
      BY <1>2, <1>5, <2>4
    <3>2. PICK k \in 0..own[o].next : Building(own[o]) /\ Kept(own'[q], mem', j) = Kept(own[o], mem, k)
      BY <1>5, <2>4, <3>1
    <3> QED BY <1>2, <1>3, <1>5, <2>4, <3>2
  <2> QED BY <2>1, <2>2, <2>3, <2>4
<1> QED BY <1>4, <1>5 DEF KeptApart

LEMMA StagedStays ==
  ASSUME BoxInv, NEW o \in Owner, Others(o), Staged(own'[o], mem')
  PROVE  (\A q \in Owner : Staged(own[q], mem))'
<1> SUFFICES ASSUME NEW q \in Owner \ {o} PROVE Staged(own'[q], mem')
  OBVIOUS
<1>1. own'[q] = own[q] /\ Staged(own[q], mem) /\ own[q].filled \subseteq 0..(own[q].len - 1)
  BY DEF Others, BoxInv, ValueTypes, Shaped
<1>2. own[q].st = "uninit" =>
        \A i \in 0..(own[q].len - 1) : Reads(own[q], mem', i) = Reads(own[q], mem, i)
  BY DEF Others, Owns
<1> QED BY <1>1, <1>2 DEF Staged

\* What every step has to show.
Implements == BoxStep /\ KeptApart' /\ (\A q \in Owner : Staged(own[q], mem))'

LEMMA SameMemory ==
  ASSUME NoWrap, BoxInv, NEW o \in Owner, NEW w, own' = [own EXCEPT ![o] = w], mem' = mem
  PROVE  Others(o) /\ own'[o] = w
<1>1. own'[o] = w
  BY DEF BoxInv, OwnerInv, OwnTypes
<1>2. WritesOnly({}) /\ OffLimits(o, {})
  BY DEF WritesOnly, OffLimits
<1>3. Others(o)
  BY <1>2, OthersStay
<1> QED BY <1>1, <1>3

LEMMA SameSlots ==
  ASSUME NEW w, NEW w2, NEW m, NEW m2,
         w.st \in {"returning", "init"}, w2.st \in {"returning", "init"},
         w2.len = w.len, w2.next = w.next,
         \A i \in 1..(w.len - w.next) : Slot(w2, m2, i) = Slot(w, m, i)
  PROVE  BoxIn(w2, m2) = BoxIn(w, m) /\ HeldIn(w2, m2) = HeldIn(w, m)
<1>1. /\ BoxIn(w, m) = [kind |-> "init", vals |-> [i \in 1..(w.len - w.next) |-> Slot(w, m, i)]]
      /\ BoxIn(w2, m2) = [kind |-> "init", vals |-> [i \in 1..(w.len - w.next) |-> Slot(w2, m2, i)]]
  BY FullBox
<1>2. BoxIn(w2, m2) = BoxIn(w, m)
  BY <1>1
<1> QED BY <1>2 DEF HeldIn

\* What a constructor keeps is distinct and nowhere else.
LEMMA KeptOf ==
  ASSUME BoxInv, NEW o \in Owner, Building(own[o])
  PROVE  /\ \A i \in 0..own[o].next : Kept(own[o], mem, i) \in Value \ Used
         /\ \A i, j \in 0..own[o].next : Kept(own[o], mem, i) = Kept(own[o], mem, j) => i = j
BY DEF BoxInv, KeptApart

\* A step after which o builds nothing, and that uses no value but a new one.
LEMMA KeptLeft ==
  ASSUME BoxInv, NEW o \in Owner, Others(o), ~Building(own'[o]),
         HeldIn(own'[o], mem') \cup dropped' \cup lost' \subseteq Used \cup {born + 1}
  PROVE  KeptApart'
<1> DEFINE G == {born + 1}
<1>1. \A x \in G : x \notin 1..born
  BY BornNew
<1>2. HeldIn(own'[o], mem') \cup dropped' \cup lost' \subseteq Used \cup G
  OBVIOUS
<1> HIDE DEF G
<1> QED BY <1>1, <1>2, KeptStays

LEMMA NewFailsBox ==
  ASSUME NoWrap, BoxInv, NEW o \in Owner, NewFails(o)
  PROVE  Implements
<1>1. /\ own' = own /\ mem' = mem /\ lost' = lost /\ own[o].st = "none"
      /\ dropped' = dropped \cup {born + 1} /\ born + 1 \in Value
  BY DEF NewFails
<1>2. own' = [own EXCEPT ![o] = own[o]]
  BY <1>1 DEF BoxInv, OwnerInv, OwnTypes
<1>3. Others(o) /\ own'[o] = own[o]
  BY <1>1, <1>2, SameMemory
<1>4. AllBoxes' = AllBoxes
  BY <1>1 DEF AllBoxes, BoxOf
<1>5. born + 1 \in Value \ Used /\ born + 1 \notin 1..born
  BY <1>1, BornNew
<1>6. BoxStep
  BY <1>1, <1>4, <1>5, AbsDropSpare
<1>7. KeptApart'
  <2>1. HeldIn(own'[o], mem') \cup dropped' \cup lost' \subseteq Used \cup {born + 1}
    BY <1>1, <1>3, EmptyBox DEF Used
  <2>2. ~Building(own'[o])
    BY <1>1, <1>3 DEF Building
  <2> QED BY <1>3, <2>1, <2>2, KeptLeft
<1>8. (\A q \in Owner : Staged(own[q], mem))'
  BY <1>1 DEF BoxInv
<1> QED BY <1>6, <1>7, <1>8 DEF Implements

LEMMA DropClonedBox ==
  ASSUME NoWrap, BoxInv, NEW o \in Owner, DropCloned(o)
  PROVE  Implements
<1> DEFINE w == own[o]  w2 == [own[o] EXCEPT !.st = "init", !.val = 0]
<1>1. /\ own' = [own EXCEPT ![o] = w2] /\ mem' = mem /\ lost' = lost /\ w.st = "returning"
      /\ dropped' = dropped \cup {w.val}
  BY DEF DropCloned
<1>2. w \in Wrappers /\ Staged(w, mem)
  BY DEF BoxInv, OwnerInv, OwnTypes
<1>3. /\ w2.st = "init" /\ w2.len = w.len /\ w2.next = w.next /\ w2.ptr = w.ptr
      /\ w.next = 0
  BY <1>1, <1>2 DEF Wrappers, Staged
<1>4. w.val = Kept(w, mem, 0) /\ Building(w) /\ 0 \in 0..w.next
  BY <1>1, <1>3 DEF Kept, Building
<1>5. w.val \in Value \ Used
  BY <1>4, KeptOf
<1> HIDE DEF w2
<1>6. Others(o) /\ own'[o] = w2
  BY <1>1, SameMemory
<1>7. \A i : Slot(w2, mem, i) = Slot(w, mem, i)
  BY <1>1, <1>3 DEF Slot, Reads
<1>8. BoxIn(w2, mem) = BoxIn(w, mem) /\ HeldIn(w2, mem) = HeldIn(w, mem)
  BY <1>1, <1>3, <1>7, SameSlots
<1>9. AllBoxes' = AllBoxes
  <2>1. AllBoxes' = [AllBoxes EXCEPT ![o] = BoxIn(w, mem)]
    BY <1>1, <1>6, <1>8, BoxesBecome
  <2> QED BY <2>1, BoxNow DEF AllBoxes
<1>10. BoxStep
  BY <1>1, <1>5, <1>9, AbsDropSpare
<1>11. KeptApart'
  <2> DEFINE G == {w.val}
  <2>1. HeldIn(own'[o], mem') \cup dropped' \cup lost' \subseteq Used \cup G
    BY <1>1, <1>6, <1>8 DEF Used, HeldNow
  <2>2. ~Building(own'[o])
    BY <1>3, <1>6 DEF Building
  <2>3. \A x \in G : Building(w) /\ \E k \in 0..w.next : x = Kept(w, mem, k)
    BY <1>4
  <2> HIDE DEF G
  <2> QED BY <1>6, <2>1, <2>2, <2>3, KeptStays
<1>12. Staged(own'[o], mem')
  BY <1>3, <1>6 DEF Staged
<1> QED BY <1>6, <1>10, <1>11, <1>12, StagedStays DEF Implements

LEMMA LongestIs == Longest \in Nat /\ \A n \in Count \cup {1} : n \in 0..Longest
<1> DEFINE C == Count \cup {1}  S == 0..Word  Above(n) == {k \in S : n <= k}
           T == {Above(n) : n \in C}
<1>1. C \subseteq S /\ Word \in Nat
  BY PoolOwnerAssumption
<1>2. T \subseteq FiniteSubsetsOf(S) /\ T # {}
  <2>1. IsFiniteSet(S)
    BY <1>1, FS_Interval
  <2>2. ASSUME NEW n \in C PROVE Above(n) \in SUBSET S /\ IsFiniteSet(Above(n))
    <3>1. Above(n) \in SUBSET S
      OBVIOUS
    <3> QED BY <2>1, <3>1, FS_Subset
  <2> HIDE DEF Above
  <2> QED BY <2>2 DEF FiniteSubsetsOf
<1>3. PICK U \in T : \A V \in T : <<V, U>> \notin StrictSubsetOrdering(S)
  <2>1. IsWellFoundedOn(StrictSubsetOrdering(S), FiniteSubsetsOf(S))
    BY <1>1, FS_Interval, FS_StrictSubsetOrderingWellFounded
  <2> HIDE DEF T, S
  <2> QED BY <1>2, <2>1, WFMin
<1>4. PICK m \in C : U = Above(m)
  BY <1>3
<1>5. ASSUME NEW k \in C, m < k PROVE FALSE
  <2>1. Above(k) \subseteq Above(m) /\ m \in Above(m) /\ m \notin Above(k)
    BY <1>1, <1>5
  <2>2. Above(k) \in T /\ Above(k) \in SUBSET S /\ Above(m) \in SUBSET S
    OBVIOUS
  <2> HIDE DEF Above, T, S
  <2>3. <<Above(k), Above(m)>> \in StrictSubsetOrdering(S)
    BY <2>1, <2>2 DEF StrictSubsetOrdering
  <2> QED BY <1>3, <1>4, <2>2, <2>3
<1>6. \A k \in C : k <= m
  BY <1>1, <1>5
<1>7. Longest \in C /\ \A k \in C : k <= Longest
  <2> HIDE DEF C
  <2>1. Longest = CHOOSE n \in C : \A k \in C : k <= n
    BY DEF Longest, C
  <2> QED BY <1>4, <1>6, <2>1
<1> QED BY <1>1, <1>7

LEMMA CloneEndsBox ==
  ASSUME NoWrap, BoxInv, NEW o \in Owner, CloneEnds(o)
  PROVE  Implements
<1> DEFINE w == own[o]  w2 == [own[o] EXCEPT !.st = "returning", !.next = 0]
           s == [i \in 1..w.len |-> Reads(w, mem, i - 1)]
           G == {s[i] : i \in 1..w.len}
<1>1. /\ own' = [own EXCEPT ![o] = w2] /\ mem' = mem /\ UNCHANGED <<dropped, lost>>
      /\ w.st = "cloning" /\ w.next = w.len
  BY DEF CloneEnds
<1>2. w \in Wrappers /\ KnowsBlock(w)
  BY <1>1 DEF BoxInv, OwnerInv, OwnTypes, Owns
<1>3. /\ w2.st = "returning" /\ w2.len = w.len /\ w2.next = 0 /\ w2.ptr = w.ptr
      /\ w2.val = w.val /\ w.len \in Nat
  BY <1>2 DEF Wrappers
<1>4. Building(w) /\ w.val = Kept(w, mem, w.len) /\ w.len \in 0..w.next
  BY <1>1, <1>3 DEF Kept, Building
<1>5. \A i \in 1..w.len : i - 1 \in 0..w.next /\ i - 1 # w.len /\ s[i] = Kept(w, mem, i - 1)
  BY <1>1, <1>3 DEF Kept
<1>50. /\ \A i \in 0..w.next : Kept(w, mem, i) \in Value \ Used
       /\ \A i, j \in 0..w.next : Kept(w, mem, i) = Kept(w, mem, j) => i = j
  BY <1>4, KeptOf
<1>6. s \in [1..w.len -> Value \ Used]
  <2>1. \A i \in 1..w.len : s[i] \in Value \ Used
    BY <1>5, <1>50
  <2> QED BY <2>1
<1>7. \A i, j \in 1..w.len : s[i] = s[j] => i = j
  <2> SUFFICES ASSUME NEW i \in 1..w.len, NEW j \in 1..w.len, s[i] = s[j] PROVE i = j
    OBVIOUS
  <2>1. Kept(w, mem, i - 1) = Kept(w, mem, j - 1)
    BY <1>5
  <2>2. i - 1 = j - 1
    BY <1>5, <1>50, <2>1
  <2> QED BY <1>3, <2>2
<1>8. w.val \in Value \ (Used \cup G)
  <2>1. w.val \in Value \ Used
    BY <1>4, <1>50
  <2>2. ASSUME NEW i \in 1..w.len PROVE w.val # s[i]
    BY <1>4, <1>5, <1>50
  <2> QED BY <2>1, <2>2
<1> HIDE DEF w2
<1>9. Others(o) /\ own'[o] = w2
  BY <1>1, SameMemory
<1>10. BoxIn(w2, mem) = [kind |-> "init", vals |-> s] /\ HeldIn(w2, mem) \subseteq G
  <2>1. w2.len - w2.next = w.len
    BY <1>3
  <2>2. \A i \in 1..w.len : Slot(w2, mem, i) = Reads(w, mem, i - 1)
    BY <1>3 DEF Slot, Reads
  <2>3. BoxIn(w2, mem) = [kind |-> "init", vals |-> [i \in 1..w.len |-> Slot(w2, mem, i)]]
    BY <1>3, <2>1, FullBox
  <2>4. HeldIn(w2, mem) = {Slot(w2, mem, i) : i \in 1..w.len} \cap Value
    BY <1>3, <2>1, FullBox
  <2> QED BY <2>2, <2>3, <2>4
<1>11. BoxStep
  <2>1. AllBoxes[o] = Boxes!NoBox
    BY <1>1, EmptyBox, BoxNow DEF AllBoxes
  <2>2. AllBoxes' = [AllBoxes EXCEPT ![o] = [kind |-> "init", vals |-> s]]
    <3> HIDE DEF s
    <3> QED BY <1>1, <1>9, <1>10, BoxesBecome
  <2>3. w.len \in 0..Longest
    BY <1>2, LongestIs DEF KnowsBlock, Lengths
  <2> HIDE DEF s, w
  <2> QED BY <1>1, <1>6, <1>7, <2>1, <2>2, <2>3, AbsNew
<1>12. KeptApart'
  <2>1. HeldIn(own'[o], mem') \cup dropped' \cup lost' \subseteq Used \cup G
    <3>1. HeldIn(own'[o], mem') \subseteq G
      BY <1>1, <1>9, <1>10
    <3> HIDE DEF G
    <3> QED BY <1>1, <3>1 DEF Used
  <2>2. \A x \in G : Building(w) /\ \E k \in 0..w.next : x = Kept(w, mem, k)
    BY <1>4, <1>5
  <2>3. \A i \in 0..own'[o].next : i = 0 /\ Kept(own'[o], mem', i) = w.val
    BY <1>3, <1>9 DEF Kept
  <2>4. \E k \in 0..w.next : w.val = Kept(w, mem, k)
    BY <1>4
  <2> HIDE DEF G, w
  <2>5. \A i \in 0..own'[o].next :
           /\ Kept(own'[o], mem', i) \in Value \ (Used \cup G)
           /\ \E k \in 0..w.next : Kept(own'[o], mem', i) = Kept(w, mem, k)
           /\ \A j \in 0..own'[o].next : i = j
    BY <1>8, <2>3, <2>4
  <2> QED BY <1>4, <1>9, <2>1, <2>2, <2>5, KeptStays DEF w
<1>13. Staged(own'[o], mem')
  BY <1>3, <1>9 DEF Staged
<1> QED BY <1>9, <1>11, <1>12, <1>13, StagedStays DEF Implements

(***************************************************************************)
(* Constructors.                                                           *)
(***************************************************************************)
LEMMA WrapperIs ==
  ASSUME NEW st, NEW type, NEW b, NEW n, NEW c, NEW w, w = Wrapper(st, type, b, n, c)
  PROVE  w.st = st /\ w.ptr = b /\ w.len = n /\ w.next = 0 /\ w.filled = {} /\ w.val = 0
BY DEF Wrapper, Nothing

\* The block of a constructor touches no other, and the elements fit into it.
LEMMA FreshBlock ==
  ASSUME NoWrap, BoxInv, NEW o \in Owner, NEW type \in Type, NEW n \in Lengths(type), NEW c,
         NEW b \in Base, Allocated(o, type, n, c, b)
  PROVE  /\ own[o].st = "none" /\ type \in AllTypes /\ n \in Nat /\ b \in Addr /\ b \in Nat
         /\ Bytes(type, n) \in Nat /\ n * Size \in Nat /\ n * Size <= Bytes(type, n)
         /\ b..(b + Bytes(type, n) - 1) \subseteq Addr
         /\ OffLimits(o, Extent(b, Bytes(type, n))) /\ n \in 0..Longest
         /\ \A d \in DOMAIN heap :
              Extent(b, Bytes(type, n)) \cap Extent(d, heap[d].bytes) = {}
<1>1. own[o].st = "none" /\ type \in AllTypes /\ n \in Nat /\ b \in Addr /\ b \in Nat
  BY LengthsNat, PoolOwnerAssumption DEF Allocated
<1>2. Bytes(type, n) \in Nat /\ n * Size \in Nat /\ n * Size <= Bytes(type, n)
  BY <1>1, BytesNat, ElementsFit, PoolOwnerAssumption
<1>3. /\ b..(b + Bytes(type, n) - 1) \subseteq Addr
      /\ \A d \in DOMAIN heap : Extent(b, Bytes(type, n)) \cap Extent(d, heap[d].bytes) = {}
  BY DEF Allocated, Room
<1>4. ASSUME NEW q \in Owner, Owns(q) PROVE Ground(q) \cap Extent(b, Bytes(type, n)) = {}
  <2>1. own[q].ptr \in DOMAIN heap
    BY <1>4 DEF BoxInv, OwnerInv, KnowsBlock
  <2> QED BY <1>3, <2>1 DEF Ground
<1>5. n \in 0..Longest
  BY LongestIs DEF Lengths
<1> QED BY <1>1, <1>2, <1>3, <1>4, <1>5 DEF OffLimits

\* It writes there only.
LEMMA FreshBytes ==
  ASSUME NEW b \in Nat, NEW k \in Nat, NEW n \in Nat, n <= k, NEW type, NEW x \in Addr,
         x \notin Extent(b, k)
  PROVE  /\ ClearedByAlloc(type, b, k)[x] = mem[x]
         /\ \A m : Cleared(m, b, n)[x] = m[x]
         /\ n = Size => \A m, v : Stored(m, b, v)[x] = m[x]
<1>1. x \notin Span(b, k) /\ x \notin Span(b, n)
  BY SpanGrows
<1> QED BY <1>1 DEF ClearedByAlloc, Cleared, Stored

\* What is common to constructors: w is made, in memory nobody else reads.
LEMMA Construct ==
  ASSUME NoWrap, BoxInv, NEW o \in Owner, own[o].st = "none",
         NEW S, WritesOnly(S), OffLimits(o, S), NEW w, own' = [own EXCEPT ![o] = w]
  PROVE  /\ Others(o) /\ own'[o] = w /\ AllBoxes[o] = Boxes!NoBox
         /\ AllBoxes' = [AllBoxes EXCEPT ![o] = BoxIn(w, mem')]
<1>1. own'[o] = w
  BY DEF BoxInv, OwnerInv, OwnTypes
<1>2. Others(o)
  BY OthersStay
<1>3. AllBoxes[o] = Boxes!NoBox
  BY EmptyBox, BoxNow DEF AllBoxes
<1>4. AllBoxes' = [AllBoxes EXCEPT ![o] = BoxIn(w, mem')]
  BY <1>1, <1>2, BoxesBecome
<1> QED BY <1>1, <1>2, <1>3, <1>4

LEMMA NewBox ==
  ASSUME NoWrap, BoxInv, NEW o \in Owner, NEW type \in Type, NEW n \in Lengths(type), NEW c,
         NEW b \in Base, New(o, type, n, c, b)
  PROVE  Implements
<1> DEFINE w == Wrapper("init", type, b, n, c)  v == born + 1  s == [i \in 1..n |-> v]
           m == ClearedByAlloc(type, b, Bytes(type, n))
<1>1. /\ Allocated(o, type, n, c, b) /\ v \in Value /\ mem' = Stored(m, b, v)
      /\ own' = [own EXCEPT ![o] = w] /\ UNCHANGED <<dropped, lost>> /\ type.form = "one"
  BY DEF New
<1>2. n = 1 /\ Bytes(type, n) = Size
  BY <1>1 DEF Lengths, Bytes
<1>3. /\ b \in Addr /\ b \in Nat /\ Size \in Nat /\ own[o].st = "none"
      /\ OffLimits(o, Extent(b, Bytes(type, n))) /\ n \in 0..Longest
  BY <1>1, FreshBlock, PoolOwnerAssumption
<1>4. WritesOnly(Extent(b, Bytes(type, n)))
  BY <1>1, <1>2, <1>3, FreshBytes DEF WritesOnly
<1>5. w.st = "init" /\ w.ptr = b /\ w.len = n /\ w.next = 0
  BY WrapperIs
<1> HIDE DEF w
<1>6. /\ Others(o) /\ own'[o] = w /\ AllBoxes[o] = Boxes!NoBox
      /\ AllBoxes' = [AllBoxes EXCEPT ![o] = BoxIn(w, mem')]
  BY <1>1, <1>3, <1>4, Construct
<1>7. ValueAt(mem', b) = v
  BY <1>1, <1>3, StoredReads
<1>8. \A i \in 1..n : Slot(w, mem', i) = v
  <2>1. Element(b, 0) = b
    BY <1>3 DEF Element
  <2> QED BY <1>2, <1>5, <1>7, <2>1 DEF Slot, Reads
<1>9. w.len - w.next = n
  BY <1>2, <1>5
<1>10. BoxIn(w, mem') = [kind |-> "init", vals |-> s] /\ HeldIn(w, mem') \subseteq {v}
  BY <1>5, <1>8, <1>9, FullBox
<1>11. v \in Value \ Used
  BY <1>1, BornNew
<1>12. BoxStep
  <2>1. s \in [1..n -> Value \ Used] /\ \A i, j \in 1..n : s[i] = s[j] => i = j
    BY <1>2, <1>11
  <2> HIDE DEF s
  <2> QED BY <1>1, <1>3, <1>6, <1>10, <2>1, AbsNew
<1>13. KeptApart'
  <2>1. ~Building(own'[o])
    BY <1>5, <1>6 DEF Building
  <2>2. HeldIn(own'[o], mem') \cup dropped' \cup lost' \subseteq Used \cup {born + 1}
    BY <1>1, <1>6, <1>10 DEF Used
  <2> QED BY <1>6, <2>1, <2>2, KeptLeft
<1>14. Staged(own'[o], mem')
  BY <1>5, <1>6 DEF Staged
<1> QED BY <1>6, <1>12, <1>13, <1>14, StagedStays DEF Implements

LEMMA NewSliceBox ==
  ASSUME NoWrap, BoxInv, NEW o \in Owner, NEW type \in Type, NEW n \in Lengths(type), NEW c,
         NEW b \in Base, NewSlice(o, type, n, c, b)
  PROVE  Implements
<1> DEFINE w == [Wrapper("cloning", type, b, n, c) EXCEPT !.val = born + 1]  k == Bytes(type, n)
<1>1. /\ Allocated(o, type, n, c, b) /\ born + 1 \in Value /\ mem' = ClearedByAlloc(type, b, k)
      /\ own' = [own EXCEPT ![o] = w] /\ UNCHANGED <<dropped, lost>>
  BY DEF NewSlice
<1>2. b \in Nat /\ k \in Nat /\ own[o].st = "none" /\ OffLimits(o, Extent(b, k))
  BY <1>1, FreshBlock
<1>3. WritesOnly(Extent(b, k))
  BY <1>1, <1>2, FreshBytes DEF WritesOnly
<1>4. w.st = "cloning" /\ w.next = 0 /\ w.val = born + 1
  BY DEF Wrapper, Nothing
<1> HIDE DEF w
<1>5. /\ Others(o) /\ own'[o] = w /\ AllBoxes[o] = Boxes!NoBox
      /\ AllBoxes' = [AllBoxes EXCEPT ![o] = BoxIn(w, mem')]
  BY <1>1, <1>2, <1>3, Construct
<1>6. BoxIn(w, mem') = Boxes!NoBox /\ HeldIn(w, mem') = {}
  BY <1>4, EmptyBox
<1>7. BoxStep
  <2>1. AllBoxes' = AllBoxes
    BY <1>5, <1>6 DEF AllBoxes
  <2> QED BY <1>1, <2>1, AbsStutter
<1>8. KeptApart'
  <2> DEFINE G == {}
  <2>1. HeldIn(own'[o], mem') \cup dropped' \cup lost' \subseteq Used \cup G
    BY <1>1, <1>5, <1>6 DEF Used
  <2>2. \A i \in 0..own'[o].next : i = 0 /\ Kept(own'[o], mem', i) = born + 1
    BY <1>4, <1>5 DEF Kept
  <2>3. born + 1 \in Value \ Used /\ born + 1 \notin 1..born
    BY <1>1, BornNew
  <2>4. \A i \in 0..own'[o].next :
          /\ Kept(own'[o], mem', i) \in Value \ (Used \cup G)
          /\ Kept(own'[o], mem', i) \notin 1..born
          /\ \A j \in 0..own'[o].next : i = j
    BY <2>2, <2>3
  <2>5. \A x \in G : x \notin 1..born
    OBVIOUS
  <2> HIDE DEF G
  <2> QED BY <1>5, <2>1, <2>4, <2>5, KeptStays
<1>9. Staged(own'[o], mem')
  BY <1>4, <1>5 DEF Staged
<1> QED BY <1>5, <1>7, <1>8, <1>9, StagedStays DEF Implements

\* Boxes of elements that nobody has written.
ReadZero(b, n) == \A i \in 0..(n - 1) : ValueAt(mem', Element(b, i)) = Zero

LEMMA BlankBox ==
  ASSUME NoWrap, BoxInv, NEW o \in Owner, NEW type \in Type, NEW n \in Lengths(type), NEW c,
         NEW b \in Base, Allocated(o, type, n, c, b),
         NEW st, NEW x, Blank(st, x),
         own' = [own EXCEPT ![o] = Wrapper(st, type, b, n, c)], UNCHANGED <<dropped, lost>>,
         WritesOnly(Extent(b, Bytes(type, n))), st = "init" => ReadZero(b, n)
  PROVE  Implements
<1> DEFINE w == Wrapper(st, type, b, n, c)
<1>1. w.st = st /\ w.ptr = b /\ w.len = n /\ w.next = 0 /\ w.filled = {}
  BY WrapperIs
<1>2. st \in {"init", "uninit"} /\ (st = "init" => x = Zero) /\ (st = "uninit" => x = Hole)
  BY DEF Blank
<1> HIDE DEF w
<1>3. own' = [own EXCEPT ![o] = w]
  BY DEF w
<1>31. /\ OffLimits(o, Extent(b, Bytes(type, n))) /\ n \in 0..Longest
       /\ own[o].st = "none" /\ n \in Nat
  BY FreshBlock
<1>4. /\ Others(o) /\ own'[o] = w /\ AllBoxes[o] = Boxes!NoBox
      /\ AllBoxes' = [AllBoxes EXCEPT ![o] = BoxIn(w, mem')]
  BY <1>3, <1>31, Construct
<1>5. \A i \in 1..n : Slot(w, mem', i) = x
  <2> SUFFICES ASSUME NEW i \in 1..n PROVE Slot(w, mem', i) = x
    OBVIOUS
  <2>1. i - 1 \in 0..(n - 1) /\ 0 + i - 1 = i - 1
    BY <1>31
  <2> QED BY <1>1, <1>2, <2>1 DEF Slot, Reads, ReadZero
<1>6. w.len - w.next = n
  BY <1>1, <1>31
<1>7. BoxIn(w, mem') = [kind |-> st, vals |-> [i \in 1..n |-> x]]
  BY <1>1, <1>2, <1>5, <1>6, FullBox
<1>8. HeldIn(w, mem') = {}
  <2>1. x \notin Value
    BY <1>2, PoolOwnerAssumption
  <2>2. HeldIn(w, mem') = {Slot(w, mem', i) : i \in 1..n} \cap Value
    BY <1>1, <1>2, <1>6, FullBox
  <2> QED BY <1>5, <2>1, <2>2
<1>9. BoxStep
  BY <1>4, <1>7, <1>31, AbsNewOf
<1>10. KeptApart'
  <2>1. ~Building(own'[o])
    BY <1>1, <1>2, <1>4 DEF Building
  <2>2. HeldIn(own'[o], mem') \cup dropped' \cup lost' \subseteq Used \cup {born + 1}
    BY <1>4, <1>8 DEF Used
  <2> QED BY <1>4, <2>1, <2>2, KeptLeft
<1>11. Staged(own'[o], mem')
  BY <1>1, <1>2, <1>4 DEF Staged
<1> QED BY <1>4, <1>9, <1>10, <1>11, StagedStays DEF Implements

LEMMA NewUninitBox ==
  ASSUME NoWrap, BoxInv, NEW o \in Owner, NEW type \in Type, NEW n \in Lengths(type), NEW c,
         NEW b \in Base, NewUninit(o, type, n, c, b)
  PROVE  Implements
<1> DEFINE k == Bytes(type, n)  m == ClearedByAlloc(type, b, k)
<1>1. /\ Allocated(o, type, n, c, b) /\ UNCHANGED <<dropped, lost>>
      /\ own' = [own EXCEPT ![o] = Wrapper("uninit", type, b, n, c)]
      /\ mem' = m \/ mem' = Cleared(m, b, n * Size)
  BY DEF NewUninit
<1>2. b \in Nat /\ k \in Nat /\ n * Size \in Nat /\ n * Size <= k
  BY <1>1, FreshBlock
<1>3. WritesOnly(Extent(b, k))
  <2> HIDE DEF k
  <2> QED BY <1>1, <1>2, FreshBytes DEF WritesOnly
<1>4. Blank("uninit", Hole)
  BY DEF Blank
<1> QED BY <1>1, <1>3, <1>4, BlankBox

LEMMA NewZeroedBox ==
  ASSUME NoWrap, BoxInv, NEW o \in Owner, NEW type \in Type, NEW n \in Lengths(type), NEW c,
         NEW b \in Base, NewZeroed(o, type, n, c, b)
  PROVE  Implements
<1> DEFINE k == Bytes(type, n)  m == ClearedByAlloc(type, b, k)
<1>1. /\ Allocated(o, type, n, c, b) /\ UNCHANGED <<dropped, lost>>
      /\ own' = [own EXCEPT ![o] = Wrapper("init", type, b, n, c)]
      /\ mem' = Cleared(m, b, n * Size)
  BY DEF NewZeroed
<1>2. /\ b \in Nat /\ n \in Nat /\ k \in Nat /\ n * Size \in Nat /\ n * Size <= k
      /\ b..(b + k - 1) \subseteq Addr
  BY <1>1, FreshBlock
<1>3. WritesOnly(Extent(b, k))
  <2> HIDE DEF k
  <2> QED BY <1>1, <1>2, FreshBytes DEF WritesOnly
<1>4. ReadZero(b, n)
  <2> SUFFICES ASSUME NEW i \in 0..(n - 1) PROVE ValueAt(mem', Element(b, i)) = Zero
    BY DEF ReadZero
  <2>1. /\ Span(Element(b, i), Size) \subseteq Span(b, n * Size)
        /\ Element(b, i) \in b..(b + n * Size - 1)
    BY <1>2, ElementWithin
  <2>2. Element(b, i) \in Addr
    BY <1>2, <2>1
  <2> HIDE DEF m
  <2> QED BY <1>1, <2>1, <2>2, ClearedReads
<1>5. Blank("init", Zero)
  BY DEF Blank
<1> QED BY <1>1, <1>3, <1>4, <1>5, BlankBox

(***************************************************************************)
(* Use and destruction.                                                    *)
(***************************************************************************)
\* An element is written: the others are read as before.
LEMMA StoreElement ==
  ASSUME NoWrap, BoxInv, NEW o \in Owner, Owns(o), NEW i \in 0..(own[o].len - 1), NEW v \in Value,
         mem' = Stored(mem, Element(own[o].ptr, i), v)
  PROVE  /\ WritesOnly(Ground(o)) /\ Reads(own[o], mem', i) = v
         /\ \A j \in 0..(own[o].len - 1) :
              j # i => Reads(own[o], mem', j) = Reads(own[o], mem, j)
<1> DEFINE e(j) == Element(own[o].ptr, j)
<1>1. own[o].ptr \in Nat /\ own[o].len \in Nat
  BY DEF BoxInv, OwnerInv, OwnTypes, Wrappers
<1>2. \A j \in 0..(own[o].len - 1) : e(j) \in Addr /\ Span(e(j), Size) \subseteq Ground(o)
  BY OnGround DEF BoxInv
<1>3. WritesOnly(Ground(o))
  <2>1. \A x \in Addr : x \notin Ground(o) => x \notin Span(e(i), Size)
    BY <1>2
  <2> QED BY <2>1, StoredElsewhere DEF WritesOnly
<1>4. Reads(own[o], mem', i) = v
  BY <1>2, StoredReads DEF Reads
<1>5. ASSUME NEW j \in 0..(own[o].len - 1), j # i
      PROVE  Reads(own[o], mem', j) = Reads(own[o], mem, j)
  <2>1. Span(e(j), Size) \cap Span(e(i), Size) = {}
    BY <1>1, <1>5, ElementsApart
  <2>2. \A x \in Span(e(j), Size) : x \in Addr /\ x \notin Span(e(i), Size)
    BY <2>1 DEF Span
  <2>3. \A x \in Span(e(j), Size) : mem'[x] = mem[x]
    BY <2>2, StoredElsewhere
  <2>4. e(j) \in Addr
    BY <1>2, <1>5
  <2>5. ValueAt(mem', e(j)) = ValueAt(mem, e(j))
    <3> HIDE DEF e
    <3> QED BY <2>3, <2>4, SameBytes
  <2> QED BY <2>5 DEF Reads
<1> QED BY <1>3, <1>4, <1>5

LEMMA CloneBox ==
  ASSUME NoWrap, BoxInv, NEW o \in Owner, Clone(o)
  PROVE  Implements
<1> DEFINE w == own[o]  w2 == [own[o] EXCEPT !.next = @ + 1]  v == born + 1
<1>1. /\ own' = [own EXCEPT ![o] = w2] /\ UNCHANGED <<dropped, lost>>
      /\ w.st = "cloning" /\ w.next < w.len /\ v \in Value
      /\ mem' = Stored(mem, Element(w.ptr, w.next), v)
  BY DEF Clone
<1>2. w \in Wrappers /\ Owns(o)
  BY <1>1 DEF BoxInv, OwnerInv, OwnTypes, Owns
<1>3. /\ w2.st = "cloning" /\ w2.len = w.len /\ w2.next = w.next + 1 /\ w2.ptr = w.ptr
      /\ w2.val = w.val /\ w.len \in Nat /\ w.next \in Nat
  BY <1>1, <1>2 DEF Wrappers
<1>4. w.next \in 0..(w.len - 1)
  BY <1>1, <1>3
<1>5. /\ WritesOnly(Ground(o)) /\ Reads(w, mem', w.next) = v
      /\ \A j \in 0..(w.len - 1) : j # w.next => Reads(w, mem', j) = Reads(w, mem, j)
  BY <1>1, <1>2, <1>4, StoreElement
<1> HIDE DEF w2
<1>6. Others(o) /\ own'[o] = w2
  BY <1>1, <1>2, <1>5, OwnGroundOnly DEF BoxInv, OwnerInv, OwnTypes
<1>7. BoxIn(w2, mem') = Boxes!NoBox /\ HeldIn(w2, mem') = {} /\ BoxIn(w, mem) = Boxes!NoBox
  BY <1>1, <1>3, EmptyBox
<1>8. BoxStep
  <2>1. AllBoxes' = [AllBoxes EXCEPT ![o] = BoxIn(w, mem)]
    BY <1>6, <1>7, BoxesBecome
  <2>2. AllBoxes' = AllBoxes
    BY <2>1, BoxNow DEF AllBoxes
  <2> QED BY <1>1, <2>2, AbsStutter
<1>9. KeptApart'
  <2> DEFINE G == {}
  <2>1. HeldIn(own'[o], mem') \cup dropped' \cup lost' \subseteq Used \cup G
    BY <1>1, <1>6, <1>7 DEF Used
  <2>2. Building(w) /\ Building(w2)
    BY <1>1, <1>3 DEF Building
  <2>3. v \in Value \ Used /\ v \notin 1..born
    BY <1>1, BornNew
  <2>4. /\ \A i \in 0..w.next : Kept(w, mem, i) \in Value \ Used
        /\ \A i, j \in 0..w.next : Kept(w, mem, i) = Kept(w, mem, j) => i = j
    BY <2>2, KeptOf
  <2>5. \A i \in 0..w.next : Kept(w, mem, i) \in 1..born
    BY <2>2, KeptMade DEF BoxInv
  <2> DEFINE k(i) == Kept(w2, mem', i)
  <2>6. k(w.next) = v
    BY <1>3, <1>5 DEF Kept, Reads
  <2>7. k(w.next + 1) = Kept(w, mem, w.next)
    BY <1>3 DEF Kept
  <2>8. ASSUME NEW i \in 0..(w.next - 1) PROVE k(i) = Kept(w, mem, i)
    <3>1. i \in 0..(w.len - 1) /\ i # w.next /\ i # w.next + 1
      BY <1>1, <1>3
    <3>2. Reads(w2, mem', i) = Reads(w, mem, i)
      BY <1>3, <1>5, <3>1 DEF Reads
    <3> QED BY <1>3, <3>1, <3>2 DEF Kept
  <2>9. \A i \in 0..(w.next + 1) : i = w.next \/ i = w.next + 1 \/ i \in 0..(w.next - 1)
    BY <1>3
  <2>10. w.next \in 0..w.next /\ \A i \in 0..(w.next - 1) : i \in 0..w.next /\ i # w.next
    BY <1>3
  <2> HIDE DEF G, k
  <2>11. \A i \in 0..(w.next + 1) :
           /\ k(i) \in Value \ Used
           /\ k(i) = v \/ \E l \in 0..w.next : k(i) = Kept(w, mem, l)
    <3> HIDE DEF w, v
    <3> QED BY <2>3, <2>4, <2>6, <2>7, <2>8, <2>9, <2>10
  <2>12. ASSUME NEW i \in 0..(w.next + 1), NEW j \in 0..(w.next + 1), k(i) = k(j)
         PROVE  i = j
    <3> HIDE DEF w, v
    <3>1. CASE i = w.next
      BY <2>3, <2>4, <2>5, <2>6, <2>7, <2>8, <2>9, <2>10, <2>12, <3>1
    <3>2. CASE i = w.next + 1
      BY <2>3, <2>4, <2>5, <2>6, <2>7, <2>8, <2>9, <2>10, <2>12, <3>2
    <3>3. CASE i \in 0..(w.next - 1)
      BY <2>3, <2>4, <2>5, <2>6, <2>7, <2>8, <2>9, <2>10, <2>12, <3>3
    <3> QED BY <2>9, <3>1, <3>2, <3>3
  <2>13. \A x \in G : x \notin 1..born
    BY DEF G
  <2>14. Value \ (Used \cup G) = Value \ Used
    BY DEF G
  <2>15. \A i \in 0..own'[o].next :
           /\ Kept(own'[o], mem', i) \in Value \ (Used \cup G)
           /\ \/ Kept(own'[o], mem', i) \notin 1..born
              \/ \E l \in 0..own[o].next : Kept(own'[o], mem', i) = Kept(own[o], mem, l)
           /\ \A j \in 0..own'[o].next :
                Kept(own'[o], mem', i) = Kept(own'[o], mem', j) => i = j
    BY <1>3, <1>6, <2>3, <2>11, <2>12, <2>14 DEF k
  <2> QED BY <1>6, <2>1, <2>2, <2>13, <2>15, KeptStays
<1>10. Staged(own'[o], mem')
  BY <1>3, <1>6 DEF Staged
<1> QED BY <1>6, <1>8, <1>9, <1>10, StagedStays DEF Implements

LEMMA ContentsHeld ==
  ASSUME BoxInv, NEW o \in Owner, own[o].st \in {"init", "uninit", "dropping"}
  PROVE  Contents(o) \cap Value = HeldIn(own[o], mem)
<1> DEFINE w == own[o]
<1>1. /\ w.len \in Nat /\ w.next \in Nat /\ w.filled \subseteq 0..(w.len - 1)
      /\ w.st = "uninit" => w.next = 0
  BY DEF BoxInv, OwnerInv, OwnTypes, Wrappers, ValueTypes, Shaped, Staged
<1>2. Hole \notin Value
  BY PoolOwnerAssumption
<1>3. HeldIn(w, mem) = {Slot(w, mem, i) : i \in 1..(w.len - w.next)} \cap Value
  BY FullBox
<1> DEFINE D == IF w.st = "uninit" THEN w.filled ELSE w.next..(w.len - 1)
<1>4. Contents(o) = {Reads(w, mem, i) : i \in D}
  BY DEF Contents, Reads
<1>5. ASSUME NEW i \in D
      PROVE  \E j \in 1..(w.len - w.next) : Slot(w, mem, j) = Reads(w, mem, i)
  <2>1. i - w.next + 1 \in 1..(w.len - w.next) /\ w.next + (i - w.next + 1) - 1 = i
        /\ (w.st = "uninit" => (i - w.next + 1) - 1 = i)
    BY <1>1
  <2>2. Slot(w, mem, i - w.next + 1) = Reads(w, mem, i)
    BY <2>1 DEF Slot
  <2> QED BY <2>1, <2>2
<1>6. ASSUME NEW j \in 1..(w.len - w.next), Slot(w, mem, j) \in Value
      PROVE  \E i \in D : Slot(w, mem, j) = Reads(w, mem, i)
  <2>1. ~(w.st = "uninit" /\ j - 1 \notin w.filled)
    BY <1>2, <1>6 DEF Slot
  <2>2. Slot(w, mem, j) = Reads(w, mem, w.next + j - 1)
    BY <2>1 DEF Slot
  <2>3. w.next + j - 1 \in D
    BY <1>1, <2>1
  <2> QED BY <2>2, <2>3
<1> HIDE DEF D, w
<1>7. Contents(o) \cap Value \subseteq HeldIn(w, mem)
  BY <1>3, <1>4, <1>5
<1>8. HeldIn(w, mem) \subseteq Contents(o) \cap Value
  BY <1>3, <1>4, <1>6
<1> QED BY <1>7, <1>8 DEF w

\* A wrapper is gone, and what was in it lost: by leak, or because it was one of MaybeUninit.
LEMMA GoneBox ==
  ASSUME NoWrap, BoxInv, NEW o \in Owner, own[o].st \in {"init", "uninit", "dropping"},
         own' = [own EXCEPT ![o] = Nothing], lost' = lost \cup (Contents(o) \cap Value),
         dropped' = dropped, WritesOnly(Ground(o)),
         own[o].st = "dropping" => own[o].next = own[o].len
  PROVE  Implements
<1> DEFINE w == own[o]
<1>1. w \in Wrappers /\ Owns(o) /\ own'[o] = Nothing /\ Staged(w, mem) /\ Shaped(w, born)
  BY DEF BoxInv, OwnerInv, OwnTypes, Owns, ValueTypes
<1>2. Others(o)
  BY <1>1, OwnGroundOnly
<1>3. Nothing.st = "none" /\ BoxIn(Nothing, mem') = Boxes!NoBox /\ HeldIn(Nothing, mem') = {}
  BY EmptyBox DEF Nothing
<1>4. AllBoxes' = [AllBoxes EXCEPT ![o] = Boxes!NoBox]
  BY <1>1, <1>2, <1>3, BoxesBecome
<1>5. lost' = lost \cup HeldIn(w, mem)
  BY ContentsHeld
<1>6. AllBoxes[o] = BoxIn(w, mem)
  BY BoxNow DEF AllBoxes
<1>7. BoxStep
  <2>1. CASE w.st \in {"init", "uninit"}
    <3>1. BoxIn(w, mem).kind = w.st
      BY <2>1, FullBox
    <3> QED BY <1>4, <1>5, <1>6, <2>1, <3>1, AbsForget
  <2>2. CASE w.st = "dropping"
    <3>1. w.len - w.next = 0
      BY <1>1, <2>2 DEF Wrappers
    <3>2. BoxIn(w, mem) = [kind |-> "dropping", vals |-> [i \in 1..0 |-> Slot(w, mem, i)]]
      BY <2>2, <3>1, FullBox
    <3>3. BoxIn(w, mem) = [kind |-> "dropping", vals |-> <<>>]
      BY <3>2
    <3>4. HeldIn(w, mem) = {}
      BY <3>3 DEF HeldIn
    <3> QED BY <1>4, <1>5, <1>6, <3>3, <3>4, AbsDropEnds
  <2> QED BY <2>1, <2>2
<1>8. KeptApart'
  <2>1. ~Building(own'[o])
    BY <1>1, <1>3 DEF Building
  <2>2. HeldIn(w, mem) \subseteq Used
    BY DEF Used, HeldNow
  <2>3. HeldIn(own'[o], mem') \cup dropped' \cup lost' \subseteq Used \cup {born + 1}
    BY <1>1, <1>3, <1>5, <2>2 DEF Used
  <2> QED BY <1>2, <2>1, <2>3, KeptLeft
<1>9. Staged(own'[o], mem')
  BY <1>1, <1>3 DEF Staged
<1> QED BY <1>2, <1>7, <1>8, <1>9, StagedStays DEF Implements

LEMMA LeakBox ==
  ASSUME NoWrap, BoxInv, NEW o \in Owner, Leak(o)
  PROVE  Implements
<1>1. /\ own[o].st \in {"init", "uninit"} /\ mem' = mem /\ dropped' = dropped
      /\ lost' = lost \cup (Contents(o) \cap Value) /\ own' = [own EXCEPT ![o] = Nothing]
  BY DEF Leak
<1>2. WritesOnly(Ground(o))
  BY <1>1 DEF WritesOnly
<1> QED BY <1>1, <1>2, GoneBox

\* The block that is given back is overwritten, and nothing else.
LEMMA FreeBox ==
  ASSUME NoWrap, BoxInv, NEW o \in Owner, Free(o)
  PROVE  Implements
<1>1. /\ own[o].st \in {"uninit", "dropping"} /\ dropped' = dropped
      /\ own[o].st = "dropping" => own[o].next = own[o].len
      /\ lost' = lost \cup (Contents(o) \cap Value) /\ own' = [own EXCEPT ![o] = Nothing]
  BY DEF Free
<1>2. mem' = mem \/ mem' = Overwritten(own[o].ptr, heap[own[o].ptr].bytes)
  BY DEF Free
<1>3. WritesOnly(Ground(o))
  <2>1. own[o].ptr \in Nat /\ heap[own[o].ptr].bytes \in Nat
    <3>1. own[o].ptr \in DOMAIN heap
      BY <1>1 DEF BoxInv, OwnerInv, KnowsBlock, Owns
    <3> QED BY <3>1 DEF BoxInv, OwnerInv, OwnTypes, HeapTypes, Wrappers
  <2>2. Span(own[o].ptr, heap[own[o].ptr].bytes) \subseteq Ground(o)
    BY <2>1, SpanGrows DEF Ground
  <2> QED BY <1>2, <2>2 DEF WritesOnly, Overwritten
<1> QED BY <1>1, <1>3, GoneBox

Plain(st) == st \notin {"none", "cloning", "returning"}

\* s is what the n elements that are left of w read as.
SlotsAre(s, w, m, n) == w.len - w.next = n /\ s = [i \in 1..n |-> Slot(w, m, i)]

LEMMA PlainBox ==
  ASSUME NEW w, NEW m, NEW st, w.st = st, Plain(st), NEW n, NEW s, SlotsAre(s, w, m, n)
  PROVE  BoxIn(w, m) = BoxWith(st, s) /\ HeldIn(w, m) = {s[i] : i \in 1..n} \cap Value
<1>1. BoxIn(w, m) = BoxWith(st, s)
  BY DEF BoxIn, BoxWith, Plain, SlotsAre
<1>2. BoxIn(w, m).vals = s /\ DOMAIN s = 1..n
  BY <1>1, BoxParts DEF SlotsAre
<1> QED BY <1>1, <1>2 DEF HeldIn

LEMMA AssumeInitBox ==
  ASSUME NoWrap, BoxInv, NEW o \in Owner, AssumeInit(o)
  PROVE  Implements
<1> DEFINE w == own[o]  w2 == [own[o] EXCEPT !.st = "init", !.filled = {}]
           s == [i \in 1..w.len |-> Slot(w, mem, i)]
<1>1. /\ own' = [own EXCEPT ![o] = w2] /\ mem' = mem /\ UNCHANGED <<dropped, lost>>
      /\ w.st = "uninit" /\ w.filled = 0..(w.len - 1)
  BY DEF AssumeInit
<1>2. w \in Wrappers /\ Staged(w, mem)
  BY DEF BoxInv, OwnerInv, OwnTypes
<1>3. /\ w2.st = "init" /\ w2.len = w.len /\ w2.next = w.next /\ w2.ptr = w.ptr
      /\ w.next = 0 /\ w.len \in Nat
  BY <1>1, <1>2 DEF Wrappers, Staged
<1> HIDE DEF w2
<1>4. Others(o) /\ own'[o] = w2
  BY <1>1, SameMemory
<1>5. ASSUME NEW i \in 1..w.len
      PROVE  Slot(w2, mem, i) = Slot(w, mem, i) /\ Slot(w, mem, i) \in Value
  <2>1. i - 1 \in w.filled /\ 0 + i - 1 = i - 1
    BY <1>1, <1>3
  <2> QED BY <1>1, <1>2, <1>3, <2>1 DEF Slot, Staged, Reads
<1>6. w.len - w.next = w.len /\ w2.len - w2.next = w.len
  BY <1>3
<1>7. s = [i \in 1..w.len |-> Slot(w2, mem, i)]
  BY <1>5
<1>8. \A i \in DOMAIN s : s[i] # Hole
  <2>1. Hole \notin Value
    BY PoolOwnerAssumption
  <2> QED BY <1>5, <2>1
<1>9. SlotsAre(s, w, mem, w.len) /\ SlotsAre(s, w2, mem, w.len)
  BY <1>6, <1>7 DEF SlotsAre
<1> HIDE DEF s
<1>10. /\ BoxIn(w, mem) = BoxWith("uninit", s) /\ BoxIn(w2, mem) = BoxWith("init", s)
       /\ HeldIn(w2, mem) = HeldIn(w, mem)
  <2> DEFINE n == w.len  u == "uninit"  v == "init"
  <2>1. SlotsAre(s, w, mem, n) /\ SlotsAre(s, w2, mem, n) /\ w.st = u /\ w2.st = v
    BY <1>1, <1>3, <1>9
  <2>2. Plain(u) /\ Plain(v)
    BY DEF Plain
  <2> HIDE DEF n, w, u, v
  <2>3. BoxIn(w, mem) = BoxWith(u, s) /\ HeldIn(w, mem) = {s[i] : i \in 1..n} \cap Value
    BY <2>1, <2>2, PlainBox
  <2>4. BoxIn(w2, mem) = BoxWith(v, s) /\ HeldIn(w2, mem) = {s[i] : i \in 1..n} \cap Value
    BY <2>1, <2>2, PlainBox
  <2> QED BY <2>3, <2>4 DEF u, v
<1>11. AllBoxes[o] = BoxIn(w, mem)
  BY BoxNow DEF AllBoxes
<1>12. BoxStep
  <2>1. AllBoxes' = [AllBoxes EXCEPT ![o] = BoxWith("init", s)]
    BY <1>1, <1>4, <1>10, BoxesBecome
  <2> QED BY <1>1, <1>8, <1>10, <1>11, <2>1, AbsAssumeInit
<1>13. KeptApart'
  <2>1. ~Building(own'[o])
    BY <1>3, <1>4 DEF Building
  <2>2. HeldIn(own'[o], mem') \cup dropped' \cup lost' \subseteq Used \cup {born + 1}
    BY <1>1, <1>4, <1>10 DEF Used, HeldNow
  <2> QED BY <1>4, <2>1, <2>2, KeptLeft
<1>14. Staged(own'[o], mem')
  BY <1>3, <1>4 DEF Staged
<1> QED BY <1>4, <1>12, <1>13, <1>14, StagedStays DEF Implements

\* drop_in_place starts: the box is the same, and is being dropped.
LEMMA DropBeginsBox ==
  ASSUME NoWrap, BoxInv, NEW o \in Owner, DropBegins(o)
  PROVE  Implements
<1> DEFINE w == own[o]  w2 == [own[o] EXCEPT !.st = "dropping"]  n == w.len - w.next
           s == [i \in 1..n |-> Slot(w, mem, i)]
<1>1. /\ own' = [own EXCEPT ![o] = w2] /\ mem' = mem /\ UNCHANGED <<dropped, lost>>
      /\ w.st = "init"
  BY DEF DropBegins
<1>2. w \in Wrappers
  BY DEF BoxInv, OwnerInv, OwnTypes
<1>3. w2.st = "dropping" /\ w2.len = w.len /\ w2.next = w.next /\ w2.ptr = w.ptr
  BY <1>1, <1>2 DEF Wrappers
<1> HIDE DEF w2
<1>4. Others(o) /\ own'[o] = w2
  BY <1>1, SameMemory
<1>5. \A i : Slot(w2, mem, i) = Slot(w, mem, i)
  BY <1>1, <1>3 DEF Slot, Reads
<1>6. w2.len - w2.next = n /\ s = [i \in 1..n |-> Slot(w2, mem, i)]
  BY <1>3, <1>5
<1>7. SlotsAre(s, w, mem, n) /\ SlotsAre(s, w2, mem, n)
  BY <1>6 DEF SlotsAre
<1> HIDE DEF s, n
<1>8. /\ BoxIn(w, mem) = BoxWith("init", s) /\ BoxIn(w2, mem) = BoxWith("dropping", s)
      /\ HeldIn(w2, mem) = HeldIn(w, mem)
  <2> DEFINE u == "init"  v == "dropping"
  <2>1. w.st = u /\ w2.st = v
    BY <1>1, <1>3
  <2>2. Plain(u) /\ Plain(v)
    BY DEF Plain
  <2> HIDE DEF w, u, v
  <2>3. BoxIn(w, mem) = BoxWith(u, s) /\ HeldIn(w, mem) = {s[i] : i \in 1..n} \cap Value
    BY <1>7, <2>1, <2>2, PlainBox
  <2>4. BoxIn(w2, mem) = BoxWith(v, s) /\ HeldIn(w2, mem) = {s[i] : i \in 1..n} \cap Value
    BY <1>7, <2>1, <2>2, PlainBox
  <2> QED BY <2>3, <2>4 DEF u, v
<1>9. AllBoxes[o] = BoxIn(w, mem)
  BY BoxNow DEF AllBoxes
<1>10. BoxStep
  <2>1. AllBoxes' = [AllBoxes EXCEPT ![o] = BoxWith("dropping", s)]
    BY <1>1, <1>4, <1>8, BoxesBecome
  <2> QED BY <1>1, <1>8, <1>9, <2>1, AbsDropBegins
<1>11. KeptApart'
  <2>1. ~Building(own'[o])
    BY <1>3, <1>4 DEF Building
  <2>2. HeldIn(own'[o], mem') \cup dropped' \cup lost' \subseteq Used \cup {born + 1}
    BY <1>1, <1>4, <1>8 DEF Used, HeldNow
  <2> QED BY <1>4, <2>1, <2>2, KeptLeft
<1>12. Staged(own'[o], mem')
  BY <1>3, <1>4 DEF Staged
<1> QED BY <1>4, <1>10, <1>11, <1>12, StagedStays DEF Implements

LEMMA TailIs ==
  ASSUME NEW S, NEW s \in Seq(S), NEW n \in Nat \ {0}, Len(s) = n
  PROVE  s # <<>> /\ Head(s) = s[1] /\ Tail(s) = [i \in 1..(n - 1) |-> s[i + 1]]
<1>1. s # <<>> /\ Head(s) = s[1]
  OBVIOUS
<1>2. /\ Tail(s) \in Seq(S) /\ Len(Tail(s)) = n - 1
      /\ \A i \in 1..Len(Tail(s)) : Tail(s)[i] = s[i + 1]
  BY <1>1, HeadTailProperties
<1> DEFINE t == Tail(s)
<1> HIDE DEF t
<1>3. t = [i \in 1..Len(t) |-> t[i]]
  <2>1. t \in Seq(S)
    BY <1>2 DEF t
  <2> QED BY <2>1
<1>4. t = [i \in 1..(n - 1) |-> s[i + 1]]
  BY <1>2, <1>3 DEF t
<1> QED BY <1>1, <1>4 DEF t

\* The first element that is left is dropped; the others follow it.
LEMMA DropElementBox ==
  ASSUME NoWrap, BoxInv, NEW o \in Owner, DropElement(o)
  PROVE  Implements
<1> DEFINE w == own[o]  w2 == [own[o] EXCEPT !.next = @ + 1]  n == w.len - w.next
<1>1. /\ own' = [own EXCEPT ![o] = w2] /\ mem' = mem /\ lost' = lost
      /\ w.st = "dropping" /\ w.next < w.len
      /\ dropped' = dropped \cup ({Reads(w, mem, w.next)} \cap Value)
  BY DEF DropElement, Reads
<1>2. w \in Wrappers
  BY DEF BoxInv, OwnerInv, OwnTypes
<1>3. /\ w2.st = "dropping" /\ w2.len = w.len /\ w2.next = w.next + 1 /\ w2.ptr = w.ptr
      /\ n \in Nat \ {0} /\ w2.len - w2.next = n - 1
      /\ w.next + 1 - 1 = w.next /\ w.next \in Nat
  BY <1>1, <1>2 DEF Wrappers
<1> HIDE DEF w2
<1>4. Others(o) /\ own'[o] = w2
  BY <1>1, SameMemory
<1> DEFINE s == [i \in 1..n |-> Slot(w, mem, i)]  s2 == [i \in 1..(n - 1) |-> Slot(w2, mem, i)]
<1>5. /\ BoxIn(w, mem) = BoxWith("dropping", s) /\ BoxIn(w2, mem) = BoxWith("dropping", s2)
      /\ HeldIn(w, mem) = {s[i] : i \in 1..n} \cap Value
      /\ HeldIn(w2, mem) = {s2[i] : i \in 1..(n - 1)} \cap Value
  <2>1. SlotsAre(s, w, mem, n) /\ SlotsAre(s2, w2, mem, n - 1)
    BY <1>3 DEF SlotsAre
  <2> HIDE DEF n, s, s2
  <2> QED BY <1>1, <1>3, <2>1, PlainBox DEF Plain
<1>6. \A i \in 1..(n - 1) : Slot(w2, mem, i) = Slot(w, mem, i + 1) /\ i + 1 \in 1..n
  <2> SUFFICES ASSUME NEW i \in 1..(n - 1)
               PROVE  Slot(w2, mem, i) = Slot(w, mem, i + 1) /\ i + 1 \in 1..n
    OBVIOUS
  <2>1. w.next + 1 + i - 1 = w.next + (i + 1) - 1 /\ i + 1 \in 1..n
    BY <1>3
  <2> QED BY <1>1, <1>3, <2>1 DEF Slot, Reads
<1>7. Slot(w, mem, 1) = Reads(w, mem, w.next) /\ 1 \in 1..n
  BY <1>1, <1>3 DEF Slot
<1>8. s # <<>> /\ Head(s) = Slot(w, mem, 1) /\ s2 = Tail(s)
  <2> DEFINE S == {Slot(w, mem, i) : i \in 1..n}
  <2>1. s \in [1..n -> S] /\ s[1] = Slot(w, mem, 1)
    BY <1>7
  <2>2. \A i \in 1..(n - 1) : s2[i] = s[i + 1]
    BY <1>6
  <2>3. s2 = [i \in 1..(n - 1) |-> s[i + 1]]
    BY <2>2
  <2> HIDE DEF n, s, s2, S
  <2>4. s \in Seq(S) /\ Len(s) = n
    BY <1>3, <2>1
  <2> QED BY <1>3, <2>1, <2>3, <2>4, TailIs
<1>10. /\ HeldIn(w2, mem) \subseteq HeldIn(w, mem)
       /\ {Reads(w, mem, w.next)} \cap Value \subseteq HeldIn(w, mem)
  <2>1. \A i \in 1..(n - 1) : s2[i] = s[i + 1] /\ i + 1 \in 1..n
    BY <1>6
  <2>2. s[1] = Reads(w, mem, w.next)
    BY <1>7
  <2> HIDE DEF n, w, s, s2
  <2> QED BY <1>5, <1>7, <2>1, <2>2
<1> HIDE DEF s, s2, n
<1>11. AllBoxes[o] = BoxIn(w, mem)
  BY BoxNow DEF AllBoxes
<1>12. BoxStep
  <2>1. AllBoxes' = [AllBoxes EXCEPT ![o] = BoxWith("dropping", Tail(s))]
    BY <1>1, <1>4, <1>5, <1>8, BoxesBecome
  <2> QED BY <1>1, <1>5, <1>7, <1>8, <1>11, <2>1, AbsDropElement
<1>13. KeptApart'
  <2>1. ~Building(own'[o])
    BY <1>3, <1>4 DEF Building
  <2>2. HeldIn(own'[o], mem') \cup dropped' \cup lost' \subseteq Used \cup {born + 1}
    <3>1. HeldIn(w, mem) \subseteq Used
      BY DEF Used, HeldNow
    <3> QED BY <1>1, <1>4, <1>10, <3>1 DEF Used
  <2> QED BY <1>4, <2>1, <2>2, KeptLeft
<1>14. Staged(own'[o], mem')
  BY <1>3, <1>4 DEF Staged
<1> QED BY <1>4, <1>12, <1>13, <1>14, StagedStays DEF Implements

\* Writing element i of a box that is used, or being filled.
WritesElement(o, i, st, w2) ==
  /\ i \in 0..(own[o].len - 1) /\ born + 1 \in Value
  /\ Plain(st) /\ own[o].st = st /\ own[o].next = 0
  /\ own' = [own EXCEPT ![o] = w2]
  /\ w2.st = st /\ w2.len = own[o].len /\ w2.next = 0 /\ w2.ptr = own[o].ptr
  /\ st = "uninit" => w2.filled = own[o].filled \cup {i}
  /\ mem' = Stored(mem, Element(own[o].ptr, i), born + 1)

\* What becomes of its box.
BoxWritten(o, i, st, s) ==
  /\ i + 1 \in DOMAIN s /\ s[i + 1] = Slot(own[o], mem, i + 1)
  /\ AllBoxes[o] = BoxWith(st, s)
  /\ AllBoxes' = [AllBoxes EXCEPT ![o] = BoxWith(st, [s EXCEPT ![i + 1] = born + 1])]

LEMMA WriteElement ==
  ASSUME NoWrap, BoxInv, NEW o \in Owner, NEW i, NEW st, NEW w2, WritesElement(o, i, st, w2)
  PROVE  /\ Others(o) /\ own'[o] = w2
         /\ Reads(w2, mem', i) = born + 1
         /\ \A j \in 0..(own[o].len - 1) : j # i => Reads(w2, mem', j) = Reads(own[o], mem, j)
         /\ \E s : BoxWritten(o, i, st, s)
         /\ Slot(own[o], mem, i + 1) \in Value => Slot(own[o], mem, i + 1) \in Used
         /\ HeldIn(w2, mem') \subseteq Used \cup {born + 1}
<1> USE DEF WritesElement
<1> DEFINE w == own[o]  n == own[o].len  v == born + 1
           s == [j \in 1..n |-> Slot(w, mem, j)]  s2 == [s EXCEPT ![i + 1] = v]
<1>1. w \in Wrappers /\ n \in Nat
  BY DEF BoxInv, OwnerInv, OwnTypes, Wrappers
<1>2. Owns(o)
  BY <1>1 DEF Plain, Owns
<1>3. /\ WritesOnly(Ground(o)) /\ Reads(w, mem', i) = v
      /\ \A j \in 0..(n - 1) : j # i => Reads(w, mem', j) = Reads(w, mem, j)
  BY <1>2, StoreElement
<1>4. /\ Reads(w2, mem', i) = v
      /\ \A j \in 0..(n - 1) : j # i => Reads(w2, mem', j) = Reads(w, mem, j)
  BY <1>3 DEF Reads
<1>5. Others(o) /\ own'[o] = w2
  BY <1>2, <1>3, OwnGroundOnly DEF BoxInv, OwnerInv, OwnTypes
<1>6. \A j \in 1..n : j - 1 \in 0..(n - 1) /\ 0 + j - 1 = j - 1
  BY <1>1
<1>7. i + 1 \in 1..n /\ (i + 1) - 1 = i
  BY <1>1
<1>8. ASSUME NEW j \in 1..n
      PROVE  Slot(w2, mem', j) = IF j = i + 1 THEN v ELSE Slot(w, mem, j)
  <2>1. CASE j = i + 1
    BY <1>4, <1>6, <1>7, <2>1 DEF Slot
  <2>2. CASE j # i + 1
    <3>1. j - 1 # i
      BY <2>2
    <3>2. Reads(w2, mem', j - 1) = Reads(w, mem, j - 1)
      BY <1>4, <1>6, <3>1
    <3>3. st = "uninit" => (j - 1 \in w2.filled <=> j - 1 \in w.filled)
      BY <3>1
    <3> QED BY <1>6, <2>2, <3>2, <3>3 DEF Slot
  <2> QED BY <2>1, <2>2
<1>9. s2 = [j \in 1..n |-> Slot(w2, mem', j)]
  BY <1>8
<1>10. SlotsAre(s, w, mem, n) /\ SlotsAre(s2, w2, mem', n)
  BY <1>1, <1>9 DEF SlotsAre
<1>11. DOMAIN s = 1..n /\ s[i + 1] = Slot(w, mem, i + 1)
  BY <1>7
<1>12. \A j \in 1..n : s2[j] = s[j] \/ s2[j] = v
  OBVIOUS
<1> HIDE DEF s
<1>13. s2 = [s EXCEPT ![i + 1] = v]
  OBVIOUS
<1> HIDE DEF n, s2
<1>14. /\ BoxIn(w, mem) = BoxWith(st, s) /\ BoxIn(w2, mem') = BoxWith(st, s2)
       /\ HeldIn(w, mem) = {s[j] : j \in 1..n} \cap Value
       /\ HeldIn(w2, mem') = {s2[j] : j \in 1..n} \cap Value
  BY <1>10, PlainBox
<1>15. AllBoxes[o] = BoxWith(st, s)
  BY <1>14, BoxNow DEF AllBoxes
<1>16. AllBoxes' = [AllBoxes EXCEPT ![o] = BoxWith(st, s2)]
  BY <1>5, <1>14, BoxesBecome
<1>17. HeldIn(w, mem) \subseteq Used
  BY DEF Used, HeldNow
<1>18. Slot(w, mem, i + 1) \in Value => Slot(w, mem, i + 1) \in Used
  BY <1>7, <1>11, <1>14, <1>17
<1>19. HeldIn(w2, mem') \subseteq Used \cup {v}
  BY <1>12, <1>14, <1>17
<1>20. BoxWritten(o, i, st, s)
  BY <1>7, <1>11, <1>13, <1>15, <1>16 DEF BoxWritten
<1> QED BY <1>4, <1>5, <1>18, <1>19, <1>20 DEF n

LEMMA InitSlotBox ==
  ASSUME NoWrap, BoxInv, NEW o \in Owner, NEW i, InitSlot(o, i)
  PROVE  Implements
<1> DEFINE w == own[o]  w2 == [own[o] EXCEPT !.filled = @ \cup {i}]  v == born + 1
<1>1. /\ own' = [own EXCEPT ![o] = w2] /\ UNCHANGED <<dropped, lost>>
      /\ w.st = "uninit" /\ i \in 0..(w.len - 1) /\ i \notin w.filled /\ v \in Value
      /\ mem' = Stored(mem, Element(w.ptr, i), v)
  BY DEF InitSlot
<1>2. w \in Wrappers /\ Staged(w, mem) /\ w.filled \subseteq 0..(w.len - 1)
  BY DEF BoxInv, OwnerInv, OwnTypes, ValueTypes, Shaped
<1>3. /\ w2.st = "uninit" /\ w2.len = w.len /\ w2.next = 0 /\ w.next = 0 /\ w2.ptr = w.ptr
      /\ w2.filled = w.filled \cup {i} /\ (i + 1) - 1 = i
  BY <1>1, <1>2 DEF Wrappers, Staged
<1> HIDE DEF w2
<1>40. WritesElement(o, i, "uninit", w2)
  BY <1>1, <1>3 DEF Plain, WritesElement
<1>4. /\ Others(o) /\ own'[o] = w2 /\ Reads(w2, mem', i) = v
      /\ \A j \in 0..(w.len - 1) : j # i => Reads(w2, mem', j) = Reads(w, mem, j)
      /\ HeldIn(w2, mem') \subseteq Used \cup {v}
  BY <1>40, WriteElement
<1>5. PICK s : BoxWritten(o, i, "uninit", s)
  BY <1>40, WriteElement
<1>6. Slot(w, mem, i + 1) = Hole
  BY <1>1, <1>3 DEF Slot
<1>7. v \in Value \ Used
  BY <1>1, BornNew
<1>8. BoxStep
  BY <1>1, <1>5, <1>6, <1>7, AbsFill DEF BoxWritten
<1>9. KeptApart'
  <2>1. ~Building(own'[o])
    BY <1>3, <1>4 DEF Building
  <2>2. HeldIn(own'[o], mem') \cup dropped' \cup lost' \subseteq Used \cup {born + 1}
    BY <1>1, <1>4 DEF Used
  <2> QED BY <1>4, <2>1, <2>2, KeptLeft
<1>10. Staged(own'[o], mem')
  <2>1. \A j \in w.filled : j \in 0..(w.len - 1) /\ j # i /\ Reads(w, mem, j) \in Value
    BY <1>1, <1>2 DEF Staged
  <2> QED BY <1>1, <1>3, <1>4, <2>1 DEF Staged
<1> QED BY <1>4, <1>8, <1>9, <1>10, StagedStays DEF Implements

LEMMA AssignBox ==
  ASSUME NoWrap, BoxInv, NEW o \in Owner, NEW i \in 0..(own[o].len - 1), Assign(o, i)
  PROVE  Implements
<1> DEFINE w == own[o]  v == born + 1
<1>1. /\ own' = own /\ lost' = lost /\ w.st = "init" /\ v \in Value
      /\ dropped' = dropped \cup ({Reads(w, mem, i)} \cap Value)
      /\ mem' = Stored(mem, Element(w.ptr, i), v)
  BY DEF Assign, Reads
<1>2. w \in Wrappers /\ Staged(w, mem) /\ own' = [own EXCEPT ![o] = w]
  BY <1>1 DEF BoxInv, OwnerInv, OwnTypes
<1>3. w.next = 0 /\ (i + 1) - 1 = i /\ 0 + (i + 1) - 1 = i
  BY <1>1, <1>2 DEF Staged
<1>40. WritesElement(o, i, "init", w)
  BY <1>1, <1>2, <1>3 DEF Plain, WritesElement
<1>4. /\ Others(o) /\ own'[o] = w /\ HeldIn(w, mem') \subseteq Used \cup {v}
      /\ Slot(w, mem, i + 1) \in Value => Slot(w, mem, i + 1) \in Used
  BY <1>40, WriteElement
<1>5. PICK s : BoxWritten(o, i, "init", s)
  BY <1>40, WriteElement
<1>6. Slot(w, mem, i + 1) = Reads(w, mem, i)
  BY <1>1, <1>3 DEF Slot
<1>7. v \in Value \ Used
  BY <1>1, BornNew
<1>8. BoxStep
  BY <1>1, <1>5, <1>6, <1>7, AbsAssign DEF BoxWritten
<1>9. KeptApart'
  <2>1. ~Building(own'[o])
    BY <1>1, <1>4 DEF Building
  <2>2. HeldIn(own'[o], mem') \cup dropped' \cup lost' \subseteq Used \cup {born + 1}
    BY <1>1, <1>4, <1>6 DEF Used
  <2> QED BY <1>4, <2>1, <2>2, KeptLeft
<1>10. Staged(own'[o], mem')
  BY <1>1, <1>3, <1>4 DEF Staged
<1> QED BY <1>4, <1>8, <1>9, <1>10, StagedStays DEF Implements

(***************************************************************************)
(* Blocks stay apart, and every step is one of boxes or leaves them alone. *)
(***************************************************************************)
LEMMA NewBlockApart ==
  ASSUME NoWrap, BoxInv, NEW o \in Owner, NEW type \in Type, NEW n \in Lengths(type), NEW c,
         NEW b \in Base, Allocated(o, type, n, c, b)
  PROVE  BlocksApart'
<1> DEFINE k == Bytes(type, n)
<1>1. /\ b..(b + k - 1) \subseteq Addr
      /\ \A d \in DOMAIN heap : Extent(b, k) \cap Extent(d, heap[d].bytes) = {}
  BY FreshBlock
<1>2. /\ DOMAIN heap' = DOMAIN heap \cup {b} /\ heap'[b].bytes = k
      /\ \A d \in DOMAIN heap : d # b => heap'[d] = heap[d]
  BY DEF Allocated, Given
<1> HIDE DEF k
<1>3. \A d \in DOMAIN heap' : d..(d + heap'[d].bytes - 1) \subseteq Addr
  BY <1>1, <1>2 DEF BoxInv, BlocksApart
<1>4. ASSUME NEW d \in DOMAIN heap', NEW e \in DOMAIN heap', d # e
      PROVE  Extent(d, heap'[d].bytes) \cap Extent(e, heap'[e].bytes) = {}
  <2>1. CASE d = b
    <3>1. e \in DOMAIN heap /\ heap'[e] = heap[e]
      BY <1>2, <1>4, <2>1
    <3> QED BY <1>1, <1>2, <2>1, <3>1
  <2>2. CASE e = b
    <3>1. d \in DOMAIN heap /\ heap'[d] = heap[d]
      BY <1>2, <1>4, <2>2
    <3> QED BY <1>1, <1>2, <2>2, <3>1
  <2>3. CASE d # b /\ e # b
    <3>1. d \in DOMAIN heap /\ e \in DOMAIN heap /\ heap'[d] = heap[d] /\ heap'[e] = heap[e]
      BY <1>2, <2>3
    <3> QED BY <1>4, <3>1 DEF BoxInv, BlocksApart
  <2> QED BY <2>1, <2>2, <2>3
<1> QED BY <1>3, <1>4 DEF BlocksApart, Extent, Span

LEMMA FewerBlocksApart ==
  ASSUME BlocksApart, NEW S, S \subseteq DOMAIN heap, heap' = [b \in S |-> heap[b]]
  PROVE  BlocksApart'
<1>1. DOMAIN heap' = S /\ \A b \in S : heap'[b] = heap[b]
  OBVIOUS
<1> QED BY <1>1 DEF BlocksApart, Extent, Span

LEMMA BlocksStayApart ==
  ASSUME NoWrap, BoxInv, Next
  PROVE  BlocksApart'
<1>1. PICK o \in Owner :
        \/ NewFails(o) \/ Clone(o) \/ CloneEnds(o) \/ DropCloned(o)
        \/ AssumeInit(o) \/ Leak(o) \/ DropBegins(o) \/ DropElement(o) \/ Free(o)
        \/ \E i \in 0..(own[o].len - 1) : InitSlot(o, i) \/ Assign(o, i)
        \/ \E type \in Type, b \in Base : \E n \in Lengths(type), c \in Cachings(type) :
             \/ New(o, type, n, c, b) \/ NewSlice(o, type, n, c, b)
             \/ NewUninit(o, type, n, c, b) \/ NewZeroed(o, type, n, c, b)
  BY DEF Next
<1>2. CASE UNCHANGED heap
  BY <1>2 DEF BoxInv, BlocksApart, Extent, Span
<1>3. CASE Free(o)
  <2>1. heap' = heap \/ heap' = [b \in DOMAIN heap \ {own[o].ptr} |-> heap[b]]
    BY <1>3 DEF Free
  <2> QED BY <1>2, <2>1, FewerBlocksApart DEF BoxInv
<1>4. ASSUME NEW type \in Type, NEW b \in Base, NEW n \in Lengths(type), NEW c,
             \/ New(o, type, n, c, b) \/ NewSlice(o, type, n, c, b)
             \/ NewUninit(o, type, n, c, b) \/ NewZeroed(o, type, n, c, b)
      PROVE  BlocksApart'
  <2>1. Allocated(o, type, n, c, b)
    BY <1>4 DEF New, NewSlice, NewUninit, NewZeroed
  <2> QED BY <2>1, NewBlockApart
<1>5. CASE \/ NewFails(o) \/ Clone(o) \/ CloneEnds(o) \/ DropCloned(o)
           \/ AssumeInit(o) \/ Leak(o) \/ DropBegins(o) \/ DropElement(o)
           \/ \E i \in 0..(own[o].len - 1) : InitSlot(o, i) \/ Assign(o, i)
  <2>1. UNCHANGED heap
    BY <1>5 DEF NewFails, Clone, CloneEnds, DropCloned, AssumeInit, Leak, DropBegins,
                DropElement, InitSlot, Assign
  <2> QED BY <1>2, <2>1
<1> QED BY <1>1, <1>3, <1>4, <1>5

LEMMA StepImplements ==
  ASSUME NoWrap, BoxInv, Next
  PROVE  Implements
<1>1. PICK o \in Owner :
        \/ NewFails(o) \/ Clone(o) \/ CloneEnds(o) \/ DropCloned(o)
        \/ AssumeInit(o) \/ Leak(o) \/ DropBegins(o) \/ DropElement(o) \/ Free(o)
        \/ \E i \in 0..(own[o].len - 1) : InitSlot(o, i) \/ Assign(o, i)
        \/ \E type \in Type, b \in Base : \E n \in Lengths(type), c \in Cachings(type) :
             \/ New(o, type, n, c, b) \/ NewSlice(o, type, n, c, b)
             \/ NewUninit(o, type, n, c, b) \/ NewZeroed(o, type, n, c, b)
  BY DEF Next
<1>2. NewFails(o) => Implements
  BY NewFailsBox
<1>3. Clone(o) => Implements
  BY CloneBox
<1>4. CloneEnds(o) => Implements
  BY CloneEndsBox
<1>5. DropCloned(o) => Implements
  BY DropClonedBox
<1>6. AssumeInit(o) => Implements
  BY AssumeInitBox
<1>7. Leak(o) => Implements
  BY LeakBox
<1>8. DropBegins(o) => Implements
  BY DropBeginsBox
<1>9. DropElement(o) => Implements
  BY DropElementBox
<1>10. Free(o) => Implements
  BY FreeBox
<1>11. ASSUME NEW i \in 0..(own[o].len - 1), InitSlot(o, i) \/ Assign(o, i)
       PROVE  Implements
  BY <1>11, InitSlotBox, AssignBox
<1>12. ASSUME NEW type \in Type, NEW b \in Base, NEW n \in Lengths(type), NEW c,
              \/ New(o, type, n, c, b) \/ NewSlice(o, type, n, c, b)
              \/ NewUninit(o, type, n, c, b) \/ NewZeroed(o, type, n, c, b)
       PROVE  Implements
  BY <1>12, NewBox, NewSliceBox, NewUninitBox, NewZeroedBox
<1> QED
  BY <1>1, <1>2, <1>3, <1>4, <1>5, <1>6, <1>7, <1>8, <1>9, <1>10, <1>11, <1>12

LEMMA TypesStay ==
  ASSUME OwnTypes, ValueTypes, Next
  PROVE  ValueTypes'
BY NewTypes, UseTypes, EndTypes DEF Next

LEMMA BoxStutter ==
  ASSUME BoxInv, UNCHANGED vars
  PROVE  BoxInv' /\ BoxStep
<1>1. (ValueTypes /\ BlocksApart)'
  BY DEF vars, BoxInv, ValueTypes, BlocksApart, Extent, Span
<1>2. OwnerInv'
  BY OwnerStepInv DEF BoxInv
<1>3. KeptApart' /\ (\A o \in Owner : Staged(own[o], mem))'
  <2>1. Used' = Used
    BY DEF vars, Used, HeldNow
  <2> QED BY <2>1 DEF vars, BoxInv, KeptApart
<1>4. AllBoxes' = AllBoxes
  BY DEF vars, AllBoxes, BoxOf
<1>5. BoxStep
  BY <1>4, AbsStutter DEF vars
<1> QED BY <1>1, <1>2, <1>3, <1>5 DEF BoxInv

LEMMA BoxInvInit == Init => BoxInv /\ Boxes!BoxInit
<1> SUFFICES ASSUME Init PROVE BoxInv /\ Boxes!BoxInit
  OBVIOUS
<1>1. own = [o \in Owner |-> Nothing] /\ Nothing.st = "none" /\ DOMAIN heap = {}
  BY DEF Init, Nothing
<1>2. OwnerInv
  BY OwnerInitInv
<1>3. ValueTypes
  BY PoolOwnerAssumption DEF Init, ValueTypes, Nothing, Shaped, Holds, OldByte
<1>4. BlocksApart
  BY <1>1 DEF BlocksApart
<1>5. KeptApart /\ \A o \in Owner : Staged(own[o], mem)
  BY <1>1 DEF KeptApart, Staged, Building
<1>6. AllBoxes = [o \in Owner |-> Boxes!NoBox]
  BY <1>1, EmptyBox, BoxNow DEF AllBoxes
<1>7. Boxes!BoxInit
  BY <1>6 DEF Boxes!BoxInit, Init
<1> QED BY <1>2, <1>3, <1>4, <1>5, <1>7 DEF BoxInv

LEMMA BoxInvNext ==
  ASSUME NoWrap, BoxInv, [Next]_vars
  PROVE  BoxInv' /\ BoxStep
<1>1. CASE Next
  <2>1. Implements
    BY <1>1, StepImplements
  <2>2. OwnerInv' /\ ValueTypes' /\ BlocksApart'
    BY <1>1, OwnerStepInv, TypesStay, BlocksStayApart DEF BoxInv, OwnerInv
  <2> QED BY <2>1, <2>2 DEF Implements, BoxInv
<1>2. CASE UNCHANGED vars
  BY <1>2, BoxStutter
<1> QED BY <1>1, <1>2

\* Every behaviour of the wrappers is one of boxes of values, for any number of owners that
\* take turns anywhere in each other's constructors and destructors: memory that the kernel
\* hands out again, with whatever is left in it, never shows in another wrapper, and each
\* value is dropped once or lost with the wrapper it was in.
THEOREM OwnersAreBoxes ==
  ASSUME NoWrap
  PROVE  Spec => ImplementsBox
<1>1. Init => BoxInv /\ Boxes!BoxInit
  BY BoxInvInit
<1>2. BoxInv /\ [Next]_vars => BoxInv' /\ BoxStep
  BY BoxInvNext
<1> QED BY <1>1, <1>2, PTL DEF Spec, ImplementsBox, Boxes!BoxSpec, BoxStep

(***************************************************************************)
(* What this comes to: a value is at one place of one box, or has met its  *)
(* end, once.  Box keeps it so, because boxes are filled with spare values *)
(* only.                                                                   *)
(***************************************************************************)
Met == dropped \cup lost
Distinct(s) == \A i, j \in DOMAIN s : s[i] = s[j] /\ s[i] \in Value => i = j

EachOnce ==
  /\ \A o \in Owner : Distinct(AllBoxes[o].vals) /\ Boxes!In(AllBoxes[o]) \cap Met = {}
  /\ \A o, q \in Owner : o # q => Boxes!In(AllBoxes[o]) \cap Boxes!In(AllBoxes[q]) = {}
  /\ dropped \cap lost = {}

Elems == Value \cup {Zero, Hole}
InSeq(s) == {s[i] : i \in DOMAIN s} \cap Value

LEMMA InIs ==
  ASSUME NEW k, NEW s
  PROVE  Boxes!In(BoxWith(k, s)) = InSeq(s) /\ BoxWith(k, s).vals = s /\ BoxWith(k, s).kind = k
BY BoxParts DEF Boxes!In, InSeq

LEMMA ReadsElems ==
  ASSUME NEW w, NEW m, NEW i
  PROVE  Reads(w, m, i) \in Elems
BY DEF Reads, ValueAt, Elems

LEMMA BoxShape ==
  ASSUME BoxInv, NEW o \in Owner
  PROVE  /\ AllBoxes[o] = BoxWith(AllBoxes[o].kind, AllBoxes[o].vals)
         /\ AllBoxes[o].vals \in Seq(Elems)
<1>0. SUFFICES \E k : \E s \in Seq(Elems) : AllBoxes[o] = BoxWith(k, s)
  <2>1. PICK k : \E s \in Seq(Elems) : AllBoxes[o] = BoxWith(k, s)
    BY <1>0
  <2>2. PICK s \in Seq(Elems) : AllBoxes[o] = BoxWith(k, s)
    BY <2>1
  <2> QED BY <2>2, BoxParts
<1> DEFINE w == own[o]
<1>1. AllBoxes[o] = BoxIn(w, mem)
  BY BoxNow DEF AllBoxes
<1>2. w.len \in Nat /\ w.next \in 0..w.len
  BY DEF BoxInv, OwnerInv, OwnTypes, Wrappers, ValueTypes, Shaped
<1> HIDE DEF w
<1>3. CASE w.st \in {"none", "cloning"}
  <2>1. BoxIn(w, mem) = BoxWith("none", <<>>)
    BY <1>3 DEF BoxIn, BoxWith
  <2>2. <<>> \in Seq(Elems)
    OBVIOUS
  <2> QED BY <1>1, <2>1, <2>2
<1>4. CASE w.st \notin {"none", "cloning"}
  <2> DEFINE n == w.len - w.next  s == [i \in 1..n |-> Slot(w, mem, i)]
             k == IF w.st = "returning" THEN "init" ELSE w.st
  <2>1. BoxIn(w, mem) = BoxWith(k, s)
    BY <1>4 DEF BoxIn, BoxWith
  <2>2. n \in Nat
    BY <1>2
  <2>3. \A i \in 1..n : Slot(w, mem, i) \in Elems
    BY ReadsElems DEF Slot, Elems
  <2> HIDE DEF n
  <2>4. s \in Seq(Elems)
    BY <2>2, <2>3
  <2> HIDE DEF s, k
  <2> QED BY <1>1, <2>1, <2>4
<1> QED BY <1>3, <1>4

\* One box changes, to values it had or spare ones; what it loses is dropped or lost.
LEMMA OneBoxChanges ==
  ASSUME EachOnce, NEW o \in Owner, NEW b, AllBoxes' = [AllBoxes EXCEPT ![o] = b],
         Distinct(b.vals), Boxes!In(b) \subseteq Boxes!In(AllBoxes[o]) \cup Boxes!Spare,
         dropped' \subseteq dropped \cup Boxes!In(AllBoxes[o]),
         lost' \subseteq lost \cup Boxes!In(AllBoxes[o]),
         Boxes!In(b) \cap Met' = {}, dropped' \cap lost' = {}
  PROVE  EachOnce'
<1>1. \A q \in Owner : AllBoxes'[q] = IF q = o THEN b ELSE AllBoxes[q]
  BY DEF AllBoxes
<1>2. \A q \in Owner : Boxes!In(AllBoxes[q]) \subseteq Boxes!Held
  BY DEF Boxes!Held
<1>3. \A q \in Owner : Boxes!Spare \cap Boxes!In(AllBoxes[q]) = {}
  BY <1>2 DEF Boxes!Spare
<1>4. ASSUME NEW q \in Owner, q # o
      PROVE  /\ Boxes!In(AllBoxes[q]) \cap Met' = {}
             /\ Boxes!In(AllBoxes[q]) \cap Boxes!In(b) = {}
  <2>1. /\ Boxes!In(AllBoxes[q]) \cap Met = {}
        /\ Boxes!In(AllBoxes[q]) \cap Boxes!In(AllBoxes[o]) = {}
    BY <1>4 DEF EachOnce
  <2> QED BY <1>3, <2>1 DEF Met
<1>5. \A q \in Owner : Distinct(AllBoxes'[q].vals) /\ Boxes!In(AllBoxes'[q]) \cap Met' = {}
  BY <1>1, <1>4 DEF EachOnce
<1>6. \A p, q \in Owner : p # q => Boxes!In(AllBoxes'[p]) \cap Boxes!In(AllBoxes'[q]) = {}
  <2> SUFFICES ASSUME NEW p \in Owner, NEW q \in Owner, p # q
               PROVE  Boxes!In(AllBoxes'[p]) \cap Boxes!In(AllBoxes'[q]) = {}
    OBVIOUS
  <2>1. CASE p = o
    BY <1>1, <1>4, <2>1
  <2>2. CASE q = o
    BY <1>1, <1>4, <2>2
  <2>3. CASE p # o /\ q # o
    BY <1>1, <2>3 DEF EachOnce
  <2> QED BY <2>1, <2>2, <2>3
<1> QED BY <1>5, <1>6 DEF EachOnce, Distinct, Boxes!In

\* The same, without an end of values.
LEMMA NoneEnds ==
  ASSUME EachOnce, NEW o \in Owner, NEW b, AllBoxes' = [AllBoxes EXCEPT ![o] = b],
         Distinct(b.vals), Boxes!In(b) \subseteq Boxes!In(AllBoxes[o]) \cup Boxes!Spare,
         UNCHANGED <<dropped, lost>>
  PROVE  EachOnce'
<1>1. Boxes!In(AllBoxes[o]) \cap Met = {} /\ dropped \cap lost = {}
  BY DEF EachOnce
<1>2. Boxes!Spare \cap Met = {}
  BY DEF Boxes!Spare, Met
<1>3. Met' = Met
  BY DEF Met
<1> QED BY <1>1, <1>2, <1>3, OneBoxChanges

\* Replacing an element by a spare value.
LEMMA Replaced ==
  ASSUME NEW s \in Seq(Elems), Distinct(s), NEW i \in DOMAIN s, NEW v, v \notin InSeq(s),
         NEW t, t = [s EXCEPT ![i] = v]
  PROVE  /\ Distinct(t) /\ InSeq(t) \subseteq InSeq(s) \cup {v}
         /\ s[i] \in Value => s[i] \notin InSeq(t)
<1>1. DOMAIN t = DOMAIN s /\ \A j \in DOMAIN s : t[j] = IF j = i THEN v ELSE s[j]
  OBVIOUS
<1>2. \A j \in DOMAIN s : s[j] \in Value => s[j] # v
  BY DEF InSeq
<1> QED BY <1>1, <1>2 DEF Distinct, InSeq

LEMMA NewOnce ==
  ASSUME BoxInv, EachOnce, NEW o \in Owner,
         Boxes!New(o) \/ Boxes!NewOf(o, "init", Zero) \/ Boxes!NewOf(o, "uninit", Hole)
  PROVE  EachOnce'
<1>1. CASE Boxes!New(o)
  <2>1. PICK n \in 0..Longest : \E s \in [1..n -> Boxes!Spare] :
          /\ \A i, j \in 1..n : s[i] = s[j] => i = j
          /\ AllBoxes' = [AllBoxes EXCEPT ![o] = BoxWith("init", s)]
          /\ UNCHANGED <<dropped, lost>>
    BY <1>1 DEF Boxes!New, Boxes!Becomes, BoxWith
  <2>10. PICK s \in [1..n -> Boxes!Spare] :
           /\ \A i, j \in 1..n : s[i] = s[j] => i = j
           /\ AllBoxes' = [AllBoxes EXCEPT ![o] = BoxWith("init", s)]
           /\ UNCHANGED <<dropped, lost>>
    BY <2>1
  <2> DEFINE b == BoxWith("init", s)
  <2>2. Distinct(b.vals) /\ Boxes!In(b) \subseteq Boxes!Spare
    BY <2>10, InIs DEF InSeq, Distinct
  <2> HIDE DEF b
  <2>3. AllBoxes' = [AllBoxes EXCEPT ![o] = b] /\ UNCHANGED <<dropped, lost>>
    BY <2>10 DEF b
  <2> QED BY <2>2, <2>3, NoneEnds
<1>2. ASSUME NEW k, NEW x \in {Zero, Hole}, Boxes!NewOf(o, k, x)
      PROVE  EachOnce'
  <2>1. PICK n \in 0..Longest :
          /\ AllBoxes' = [AllBoxes EXCEPT ![o] = BoxWith(k, [i \in 1..n |-> x])]
          /\ UNCHANGED <<dropped, lost>>
    BY <1>2 DEF Boxes!NewOf, Boxes!Becomes, BoxWith
  <2> DEFINE s == [i \in 1..n |-> x]  b == BoxWith(k, s)
  <2>2. x \notin Value
    BY PoolOwnerAssumption
  <2>3. Distinct(s) /\ InSeq(s) = {}
    BY <2>2 DEF InSeq, Distinct
  <2>4. AllBoxes' = [AllBoxes EXCEPT ![o] = b] /\ UNCHANGED <<dropped, lost>>
    BY <2>1
  <2> HIDE DEF s
  <2>5. Distinct(b.vals) /\ Boxes!In(b) = {}
    BY <2>3, InIs
  <2> HIDE DEF b
  <2> QED BY <2>4, <2>5, NoneEnds
<1> QED BY <1>1, <1>2

\* Fill and Assign
LEMMA WriteOnce ==
  ASSUME BoxInv, EachOnce, NEW o \in Owner, NEW i \in DOMAIN AllBoxes[o].vals,
         Boxes!Fill(o, i) \/ Boxes!Assign(o, i)
  PROVE  EachOnce'
<1> DEFINE k == AllBoxes[o].kind  s == AllBoxes[o].vals
<1>1. AllBoxes[o] = BoxWith(k, s) /\ s \in Seq(Elems)
  BY BoxShape
<1>2. AllBoxes[o].vals = s /\ Boxes!In(AllBoxes[o]) = InSeq(s) /\ i \in DOMAIN s
  BY <1>1, InIs
<1> HIDE DEF k, s
<1>3. PICK v \in Boxes!Spare : AllBoxes' = [AllBoxes EXCEPT ![o] = [AllBoxes[o] EXCEPT !.vals[i] = v]]
  BY DEF Boxes!Fill, Boxes!Assign, Boxes!Becomes
<1> DEFINE t == [s EXCEPT ![i] = v]  b == BoxWith(k, t)
<1>4. [AllBoxes[o] EXCEPT !.vals[i] = v] = b
  <2>1. [BoxWith(k, s) EXCEPT !.vals[i] = v] = BoxWith(k, [s EXCEPT ![i] = v])
    BY DEF BoxWith
  <2> QED BY <1>1, <2>1
<1>5. v \notin InSeq(s) /\ v \notin Met
  <2>1. InSeq(s) \subseteq Boxes!Held
    BY <1>2 DEF Boxes!Held
  <2> QED BY <2>1 DEF Boxes!Spare, Met
<1>6. Distinct(s) /\ InSeq(s) \cap Met = {} /\ dropped \cap lost = {}
  BY <1>2 DEF EachOnce
<1> HIDE DEF t
<1>7. /\ Distinct(t) /\ InSeq(t) \subseteq InSeq(s) \cup {v}
      /\ s[i] \in Value => s[i] \notin InSeq(t)
  BY <1>1, <1>2, <1>5, <1>6, Replaced DEF t
<1>8. b.vals = t /\ Boxes!In(b) = InSeq(t)
  BY InIs
<1>9. AllBoxes' = [AllBoxes EXCEPT ![o] = b]
  BY <1>3, <1>4
<1> HIDE DEF b
<1>10. CASE Boxes!Fill(o, i)
  BY <1>2, <1>7, <1>8, <1>9, <1>10, NoneEnds DEF Boxes!Fill
<1>11. CASE Boxes!Assign(o, i)
  <2>1. dropped' = dropped \cup ({s[i]} \cap Value) /\ lost' = lost
    BY <1>2, <1>11 DEF Boxes!Assign
  <2>2. {s[i]} \cap Value \subseteq InSeq(s)
    BY <1>2 DEF InSeq
  <2>3. InSeq(t) \cap Met' = {} /\ dropped' \cap lost' = {}
    BY <1>5, <1>6, <1>7, <2>1, <2>2 DEF Met
  <2>4. /\ Boxes!In(b) \subseteq Boxes!In(AllBoxes[o]) \cup Boxes!Spare /\ Distinct(b.vals)
        /\ dropped' \subseteq dropped \cup Boxes!In(AllBoxes[o])
        /\ lost' \subseteq lost \cup Boxes!In(AllBoxes[o])
        /\ Boxes!In(b) \cap Met' = {}
    BY <1>2, <1>7, <1>8, <2>1, <2>2, <2>3
  <2> QED BY <1>9, <2>3, <2>4, OneBoxChanges
<1> QED BY <1>10, <1>11

\* The steps that change the kind of a box, or end it.
LEMMA EndOnce ==
  ASSUME BoxInv, EachOnce, NEW o \in Owner,
         \/ Boxes!AssumeInit(o) \/ Boxes!Forget(o) \/ Boxes!DropBegins(o) \/ Boxes!DropEnds(o)
  PROVE  EachOnce'
<1> DEFINE k == AllBoxes[o].kind  s == AllBoxes[o].vals
<1>1. AllBoxes[o] = BoxWith(k, s) /\ s \in Seq(Elems)
  BY BoxShape
<1>2. /\ AllBoxes[o].vals = s /\ Boxes!In(AllBoxes[o]) = InSeq(s)
      /\ Distinct(s) /\ InSeq(s) \cap Met = {} /\ dropped \cap lost = {}
  BY <1>1, InIs DEF EachOnce
<1> HIDE DEF k, s
<1>3. ASSUME NEW l, AllBoxes' = [AllBoxes EXCEPT ![o] = [AllBoxes[o] EXCEPT !.kind = l]],
             UNCHANGED <<dropped, lost>>
      PROVE  EachOnce'
  <2> DEFINE b == BoxWith(l, s)
  <2>0. [BoxWith(k, s) EXCEPT !.kind = l] = BoxWith(l, s)
    BY DEF BoxWith
  <2>1. [AllBoxes[o] EXCEPT !.kind = l] = b
    BY <1>1, <2>0
  <2>2. b.vals = s /\ Boxes!In(b) = InSeq(s)
    BY InIs
  <2> HIDE DEF b
  <2> QED BY <1>2, <1>3, <2>1, <2>2, NoneEnds
<1>4. CASE Boxes!AssumeInit(o)
  BY <1>3, <1>4 DEF Boxes!AssumeInit, Boxes!Becomes
<1>5. CASE Boxes!DropBegins(o)
  BY <1>3, <1>5 DEF Boxes!DropBegins, Boxes!Becomes
<1> DEFINE e == Boxes!NoBox
<1>6. Distinct(e.vals) /\ Boxes!In(e) = {}
  BY DEF Boxes!NoBox, Boxes!In, Distinct
<1> HIDE DEF e
<1>7. CASE Boxes!DropEnds(o)
  <2>1. AllBoxes' = [AllBoxes EXCEPT ![o] = e] /\ UNCHANGED <<dropped, lost>>
    BY <1>7 DEF Boxes!DropEnds, Boxes!Becomes, e
  <2> QED BY <1>6, <2>1, NoneEnds
<1>8. CASE Boxes!Forget(o)
  <2>1. /\ AllBoxes' = [AllBoxes EXCEPT ![o] = e]
        /\ lost' = lost \cup InSeq(s) /\ dropped' = dropped
    BY <1>2, <1>8 DEF Boxes!Forget, Boxes!Becomes, e
  <2>2. dropped' \cap lost' = {}
    BY <1>2, <2>1 DEF Met
  <2> QED BY <1>2, <1>6, <2>1, <2>2, OneBoxChanges
<1> QED BY <1>4, <1>5, <1>7, <1>8

LEMMA DropOnce ==
  ASSUME BoxInv, EachOnce, NEW o \in Owner, Boxes!DropElement(o)
  PROVE  EachOnce'
<1> DEFINE k == AllBoxes[o].kind  s == AllBoxes[o].vals
<1>1. AllBoxes[o] = BoxWith(k, s) /\ s \in Seq(Elems)
  BY BoxShape
<1>2. /\ AllBoxes[o].vals = s /\ Boxes!In(AllBoxes[o]) = InSeq(s)
      /\ Distinct(s) /\ InSeq(s) \cap Met = {} /\ dropped \cap lost = {}
  BY <1>1, InIs DEF EachOnce
<1> HIDE DEF k, s
<1> DEFINE t == Tail(s)  n == Len(s)  b == BoxWith(k, t)
<1>3. s # <<>> /\ dropped' = dropped \cup ({Head(s)} \cap Value) /\ lost' = lost
  BY <1>2 DEF Boxes!DropElement
<1>4. n \in Nat \ {0} /\ DOMAIN s = 1..n /\ Len(s) = n
  BY <1>3
<1>5. Head(s) = s[1] /\ t = [i \in 1..(n - 1) |-> s[i + 1]]
  <2> HIDE DEF n
  <2> QED BY <1>1, <1>4, TailIs
<1>6. AllBoxes' = [AllBoxes EXCEPT ![o] = b]
  <2>0. [BoxWith(k, s) EXCEPT !.vals = t] = BoxWith(k, t)
    <3> HIDE DEF t
    <3> QED BY DEF BoxWith
  <2>1. [AllBoxes[o] EXCEPT !.vals = Tail(@)] = b
    <3>1. [AllBoxes[o] EXCEPT !.vals = Tail(AllBoxes[o].vals)] = b
      BY <1>1, <1>2, <2>0
    <3> QED BY <3>1
  <2> QED BY <2>1 DEF Boxes!DropElement, Boxes!Becomes
<1> HIDE DEF t, n
<1>7. DOMAIN t = 1..(n - 1) /\ \A i \in 1..(n - 1) : t[i] = s[i + 1] /\ i + 1 \in 1..n /\ i + 1 # 1
  BY <1>4, <1>5
<1>8. 1 \in 1..n
  BY <1>4
<1>9. Distinct(t) /\ InSeq(t) \subseteq InSeq(s)
  <2>1. InSeq(t) \subseteq InSeq(s)
    BY <1>4, <1>7 DEF InSeq
  <2>2. ASSUME NEW i \in 1..(n - 1), NEW j \in 1..(n - 1), t[i] = t[j], t[i] \in Value PROVE i = j
    <3>1. i + 1 = j + 1
      BY <1>2, <1>4, <1>7, <2>2 DEF Distinct
    <3> QED BY <1>4, <3>1
  <2> QED BY <1>7, <2>1, <2>2 DEF Distinct
<1>10. {Head(s)} \cap Value \subseteq InSeq(s) /\ ({Head(s)} \cap Value) \cap InSeq(t) = {}
  <2>1. s[1] \in Value => s[1] \in InSeq(s)
    BY <1>4, <1>8 DEF InSeq
  <2>2. ASSUME NEW i \in 1..(n - 1), t[i] = s[1], s[1] \in Value PROVE FALSE
    BY <1>2, <1>4, <1>7, <1>8, <2>2 DEF Distinct
  <2> QED BY <1>5, <1>7, <2>1, <2>2 DEF InSeq
<1>11. b.vals = t /\ Boxes!In(b) = InSeq(t)
  BY InIs
<1> HIDE DEF b
<1>12. InSeq(t) \cap Met' = {} /\ dropped' \cap lost' = {}
  BY <1>2, <1>3, <1>9, <1>10 DEF Met
<1>13. /\ Distinct(b.vals) /\ Boxes!In(b) \subseteq Boxes!In(AllBoxes[o]) \cup Boxes!Spare
       /\ Boxes!In(b) \cap Met' = {} /\ dropped' \cap lost' = {}
  BY <1>2, <1>9, <1>11, <1>12
<1>14. dropped' \subseteq dropped \cup Boxes!In(AllBoxes[o]) /\ lost' \subseteq lost \cup Boxes!In(AllBoxes[o])
  BY <1>2, <1>3, <1>10
<1> QED BY <1>6, <1>13, <1>14, OneBoxChanges

LEMMA SpareOnce ==
  ASSUME EachOnce, Boxes!DropSpare
  PROVE  EachOnce'
<1>1. PICK v \in Boxes!Spare :
        dropped' = dropped \cup {v} /\ AllBoxes' = AllBoxes /\ lost' = lost
  BY DEF Boxes!DropSpare
<1>2. v \notin lost /\ \A o \in Owner : v \notin Boxes!In(AllBoxes[o])
  BY DEF Boxes!Spare, Boxes!Held
<1>3. \A o \in Owner : Boxes!In(AllBoxes'[o]) = Boxes!In(AllBoxes[o]) /\ AllBoxes'[o].vals = AllBoxes[o].vals
  BY <1>1
<1>4. \A o \in Owner : Boxes!In(AllBoxes[o]) \cap Met' = {}
  BY <1>1, <1>2 DEF EachOnce, Met
<1>5. dropped' \cap lost' = {}
  BY <1>1, <1>2 DEF EachOnce
<1> QED BY <1>1, <1>3, <1>4, <1>5 DEF EachOnce, Distinct

\* Every value is dropped at most once, and no wrapper still holds a value that was dropped
\* or lost, or that another wrapper or another of its elements holds: neither the bytewise
\* moves of assume_init and leak nor memory that is reused doubles a value.
THEOREM ValuesMeetOneEnd ==
  ASSUME NoWrap
  PROVE  Spec => []EachOnce
<1>1. Init => BoxInv /\ EachOnce
  <2> SUFFICES ASSUME Init PROVE EachOnce
    BY BoxInvInit
  <2>1. AllBoxes = [o \in Owner |-> Boxes!NoBox] /\ dropped = {} /\ lost = {}
    BY BoxInvInit DEF Boxes!BoxInit
  <2>2. Boxes!In(Boxes!NoBox) = {} /\ Distinct(Boxes!NoBox.vals)
    BY DEF Boxes!NoBox, Boxes!In, Distinct
  <2> QED BY <2>1, <2>2 DEF EachOnce
<1>2. BoxInv /\ EachOnce /\ [Next]_vars => BoxInv' /\ EachOnce'
  <2> SUFFICES ASSUME BoxInv, EachOnce, [Next]_vars PROVE BoxInv' /\ EachOnce'
    OBVIOUS
  <2>1. BoxInv' /\ BoxStep
    BY BoxInvNext
  <2>2. CASE UNCHANGED Boxes!boxVars
    <3>1. AllBoxes' = AllBoxes /\ dropped' = dropped /\ lost' = lost
      BY <2>2 DEF Boxes!boxVars
    <3> QED BY <2>1, <3>1 DEF EachOnce, Met, Distinct, Boxes!In
  <2>3. CASE Boxes!BoxNext
    BY <2>1, <2>3, SpareOnce, NewOnce, EndOnce, DropOnce, WriteOnce DEF Boxes!BoxNext
  <2> QED BY <2>1, <2>2, <2>3 DEF BoxStep
<1> QED BY <1>1, <1>2, PTL DEF Spec
=============================================================================
