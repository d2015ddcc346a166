-------------------------------- MODULE Box --------------------------------
(***************************************************************************)
(* What the owners of pool.rs and contiguous.rs promise: a single one      *)
(* behaves like Box<T>, a slice like Box<[T]>, and one of MaybeUninit      *)
(* elements like a box of those.  A box holds values, not addresses: it    *)
(* shares nothing with other boxes, and each value is dropped once, by the *)
(* box it is in.                                                           *)
(***************************************************************************)
EXTENDS Naturals, Sequences

CONSTANTS
  Owner, Value,
  Zero,      \* what a zeroed element reads as; it has no destructor to run
  Hole,      \* an element of a MaybeUninit box that nobody has written
  MaxLen

VARIABLES
  boxes,     \* the box an owner variable holds
  dropped,   \* the values whose destructors have run
  lost       \* the values that were leaked, or left in a MaybeUninit box

boxVars == <<boxes, dropped, lost>>

NoBox == [kind |-> "none", vals |-> <<>>]
In(b) == {b.vals[i] : i \in DOMAIN b.vals} \cap Value
Held == UNION {In(boxes[o]) : o \in Owner}

\* Values that are in no box and have met no end.
Spare == Value \ (Held \cup dropped \cup lost)

BoxInit ==
  /\ boxes = [o \in Owner |-> NoBox]
  /\ dropped = {}
  /\ lost = {}

Becomes(o, b) == boxes' = [boxes EXCEPT ![o] = b]

New(o) ==
  /\ boxes[o] = NoBox
  /\ \E n \in 0..MaxLen : \E s \in [1..n -> Spare] :
       /\ \A i, j \in 1..n : s[i] = s[j] => i = j
       /\ Becomes(o, [kind |-> "init", vals |-> s])
  /\ UNCHANGED <<dropped, lost>>

\* new_zeroed and new_uninit
NewOf(o, kind, x) ==
  /\ boxes[o] = NoBox
  /\ \E n \in 0..MaxLen : Becomes(o, [kind |-> kind, vals |-> [i \in 1..n |-> x]])
  /\ UNCHANGED <<dropped, lost>>

\* The value given to a constructor is dropped if it was cloned, or not needed.
DropSpare ==
  /\ \E v \in Spare : dropped' = dropped \cup {v}
  /\ UNCHANGED <<boxes, lost>>

Fill(o, i) ==
  /\ boxes[o].kind = "uninit" /\ boxes[o].vals[i] = Hole
  /\ \E v \in Spare : Becomes(o, [boxes[o] EXCEPT !.vals[i] = v])
  /\ UNCHANGED <<dropped, lost>>

AssumeInit(o) ==
  /\ boxes[o].kind = "uninit"
  /\ \A i \in DOMAIN boxes[o].vals : boxes[o].vals[i] # Hole
  /\ Becomes(o, [boxes[o] EXCEPT !.kind = "init"])
  /\ UNCHANGED <<dropped, lost>>

\* An assignment drops the value it replaces.
Assign(o, i) ==
  /\ boxes[o].kind = "init"
  /\ \E v \in Spare : Becomes(o, [boxes[o] EXCEPT !.vals[i] = v])
  /\ dropped' = dropped \cup ({boxes[o].vals[i]} \cap Value)
  /\ UNCHANGED lost

\* A leaked box, and one of MaybeUninit, drops nothing that is in it.
Forget(o) ==
  /\ boxes[o].kind \in {"init", "uninit"}
  /\ Becomes(o, NoBox)
  /\ lost' = lost \cup In(boxes[o])
  /\ UNCHANGED dropped

DropBegins(o) ==
  /\ boxes[o].kind = "init"
  /\ Becomes(o, [boxes[o] EXCEPT !.kind = "dropping"])
  /\ UNCHANGED <<dropped, lost>>

DropElement(o) ==
  /\ boxes[o].kind = "dropping" /\ boxes[o].vals # <<>>
  /\ Becomes(o, [boxes[o] EXCEPT !.vals = Tail(@)])
  /\ dropped' = dropped \cup ({Head(boxes[o].vals)} \cap Value)
  /\ UNCHANGED lost

DropEnds(o) ==
  /\ boxes[o] = [kind |-> "dropping", vals |-> <<>>]
  /\ Becomes(o, NoBox)
  /\ UNCHANGED <<dropped, lost>>

BoxNext ==
  \/ DropSpare
  \/ \E o \in Owner :
       \/ New(o) \/ NewOf(o, "init", Zero) \/ NewOf(o, "uninit", Hole)
       \/ AssumeInit(o) \/ Forget(o)
       \/ DropBegins(o) \/ DropElement(o) \/ DropEnds(o)
       \/ \E i \in DOMAIN boxes[o].vals : Fill(o, i) \/ Assign(o, i)

BoxSpec == BoxInit /\ [][BoxNext]_boxVars
=============================================================================
