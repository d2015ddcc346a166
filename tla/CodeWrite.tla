------------------------------ MODULE CodeWrite ------------------------------
(***************************************************************************)
(* What memory::rw::write_to_read_only_memory promises its callers: a call *)
(* that answers FALSE has not touched memory, a call that answers TRUE has *)
(* written every byte, and in between other processors see any subset of   *)
(* the new bytes, because ptr::copy_nonoverlapping is not atomic and fixes *)
(* no order.  ReadOnlyWrite shows that the code implements this; KHook is  *)
(* built on it.                                                            *)
(***************************************************************************)
EXTENDS Naturals, Sequences

CONSTANTS Writer,   \* concurrent callers, at most one call each at a time
          Request   \* the calls they make: records [dst, src], src a sequence of bytes

NullAddr == 0

VARIABLES
  mem,    \* mem[a]: the byte at address a
  call    \* call[w]: the call of w in progress

writeVars == <<mem, call>>

NoCall == [st |-> "idle", dst |-> 0, src |-> <<>>, left |-> {}, ok |-> FALSE]

CallIdle == call = [w \in Writer |-> NoCall]

\* The addresses of n bytes from dst on.
Span(dst, n) == dst..(dst + n - 1)

Begin(w, dst, src) ==
  /\ call[w].st = "idle"
  /\ call' = [call EXCEPT ![w] = [st |-> "writing", dst |-> dst, src |-> src,
                                  left |-> DOMAIN src, ok |-> FALSE]]
  /\ UNCHANGED mem

\* Answer FALSE.
Refuse(w) ==
  /\ call[w].st = "writing"
  /\ call[w].left = DOMAIN call[w].src
  /\ call' = [call EXCEPT ![w].st = "done"]
  /\ UNCHANGED mem

CopyByte(w) ==
  /\ call[w].st = "writing"
  /\ call[w].dst # NullAddr
  /\ \E i \in call[w].left :
       /\ mem' = [mem EXCEPT ![call[w].dst + i - 1] = call[w].src[i]]
       /\ call' = [call EXCEPT ![w].left = @ \ {i}]

\* Answer TRUE.
Complete(w) ==
  /\ call[w].st = "writing"
  /\ call[w].left = {}
  /\ call[w].src # <<>> /\ call[w].dst # NullAddr
  /\ call' = [call EXCEPT ![w].st = "done", ![w].ok = TRUE]
  /\ UNCHANGED mem

Return(w) ==
  /\ call[w].st = "done"
  /\ call' = [call EXCEPT ![w] = NoCall]
  /\ UNCHANGED mem

CodeWriteNext == \E w \in Writer :
  \/ \E r \in Request : Begin(w, r.dst, r.src)
  \/ Refuse(w)
  \/ CopyByte(w)
  \/ Complete(w)
  \/ Return(w)

CodeWriteSpec == CallIdle /\ [][CodeWriteNext]_writeVars
=============================================================================
