---------------------------- MODULE ReadOnlyWrite ----------------------------
(***************************************************************************)
(* memory::rw::write_to_read_only_memory, step by step, as several threads *)
(* run it over shared pages.  Every thread owns the Mdl that is the local  *)
(* variable `mdl` of its call (Handle <- Writer in module Mdl); the        *)
(* destructors at the end of the function are steps of their own.          *)
(***************************************************************************)
EXTENDS Mdl, Sequences

CONSTANTS Writer,    \* threads that call the function, again and again
          Request,   \* the calls: records [dst, src], dst 0 is the null address
          Addr,      \* addresses of code bytes
          PageSize   \* bytes per page

ASSUME WriteAssumption == /\ Handle = Writer
                          /\ TypicalUse = TRUE
                          /\ PageSize \in Nat \ {0}
                          /\ Page = {a \div PageSize : a \in Addr}

Valid(r) == r.dst # 0 /\ r.src # <<>>

ASSUME RequestAssumption ==
  /\ Addr \subseteq Nat
  /\ \A r \in Request :
       /\ r.dst \in Nat /\ r.src \in Seq({r.src[i] : i \in DOMAIN r.src})
       /\ Valid(r) => r.dst..(r.dst + Len(r.src) - 1) \subseteq Addr

VARIABLES
  mem,      \* mem[a]: the byte at address a
  pc,       \* where thread w is in its call
  req,      \* the arguments of the call
  left,     \* indices of src that are not copied yet
  ok,       \* the answer
  failed    \* history: a kernel routine reported a failure to this call

codeVars  == <<mem, left>>
localVars == <<req, ok, failed>>
vars == <<mdlVars, mem, pc, req, left, ok, failed>>

Goto(w, label) == pc' = [pc EXCEPT ![w] = label]
At(w, label) == stopped = "no" /\ pc[w] = label

Steps == {"idle", "check", "lock", "map", "protect", "copy", "unmap", "free", "returned"}

RWTypeOK ==
  /\ TypeOK
  /\ pc \in [Writer -> Steps]
  /\ req \in [Writer -> Request]
  /\ \A w \in Writer : left[w] \subseteq DOMAIN req[w].src
  /\ ok \in [Writer -> BOOLEAN]
  /\ failed \in [Writer -> BOOLEAN]

Init ==
  /\ MdlInit
  /\ mem = [a \in Addr |-> <<"text", a>>]
  /\ pc = [w \in Writer |-> "idle"]
  /\ req \in [Writer -> Request]
  /\ left = [w \in Writer |-> {}]
  /\ ok = [w \in Writer |-> FALSE]
  /\ failed = [w \in Writer |-> FALSE]

\* mutant: the bytes left over from the previous call are kept
Call_KeepsLeft(w) ==
  /\ At(w, "idle")
  /\ \E r \in Request : /\ req' = [req EXCEPT ![w] = r]
                        /\ left' = [left EXCEPT ![w] = @ \cup DOMAIN r.src]
  /\ ok' = [ok EXCEPT ![w] = FALSE]
  /\ failed' = [failed EXCEPT ![w] = FALSE]
  /\ Goto(w, "check")
  /\ UNCHANGED <<mdlVars, mem>>

Call(w) ==
  /\ At(w, "idle")
  /\ \E r \in Request : /\ req' = [req EXCEPT ![w] = r]
                        /\ left' = [left EXCEPT ![w] = DOMAIN r.src]
  /\ ok' = [ok EXCEPT ![w] = FALSE]
  /\ failed' = [failed EXCEPT ![w] = FALSE]
  /\ Goto(w, "check")
  /\ UNCHANGED <<mdlVars, mem>>

RejectArguments(w) ==
  /\ At(w, "check")
  /\ ~Valid(req[w])
  /\ Goto(w, "returned")
  /\ UNCHANGED <<mdlVars, codeVars, localVars>>

PagesOf(r) == {a \div PageSize : a \in r.dst..(r.dst + Len(r.src) - 1)}

MdlNew(w) ==
  /\ At(w, "check")
  /\ Valid(req[w])
  /\ New(w, PagesOf(req[w]))
  /\ Goto(w, "lock")
  /\ UNCHANGED <<codeVars, localVars>>

\* IoAllocateMdl returns null: nothing is owned yet.
MdlNewFails(w) ==
  /\ At(w, "check")
  /\ Valid(req[w])
  /\ failed' = [failed EXCEPT ![w] = TRUE]
  /\ Goto(w, "returned")
  /\ UNCHANGED <<mdlVars, codeVars, req, ok>>

MdlLock(w) ==
  /\ At(w, "lock")
  /\ Lock(w)
  /\ Goto(w, "map")
  /\ UNCHANGED <<codeVars, localVars>>

MdlLockRaises(w) ==
  /\ At(w, "lock")
  /\ LockRaises(w)
  /\ failed' = [failed EXCEPT ![w] = TRUE]
  /\ UNCHANGED <<codeVars, pc, req, ok>>

MdlMapLocked(w) ==
  /\ At(w, "map")
  /\ MapLocked(w)
  /\ Goto(w, "protect")
  /\ UNCHANGED <<codeVars, localVars>>

\* mutant: the early return leaks the Mdl instead of dropping it
MdlMapFails_Leaks(w) ==
  /\ At(w, "map")
  /\ failed' = [failed EXCEPT ![w] = TRUE]
  /\ Goto(w, "returned")
  /\ UNCHANGED <<mdlVars, codeVars, req, ok>>

\* mutant: a null mapping is not noticed
MdlMapFails_Ignored(w) ==
  /\ At(w, "map")
  /\ failed' = [failed EXCEPT ![w] = TRUE]
  /\ Goto(w, "copy")
  /\ UNCHANGED <<mdlVars, codeVars, req, ok>>

\* The early return still drops the Mdl.
MdlMapFails(w) ==
  /\ At(w, "map")
  /\ failed' = [failed EXCEPT ![w] = TRUE]
  /\ Goto(w, "free")
  /\ UNCHANGED <<mdlVars, codeVars, req, ok>>

\* The status of MmProtectMdlSystemAddress is thrown away; the pages were locked
\* for writing, so the view can be written whatever it answers.
Protect(w) ==
  /\ At(w, "protect")
  /\ \E fails \in BOOLEAN : failed' = [failed EXCEPT ![w] = fails]
  /\ Goto(w, "copy")
  /\ UNCHANGED <<mdlVars, codeVars, req, ok>>

\* mutant: the copy starts one byte too far
CopyByte_OffByOne(w) ==
  /\ At(w, "copy")
  /\ \E i \in left[w] :
       /\ mem' = [mem EXCEPT ![req[w].dst + i] = req[w].src[i]]
       /\ left' = [left EXCEPT ![w] = @ \ {i}]
  /\ UNCHANGED <<mdlVars, pc, localVars>>

\* mutant: the same byte is copied over and over
CopyByte_NoProgress(w) ==
  /\ At(w, "copy")
  /\ \E i \in left[w] : mem' = [mem EXCEPT ![req[w].dst + i - 1] = req[w].src[i]]
  /\ UNCHANGED <<mdlVars, pc, left, localVars>>

\* One byte of ptr::copy_nonoverlapping, in no fixed order.
CopyByte(w) ==
  /\ At(w, "copy")
  /\ \E i \in left[w] :
       /\ mem' = [mem EXCEPT ![req[w].dst + i - 1] = req[w].src[i]]
       /\ left' = [left EXCEPT ![w] = @ \ {i}]
  /\ UNCHANGED <<mdlVars, pc, localVars>>

CopyDone(w) ==
  /\ At(w, "copy")
  /\ left[w] = {}
  /\ ok' = [ok EXCEPT ![w] = TRUE]
  /\ Goto(w, "unmap")
  /\ UNCHANGED <<mdlVars, codeVars, req, failed>>

\* Locals are dropped in reverse order of declaration: the mapping, then the Mdl.
DropMapping(w) ==
  /\ At(w, "unmap")
  /\ DropMap(w)
  /\ Goto(w, "free")
  /\ UNCHANGED <<codeVars, localVars>>

DropMdl(w) ==
  /\ At(w, "free")
  /\ Drop(w)
  /\ Goto(w, "returned")
  /\ UNCHANGED <<codeVars, localVars>>

Return(w) ==
  /\ At(w, "returned")
  /\ Goto(w, "idle")
  /\ UNCHANGED <<mdlVars, codeVars, localVars>>

Body(w) ==
  \/ RejectArguments(w) \/ MdlNew(w) \/ MdlNewFails(w)
  \/ MdlLock(w) \/ MdlLockRaises(w)
  \/ MdlMapLocked(w) \/ MdlMapFails(w)
  \/ Protect(w) \/ CopyByte(w) \/ CopyDone(w)
  \/ DropMapping(w) \/ DropMdl(w)

Next == \E w \in Writer : Call(w) \/ Body(w) \/ Return(w)

\* A thread that has entered the function keeps being scheduled.
Fairness == \A w \in Writer : WF_vars(Body(w))

Spec == Init /\ [][Next]_vars /\ Fairness

(***************************************************************************)
(* Properties.                                                             *)
(***************************************************************************)

\* "All temporary resources are automatically released before the function
\* returns" (rw.rs:34), on every path, and while other threads hold locks on the
\* same pages: the counts of a page are those of the calls still running.
NothingOutlivesTheCall ==
  \A p \in Page :
    LET Running(steps) == {w \in Writer : pc[w] \in steps /\ p \in region[w]}
    IN  /\ pins[p] = Cardinality(Running({"map", "protect", "copy", "unmap"})
                      \cup {w \in Running({"free"}) : held[w] > 0})
        /\ views[p] = Cardinality(Running({"protect", "copy", "unmap"}))

\* A byte is only stored through a view of a page that is locked and mapped at that
\* moment, whatever the other threads unlock and unmap.
StoresThroughLockedView ==
  [][\A a \in Addr : mem'[a] # mem[a] =>
        LET p == a \div PageSize IN pins[p] > 0 /\ views[p] > 0]_vars

\* The call as its caller sees it, for the contract of CodeWrite.
CallView == [w \in Writer |->
  IF pc[w] = "idle"
  THEN [st |-> "idle", dst |-> 0, src |-> <<>>, left |-> {}, ok |-> FALSE]
  ELSE [st |-> IF pc[w] = "returned" THEN "done" ELSE "writing",
        dst |-> req[w].dst, src |-> req[w].src, left |-> left[w],
        ok |-> pc[w] = "returned" /\ ok[w]]]

Contract == INSTANCE CodeWrite WITH call <- CallView

\* The function implements the contract of CodeWrite: FALSE means untouched, TRUE
\* means every byte written, nothing else is ever stored.
ImplementsCodeWrite == Contract!CodeWriteSpec

\* Every call returns, unless the lock raised and the system stopped.
CallsReturn == \A w \in Writer :
  pc[w] = "check" ~> (pc[w] = "returned" \/ stopped = "raised")

\* "Returns [...] `false` [if] any step of the operation failed" (rw.rs:44).
FailedStepAnswersFalse == \A w \in Writer :
  pc[w] = "returned" /\ failed[w] => ~ok[w]
=============================================================================
