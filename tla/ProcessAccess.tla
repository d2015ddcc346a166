---------------------------- MODULE ProcessAccess ----------------------------
(***************************************************************************)
(* Two ways of getting at a process, over one set of process objects:      *)
(* process::get_process_by_id walks ActiveProcessLinks and takes neither a *)
(* lock nor a reference; memory::rw::mm_read_virtual_memory_from_pid and   *)
(* mm_write_virtual_memory_from_pid look the process up and hold a         *)
(* reference while they copy.  Meanwhile processes start, exit and are     *)
(* freed.  A node of the list is an EPROCESS or the list head; the walk    *)
(* cannot tell them apart.                                                 *)
(***************************************************************************)
EXTENDS Naturals, FiniteSets

CONSTANTS
  Proc,       \* memory for EPROCESS objects, used again when freed
  System,     \* the initial system process, which never exits
  Head,       \* PsActiveProcessHead: the list head, not part of an EPROCESS
  Null,
  Pid,        \* process identifiers
  SystemPid,
  Asked,      \* the identifiers that callers ask for
  HeadWord,   \* what lies where the head would have its process identifier
  Walker,     \* threads that call get_process_by_id
  Copier,     \* threads that call mm_read or mm_write
  Len         \* length of the buffer they copy

ASSUME ProcessAssumption ==
  /\ Walker \cap Copier = {} /\ IsFiniteSet(Copier)
  /\ System \in Proc /\ Head \notin Proc /\ Null \notin Proc \cup {Head}
  /\ "none" \notin Proc \cup {Head}
  /\ SystemPid \in Pid /\ Asked \subseteq Pid
  /\ Len \in Nat

VARIABLES
  st,      \* st[p]: "free", "active" (in the list) or "exited" (taken out of it)
  id,      \* id[p]: UniqueProcessId
  flink,   \* flink[n]: ActiveProcessLinks.Flink; an exited process keeps its own
  refs,    \* refs[p]: references taken by PsLookupProcessByProcessId
  cached,  \* what PS_INITIAL_SYSTEM_PROCESS_CACHE and PROCESS_ID_OFFSET hold
  pc, arg, \* per thread: the step, the pid asked for
  at,      \* at[w]: the local `process` of the walk
  answer,  \* answer[t]: what the call returned
  lasting, \* lasting[w]: processes with the pid asked for that have been active
           \* since the call began (history)
  matched, \* matched[w]: processes that were active with that pid at some moment
           \* since the call began (history)
  copied   \* copied[c]: bytes MmCopyVirtualMemory has moved

kernelVars == <<st, id, flink, refs>>
walkVars   == <<cached, at, lasting, matched>>
vars == <<st, id, flink, refs, cached, pc, arg, at, answer, lasting, matched, copied>>

Thread == Walker \cup Copier
Node == Proc \cup {Head}
Exists(p) == st[p] # "free"
Walking == {"pid", "flink"}
WalkLabel == {"idle", "system", "resolve", "offset", "find", "returned"} \cup Walking
CopyLabel == {"idle", "lookup", "copy", "deref", "returned"}

TypeOK ==
  /\ st \in [Proc -> {"free", "active", "exited"}]
  /\ id \in [Proc -> Pid]
  /\ flink \in [Node -> Node \cup {Null}]
  /\ refs \in [Proc -> 0..Cardinality(Copier)]
  /\ cached \subseteq {"system", "offset"}
  /\ pc \in [Thread -> WalkLabel \cup CopyLabel]
  /\ arg \in [Thread -> Pid]
  /\ at \in [Thread -> Node]
  /\ lasting \in [Walker -> SUBSET Proc] /\ matched \in [Walker -> SUBSET Proc]
  /\ copied \in [Copier -> 0..Len]

Init ==
  /\ st = [p \in Proc |-> IF p = System THEN "active" ELSE "free"]
  /\ id = [p \in Proc |-> SystemPid]
  /\ flink = [n \in Node |-> IF n = Head THEN System ELSE IF n = System THEN Head ELSE Null]
  /\ refs = [p \in Proc |-> 0]
  /\ cached = {}
  /\ pc = [t \in Thread |-> "idle"]
  /\ arg = [t \in Thread |-> SystemPid]
  /\ at = [t \in Thread |-> System]
  /\ answer = [t \in Thread |-> "none"]
  /\ lasting = [w \in Walker |-> {}]
  /\ matched = [w \in Walker |-> {}]
  /\ copied = [c \in Copier |-> 0]

(***************************************************************************)
(* The kernel.                                                             *)
(***************************************************************************)
Listed == {n \in Node : n = Head \/ st[n] = "active"}
Before(n) == CHOOSE m \in Listed : flink[m] = n

\* A new process enters at the tail of the list, under a pid that is not in use.
StartProcess(p) ==
  /\ st[p] = "free"
  /\ \E i \in Pid : /\ \A q \in Proc : Exists(q) => id[q] # i
                    /\ id' = [id EXCEPT ![p] = i]
                    /\ matched' = [w \in Walker |-> IF arg[w] = i THEN matched[w] \cup {p}
                                                    ELSE matched[w]]
  /\ st' = [st EXCEPT ![p] = "active"]
  /\ flink' = [flink EXCEPT ![Before(Head)] = p, ![p] = Head]
  /\ UNCHANGED <<refs, cached, at, lasting, pc, arg, answer, copied>>

ExitProcess(p) ==
  /\ st[p] = "active" /\ p # System
  /\ st' = [st EXCEPT ![p] = "exited"]
  /\ flink' = [flink EXCEPT ![Before(p)] = flink[p]]
  /\ lasting' = [w \in Walker |-> lasting[w] \ {p}]
  /\ UNCHANGED <<id, refs, cached, at, matched, pc, arg, answer, copied>>

\* The last reference is gone.  That no walk is under way is up to the callers of
\* get_process_by_id, which takes no reference itself; so nobody reads the memory
\* until it is used again.
FreeProcess(p) ==
  /\ st[p] = "exited" /\ refs[p] = 0
  /\ \A w \in Walker : pc[w] \notin Walking
  /\ st' = [st EXCEPT ![p] = "free"]
  /\ id' = [id EXCEPT ![p] = SystemPid]
  /\ flink' = [flink EXCEPT ![p] = Null]
  /\ matched' = [w \in Walker |-> matched[w] \ {p}]
  /\ UNCHANGED <<refs, cached, at, lasting, pc, arg, answer, copied>>

Goto(t, label) == pc' = [pc EXCEPT ![t] = label]
Answer(t, value) == Goto(t, "returned") /\ answer' = [answer EXCEPT ![t] = value]

(***************************************************************************)
(* get_process_by_id.                                                      *)
(***************************************************************************)
Lookup(w) ==
  /\ pc[w] = "idle"
  /\ \E i \in Asked :
       /\ arg' = [arg EXCEPT ![w] = i]
       /\ lasting' = [lasting EXCEPT ![w] = {p \in Proc : st[p] = "active" /\ id[p] = i}]
       /\ matched' = [matched EXCEPT ![w] = {p \in Proc : st[p] = "active" /\ id[p] = i}]
  /\ Goto(w, "system")
  /\ UNCHANGED <<kernelVars, cached, at, answer, copied>>

LoadSystem(w) ==
  /\ pc[w] = "system"
  /\ Goto(w, IF "system" \in cached THEN "offset" ELSE "resolve")
  /\ UNCHANGED <<kernelVars, walkVars, arg, answer, copied>>

ResolveSystem(w) ==
  /\ pc[w] = "resolve"
  /\ cached' = cached \cup {"system"}
  /\ Goto(w, "offset")
  /\ UNCHANGED <<kernelVars, at, lasting, matched, arg, answer, copied>>

LoadOffset(w) ==
  /\ pc[w] = "offset"
  /\ Goto(w, IF "offset" \in cached THEN "pid" ELSE "find")
  /\ at' = [at EXCEPT ![w] = System]
  /\ UNCHANGED <<kernelVars, cached, lasting, matched, arg, answer, copied>>

FindOffset(w) ==
  /\ pc[w] = "find"
  /\ cached' = cached \cup {"offset"}
  /\ Goto(w, "pid")
  /\ UNCHANGED <<kernelVars, at, lasting, matched, arg, answer, copied>>

\* No module, no export, no accessor pattern: the call ends with a SearchError and
\* nothing is cached.
SearchFails(w) ==
  /\ pc[w] \in {"resolve", "find"}
  /\ Answer(w, "error")
  /\ UNCHANGED <<kernelVars, walkVars, arg, copied>>

\* *(process + pid_offset)
PidAt(n) == IF n = Head THEN HeadWord ELSE id[n]

\* mutant: the walk advances before it answers
ReadPid_Advances(w) ==
  /\ pc[w] = "pid"
  /\ IF PidAt(at[w]) = arg[w] THEN Answer(w, flink[at[w]])
                              ELSE Goto(w, "flink") /\ UNCHANGED answer
  /\ UNCHANGED <<kernelVars, walkVars, arg, copied>>

ReadPid(w) ==
  /\ pc[w] = "pid"
  /\ IF PidAt(at[w]) = arg[w] THEN Answer(w, at[w])
                              ELSE Goto(w, "flink") /\ UNCHANGED answer
  /\ UNCHANGED <<kernelVars, walkVars, arg, copied>>

\* mutant: the walk ends one entry too early
ReadFlink_SkipsTail(w) ==
  /\ pc[w] = "flink"
  /\ LET next == flink[at[w]]
     IN  IF next = Null \/ flink[next] = Head
         THEN Answer(w, "none") /\ UNCHANGED at
         ELSE at' = [at EXCEPT ![w] = next] /\ Goto(w, "pid") /\ UNCHANGED answer
  /\ UNCHANGED <<kernelVars, cached, lasting, matched, arg, copied>>

\* mutant: nothing recognises that the walk has come round
ReadFlink_NoStop(w) ==
  /\ pc[w] = "flink"
  /\ LET next == flink[at[w]]
     IN  IF next = Null
         THEN Answer(w, "none") /\ UNCHANGED at
         ELSE at' = [at EXCEPT ![w] = next] /\ Goto(w, "pid") /\ UNCHANGED answer
  /\ UNCHANGED <<kernelVars, cached, lasting, matched, arg, copied>>

ReadFlink(w) ==
  /\ pc[w] = "flink"
  /\ LET next == flink[at[w]]
     IN  IF next \in {Null, System}
         THEN Answer(w, "none") /\ UNCHANGED at
         ELSE at' = [at EXCEPT ![w] = next] /\ Goto(w, "pid") /\ UNCHANGED answer
  /\ UNCHANGED <<kernelVars, cached, lasting, matched, arg, copied>>

\* The caller takes the answer; the locals of the call are gone.
Return(t) ==
  /\ pc[t] = "returned"
  /\ Goto(t, "idle")
  /\ arg' = [arg EXCEPT ![t] = SystemPid]
  /\ at' = [at EXCEPT ![t] = System]
  /\ answer' = [answer EXCEPT ![t] = "none"]
  /\ lasting' = [w \in Walker |-> IF w = t THEN {} ELSE lasting[w]]
  /\ matched' = [w \in Walker |-> IF w = t THEN {} ELSE matched[w]]
  /\ copied' = [c \in Copier |-> IF c = t THEN 0 ELSE copied[c]]
  /\ UNCHANGED <<kernelVars, cached>>

(***************************************************************************)
(* mm_read_virtual_memory_from_pid and mm_write_virtual_memory_from_pid:   *)
(* the same code but for the direction of the copy.                        *)
(***************************************************************************)
MmCall(c) ==
  /\ pc[c] = "idle"
  /\ \E i \in Asked : arg' = [arg EXCEPT ![c] = i]
  /\ Goto(c, "lookup")
  /\ UNCHANGED <<kernelVars, walkVars, answer, copied>>

\* mutant: the reference is given back before the copy
MmLookup_Unreferenced(c) ==
  /\ pc[c] = "lookup"
  /\ \E p \in Proc : /\ Exists(p) /\ id[p] = arg[c]
                     /\ at' = [at EXCEPT ![c] = p]
  /\ Goto(c, "copy")
  /\ UNCHANGED <<kernelVars, cached, lasting, matched, arg, answer, copied>>

\* PsLookupProcessByProcessId answers with a referenced process, or fails.
MmLookup(c) ==
  /\ pc[c] = "lookup"
  /\ \E p \in Proc : /\ Exists(p) /\ id[p] = arg[c]
                     /\ refs' = [refs EXCEPT ![p] = @ + 1]
                     /\ at' = [at EXCEPT ![c] = p]
  /\ Goto(c, "copy")
  /\ UNCHANGED <<st, id, flink, cached, lasting, matched, arg, answer, copied>>

\* mutant: the process is dereferenced although the lookup failed
MmLookupFails_Dereferences(c) ==
  /\ pc[c] = "lookup"
  /\ refs' = [refs EXCEPT ![at[c]] = @ - 1]
  /\ Answer(c, "status")
  /\ UNCHANGED <<st, id, flink, walkVars, arg, copied>>

MmLookupFails(c) ==
  /\ pc[c] = "lookup"
  /\ Answer(c, "status")
  /\ UNCHANGED <<kernelVars, walkVars, arg, copied>>

CopyByte(c) ==
  /\ pc[c] = "copy"
  /\ copied[c] < Len
  /\ copied' = [copied EXCEPT ![c] = @ + 1]
  /\ UNCHANGED <<kernelVars, walkVars, pc, arg, answer>>

\* MmCopyVirtualMemory returns a status of its own, whatever it has copied.
CopyEnds(c) ==
  /\ pc[c] = "copy"
  /\ \E status \in {"success", "status"} : answer' = [answer EXCEPT ![c] = status]
  /\ Goto(c, "deref")
  /\ UNCHANGED <<kernelVars, walkVars, arg, copied>>

\* mutant: a failed copy returns before the reference is given back
Dereference_AfterCheck(c) ==
  /\ pc[c] = "deref"
  /\ refs' = IF answer[c] = "status" THEN refs ELSE [refs EXCEPT ![at[c]] = @ - 1]
  /\ Answer(c, IF answer[c] = "status" THEN "status" ELSE "ok")
  /\ UNCHANGED <<st, id, flink, walkVars, arg, copied>>

\* ObfDereferenceObject, then the answer from the status and the count.
Dereference(c) ==
  /\ pc[c] = "deref"
  /\ refs' = [refs EXCEPT ![at[c]] = @ - 1]
  /\ Answer(c, IF answer[c] = "status" THEN "status"
               ELSE IF copied[c] = 0 THEN "unsuccessful"
               ELSE IF copied[c] # Len THEN "too small" ELSE "ok")
  /\ UNCHANGED <<st, id, flink, walkVars, arg, copied>>

WalkStep(w) ==
  \/ LoadSystem(w) \/ ResolveSystem(w) \/ LoadOffset(w) \/ FindOffset(w)
  \/ SearchFails(w) \/ ReadPid(w) \/ ReadFlink(w)

CopyStep(c) ==
  MmLookup(c) \/ MmLookupFails(c) \/ CopyByte(c) \/ CopyEnds(c) \/ Dereference(c)

Next ==
  \/ \E p \in Proc : StartProcess(p) \/ ExitProcess(p) \/ FreeProcess(p)
  \/ \E w \in Walker : Lookup(w) \/ WalkStep(w)
  \/ \E c \in Copier : MmCall(c) \/ CopyStep(c)
  \/ \E t \in Thread : Return(t)

\* A thread that has entered one of the functions keeps being scheduled.
Spec == /\ Init /\ [][Next]_vars
        /\ \A w \in Walker : WF_vars(WalkStep(w))
        /\ \A c \in Copier : WF_vars(CopyStep(c))

(***************************************************************************)
(* Properties.                                                             *)
(***************************************************************************)

\* "Ok(Some(process)) if a matching EPROCESS is found" (process/mod.rs:89): a process that
\* is answered was in the list, with the pid asked for, at a moment of the call, however
\* many stale links led the walk to it; never one that had left the list before, nor one
\* that had the pid in the same memory earlier.  The list head is answered only when the
\* word at its place is the pid asked for: the code takes it for an EPROCESS.
SomeWasListed ==
  [][\A w \in Walker : pc[w] = "pid" /\ pc'[w] = "returned" =>
       answer'[w] \in matched[w] \/ (answer'[w] = Head /\ HeadWord = arg[w])]_vars

\* "Ok(None) if no process with the specified identifier exists": a process that was in
\* the list during the whole call is not missed, even when the entry under the walk
\* exits and is followed by its stale link.
NoneMeansAbsent == \A w \in Walker :
  pc[w] = "returned" /\ answer[w] = "none" => lasting[w] = {}

\* Every walk comes round: no exit or start, in any order, sends it into a part of the
\* list that never leads back to the system process.
WalkEnds == \A w \in Walker : pc[w] = "system" ~> pc[w] = "returned"

\* mm_read and mm_write copy to and from the process that had the pid when it was looked
\* up, never to memory that was freed or belongs to another process since.
CopyTargetHeld == \A c \in Copier :
  pc[c] \in {"copy", "deref"} => Exists(at[c]) /\ id[at[c]] = arg[c]

\* The calls between lookup and release that got p.
Holders(p) == {c \in Copier : pc[c] \in {"copy", "deref"} /\ at[c] = p}

\* "its object reference is automatically released before returning" (rw.rs:70): the
\* references of a process are those of the calls between lookup and release, on every
\* path, so that an exited process can be freed.
ReferencesReturned == \A p \in Proc :
  refs[p] = Cardinality(Holders(p))
=============================================================================
