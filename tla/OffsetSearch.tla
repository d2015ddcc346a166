---------------------------- MODULE OffsetSearch ----------------------------
(***************************************************************************)
(* process::eprocess: the three cached offsets, the scan of an accessor    *)
(* and initialize_cached_offsets; with them the cache of                   *)
(* get_initial_system_process, which initialization fills last.  Callers   *)
(* share the caches without a lock, and resolve routines as ModuleQuery    *)
(* does.                                                                   *)
(***************************************************************************)
EXTENDS ModuleQuery

CONSTANTS
  RoutineOf,     \* the accessor of each field, and PsInitialSystemProcess
  SystemProcess, \* the address of the initial system process
  Images,        \* the machine code that exports may lead to
  FieldOffset,   \* where the fields are
  Request        \* the names and routines that other callers resolve

Field == {"image base", "process id", "peb"}
System == "system process"
Item == Field \cup {System}

\* Instructions: mov rax, [rcx + d] is "mov", any other is "ret" or "other".
Instruction == [op : {"mov", "ret", "other"}, disp : Nat]

\* Code of an accessor: if it reads through rcx before it returns, it reads at d.
Accessor(c, d) ==
  /\ c \in Seq(Instruction)
  /\ \A n \in DOMAIN c :
       c[n].op = "mov" /\ (\A k \in 1..(n - 1) : c[k].op = "other") => c[n].disp = d

ASSUME OffsetAssumption ==
  /\ \A m \in Module \ {Kernel} : PathOf[Kernel] \notin {PathOf[m], FileOf[m]}
  /\ RoutineOf \in [Item -> Exports[Kernel]]
  /\ SystemProcess \in Nat \ {0}
  /\ FieldOffset \in [Field -> Nat \ {0}]
  /\ \A image \in Images, f \in Field : Accessor(image[<<Kernel, RoutineOf[f]>>], FieldOffset[f])

VARIABLES
  code,     \* code[<<module, routine>>]: the PAGE_SIZE bytes from a routine on
  cache,    \* PEB_OFFSET and the others; 0 is nothing cached
  call,     \* call[t]: the searches of a call, as a sequence of items
  next,     \* the position of the search that is next, or under way; 0 without a call
  val,      \* the offset found, before it is stored
  result,
  inited,   \* history: an initialization has answered Ok(true)
  late      \* history: the call began after that

searchVars == <<code, cache, call, next, val, result, inited, late>>
vars == <<systemVars, stopped, pc, resolveVars, searchVars>>

NtosPath == PathOf[Kernel]

\* mutant: one search is missing
InitItems_NoPeb == <<"image base", "process id", System>>

\* The order of initialize_cached_offsets, which ends with get_initial_system_process.
InitItems == <<"image base", "process id", "peb", System>>

NoResult == [tag |-> "no", val |-> 0]
Ok(x) == [tag |-> "ok", val |-> x]
OkNone == [tag |-> "none", val |-> 0]
SearchError == [tag |-> "err", val |-> 0]

Init ==
  /\ ModuleInit
  /\ code \in Images
  /\ cache = [i \in Item |-> 0]
  /\ call = [t \in Thread |-> <<>>]
  /\ next = [t \in Thread |-> 0]
  /\ val = [t \in Thread |-> 0]
  /\ result = [t \in Thread |-> NoResult]
  /\ inited = FALSE
  /\ late = [t \in Thread |-> FALSE]

-----------------------------------------------------------------------------

\* search_..._offset, get_initial_system_process or initialize_cached_offsets
Call(t) ==
  /\ pc[t] = "idle"
  /\ \E items \in {<<i>> : i \in Item} \cup {InitItems} : call' = [call EXCEPT ![t] = items]
  /\ next' = [next EXCEPT ![t] = 1]
  /\ late' = [late EXCEPT ![t] = inited]
  /\ Goto(t, "load")
  /\ UNCHANGED <<systemVars, stopped, resolveVars, code, cache, val, result, inited>>

\* resolve_system_routine, called by somebody else
CallResolve(t) ==
  /\ pc[t] = "idle"
  /\ \E r \in Request : Resolve(t, r.name, r.routine)
  /\ UNCHANGED searchVars

Current(t) == call[t][next[t]]

\* One search of a call has come to x; what is left of the call goes on.
Found(t, x) ==
  /\ next' = [next EXCEPT ![t] = @ + 1]
  /\ IF next[t] < Len(call[t])
     THEN Goto(t, "load") /\ UNCHANGED <<result, inited>>
     ELSE /\ Goto(t, "returned")
          /\ result' = [result EXCEPT ![t] = Ok(x)]
          /\ inited' = (inited \/ call[t] = InitItems)

Ends(t, r) ==
  /\ Goto(t, "returned")
  /\ result' = [result EXCEPT ![t] = r]

\* cache.load, and the arguments for the resolution if there is nothing in it
LoadCache(t) ==
  /\ pc[t] = "load"
  /\ \/ /\ cache[Current(t)] # 0
        /\ Found(t, cache[Current(t)])
        /\ UNCHANGED <<systemVars, stopped, resolveVars>>
     \/ /\ cache[Current(t)] = 0
        /\ Resolve(t, NtosPath, RoutineOf[Current(t)])
        /\ UNCHANGED <<next, result, inited>>
  /\ UNCHANGED <<code, cache, call, val, late>>

\* Any failure is the error of the call: UnknownFunction, or UnknownModule.
ResolveFailed(t) ==
  /\ pc[t] = "resolved" /\ next[t] # 0
  /\ answer[t].tag # "some"
  /\ Ends(t, SearchError)
  /\ ForgetResolution(t)
  /\ UNCHANGED <<systemVars, stopped, code, cache, call, next, val, inited, late>>

\* What a scan that found nothing answers.
NoOffset == 0 - 1

\* mutant: a ret does not end the scan
Scan_PastRet(c) ==
  LET movs == {n \in DOMAIN c : c[n].op = "mov" /\ \A k \in 1..(n - 1) : c[k].op # "mov"}
  IN  IF movs = {} THEN NoOffset ELSE c[CHOOSE n \in movs : TRUE].disp

\* find_structure_offset: the first mov from [rcx + d] unless a ret comes first.
Scan(c) ==
  LET movs == {n \in DOMAIN c : c[n].op = "mov" /\ \A k \in 1..(n - 1) : c[k].op = "other"}
  IN  IF movs = {} THEN NoOffset ELSE c[CHOOSE n \in movs : TRUE].disp

\* mutant: what was not found is cached as well
ReadRoutine_NoneStored(t) ==
  /\ pc[t] = "resolved" /\ next[t] # 0
  /\ answer[t].tag = "some"
  /\ val' = [val EXCEPT ![t] =
       IF Current(t) = System THEN SystemProcess ELSE Scan(code[answer[t].val])]
  /\ Goto(t, "store")
  /\ ForgetResolution(t)
  /\ UNCHANGED <<systemVars, stopped, code, cache, call, next, result, inited, late>>

\* The value of an item at the address resolved: *exported for the system process.
ReadRoutine(t) ==
  /\ pc[t] = "resolved" /\ next[t] # 0
  /\ answer[t].tag = "some"
  /\ LET x == IF Current(t) = System THEN SystemProcess ELSE Scan(code[answer[t].val])
     IN  IF x = NoOffset
         THEN Ends(t, OkNone) /\ UNCHANGED val
         ELSE Goto(t, "store") /\ val' = [val EXCEPT ![t] = x] /\ UNCHANGED result
  /\ ForgetResolution(t)
  /\ UNCHANGED <<systemVars, stopped, code, cache, call, next, inited, late>>

StoreCache(t) ==
  /\ pc[t] = "store"
  /\ cache' = [cache EXCEPT ![Current(t)] = val[t]]
  /\ Found(t, val[t])
  /\ val' = [val EXCEPT ![t] = 0]
  /\ UNCHANGED <<systemVars, stopped, resolveVars, code, call, late>>

\* The caller takes the answer of a search, or of its own resolution.
Return(t) ==
  /\ pc[t] = "returned" \/ (pc[t] = "resolved" /\ next[t] = 0)
  /\ Goto(t, "idle")
  /\ call' = [call EXCEPT ![t] = <<>>]
  /\ next' = [next EXCEPT ![t] = 0]
  /\ result' = [result EXCEPT ![t] = NoResult]
  /\ late' = [late EXCEPT ![t] = FALSE]
  /\ ForgetResolution(t)
  /\ UNCHANGED <<systemVars, stopped, code, cache, val, inited>>

Next ==
  /\ ~stopped
  /\ \/ \E t \in Thread :
          \/ Call(t) \/ CallResolve(t) \/ LoadCache(t) \/ ResolveFailed(t)
          \/ ReadRoutine(t) \/ StoreCache(t) \/ Return(t)
          \/ ResolveStep(t) /\ UNCHANGED searchVars
     \/ \E m \in Module :
          /\ \/ \E b \in Base : LoadModule(m, b)
             \/ UnloadModule(m)
          /\ UNCHANGED searchVars

Spec == Init /\ [][Next]_vars

(***************************************************************************)
(* Properties.                                                             *)
(***************************************************************************)

Labels == {"idle", "load", "size", "fill", "export", "resolved", "store", "returned"}

TypeOK ==
  /\ \A i, j \in DOMAIN loaded : loaded[i] = loaded[j] => i = j
  /\ base \in [Module -> Base \cup {0}]
  /\ pc \in [Thread -> Labels]
  /\ size \in [Thread -> Nat]
  /\ found \in [Thread -> Module \cup {NoModule}]
  /\ place \in [Thread -> Base \cup {0}]
  /\ code \in Images
  /\ cache \in [Item -> Nat]
  /\ call \in [Thread -> Seq(Item)]
  /\ next \in [Thread -> Nat]
  /\ val \in [Thread -> Nat]

\* Whoever searches, alone or at the same time, through whatever cache, driver or
\* resolution: the offset answered is where the kernel at hand has the field, the address
\* is that of the system process, and a cache never holds anything else.
OffsetsRight ==
  /\ \A f \in Field : cache[f] \in {0, FieldOffset[f]}
  /\ cache[System] \in {0, SystemProcess}
  /\ \A t \in Thread : pc[t] = "returned" /\ Len(call[t]) = 1 /\ result[t].tag = "ok" =>
       result[t].val = IF call[t][1] = System THEN SystemProcess ELSE FieldOffset[call[t][1]]

\* eprocess.rs:365: "Calling this function during driver initialization allows subsequent
\* lookups to complete without performing any routine resolution or disassembly", so
\* that they succeed, too, whatever becomes of the queries.
InitSuffices == \A t \in Thread : late[t] /\ next[t] # 0 =>
  /\ pc[t] \in {"load", "returned"}
  /\ pc[t] = "returned" => result[t].tag = "ok"
=============================================================================
