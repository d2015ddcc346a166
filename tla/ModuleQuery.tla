---------------------------- MODULE ModuleQuery ----------------------------
(***************************************************************************)
(* memory::module: resolve_system_routine, by way of query_system_module,  *)
(* get_system_module_base_address and find_exported_routine_by_name.       *)
(*                                                                         *)
(* The list of loaded modules is asked for twice, first for its size, and  *)
(* the base address found in it is used after that.  Drivers load and      *)
(* unload at any moment.  Names stand for all their spellings in upper and *)
(* lower case.                                                             *)
(***************************************************************************)
EXTENDS Naturals, Sequences

CONSTANTS
  Module, Kernel,      \* the kernel is a module that is never unloaded
  NoModule,
  Base,                \* where images are loaded; 0 is nowhere
  PathOf, FileOf,      \* the full path of a module and its file name
  Empty,               \* the empty string
  Exports,             \* the names each module exports
  Thread

ASSUME ModuleAssumption ==
  /\ Kernel \in Module /\ NoModule \notin Module
  /\ Base \subseteq Nat \ {0} /\ Base # {}
  /\ \A m \in Module : Empty \notin {PathOf[m], FileOf[m]} \cup Exports[m]

VARIABLES
  loaded,    \* the modules in the kernel's list, in its order
  base,      \* base[m]: the base address of a loaded module
  stopped,   \* the system has stopped: exports were read where no image is
  pc, want,  \* per thread: the step; the module name and the export asked for
  size,      \* the number of modules req_size has room for
  found,     \* the module the search came to
  place,     \* its base address, as the snapshot has it
  answer,
  grew,      \* history: a module was loaded between the two queries
  gone,      \* history: the module found was unloaded after the snapshot
  kept       \* history: the modules of that name that have been loaded since the call began

systemVars == <<loaded, base>>
resolveVars == <<want, size, found, place, answer, grew, gone, kept>>

NoAnswer == [tag |-> "no", val |-> <<>>]
None == [tag |-> "none", val |-> <<>>]
Err(status) == [tag |-> "err", val |-> <<status>>]
Some(m, routine) == [tag |-> "some", val |-> <<m, routine>>]

NoRequest == [name |-> Empty, routine |-> Empty]

ModuleInit ==
  /\ loaded = <<Kernel>>
  /\ base = [m \in Module |-> IF m = Kernel THEN CHOOSE b \in Base : TRUE ELSE 0]
  /\ stopped = FALSE
  /\ pc = [t \in Thread |-> "idle"]
  /\ want = [t \in Thread |-> NoRequest]
  /\ size = [t \in Thread |-> 0]
  /\ found = [t \in Thread |-> NoModule]
  /\ place = [t \in Thread |-> 0]
  /\ answer = [t \in Thread |-> NoAnswer]
  /\ grew = [t \in Thread |-> FALSE]
  /\ gone = [t \in Thread |-> FALSE]
  /\ kept = [t \in Thread |-> {}]

Goto(t, label) == pc' = [pc EXCEPT ![t] = label]

(***************************************************************************)
(* The kernel.                                                             *)
(***************************************************************************)
LoadModule(m, b) ==
  /\ base[m] = 0 /\ \A n \in Module : base[n] # b
  /\ loaded' = Append(loaded, m)
  /\ base' = [base EXCEPT ![m] = b]
  /\ grew' = [t \in Thread |-> grew[t] \/ pc[t] = "fill"]
  /\ UNCHANGED <<stopped, pc, want, size, found, place, answer, gone, kept>>

UnloadModule(m) ==
  /\ m # Kernel
  /\ \E i \in DOMAIN loaded :
       /\ loaded[i] = m
       /\ loaded' = SubSeq(loaded, 1, i - 1) \o SubSeq(loaded, i + 1, Len(loaded))
  /\ base' = [base EXCEPT ![m] = 0]
  /\ gone' = [t \in Thread |-> gone[t] \/ (pc[t] = "export" /\ found[t] = m)]
  /\ kept' = [t \in Thread |-> kept[t] \ {m}]
  /\ UNCHANGED <<stopped, pc, want, size, found, place, answer, grew>>

(***************************************************************************)
(* The code.                                                               *)
(***************************************************************************)

\* What a name names, by the documentation: the full NT path or the file name.
Asked(name) == {m \in Module : name \in {PathOf[m], FileOf[m]}}

\* resolve_system_routine, its check of the arguments
Resolve(t, name, routine) ==
  /\ want' = [want EXCEPT ![t] = [name |-> name, routine |-> routine]]
  /\ IF Empty \in {name, routine}
     THEN Goto(t, "resolved") /\ answer' = [answer EXCEPT ![t] = Err("invalid parameter")]
     ELSE Goto(t, "size") /\ UNCHANGED answer
  /\ kept' = [kept EXCEPT ![t] = {m \in Asked(name) : base[m] # 0}]
  /\ UNCHANGED <<systemVars, stopped, size, found, place, grew, gone>>

\* The first ZwQuerySystemInformation only says how long the list is.
QuerySize(t) ==
  /\ pc[t] = "size"
  /\ size' = [size EXCEPT ![t] = Len(loaded)]
  /\ Goto(t, "fill")
  /\ UNCHANGED <<systemVars, stopped, want, found, place, answer, grew, gone, kept>>

QueryAnswers(t, x) ==
  /\ answer' = [answer EXCEPT ![t] = x]
  /\ size' = [size EXCEPT ![t] = 0]
  /\ Goto(t, "resolved")
  /\ UNCHANGED <<systemVars, stopped, want, found, place, grew, gone, kept>>

\* Either call may fail for a reason of its own.
QueryFails(t) ==
  /\ pc[t] \in {"size", "fill"}
  /\ QueryAnswers(t, Err("query failed"))

\* mutant: a list that has grown is taken for one without the module
QueryMismatch_None(t) ==
  /\ pc[t] = "fill" /\ Len(loaded) > size[t]
  /\ QueryAnswers(t, None)

\* The second one refuses a buffer that has become too small.
QueryMismatch(t) ==
  /\ pc[t] = "fill" /\ Len(loaded) > size[t]
  /\ QueryAnswers(t, Err("length mismatch"))

\* path == target, or else the part of the path that is the file name
Matches(m, name) == name = PathOf[m] \/ name = FileOf[m]

\* The snapshot is private: it is filled, and searched in its order.
QueryFill(t) ==
  /\ pc[t] = "fill" /\ Len(loaded) <= size[t]
  /\ LET hits == {i \in DOMAIN loaded : Matches(loaded[i], want[t].name)}
     IN  \/ hits = {} /\ QueryAnswers(t, None)
         \/ \E i \in hits :
            /\ \A k \in hits : i <= k
            /\ found' = [found EXCEPT ![t] = loaded[i]]
            /\ place' = [place EXCEPT ![t] = base[loaded[i]]]
            /\ size' = [size EXCEPT ![t] = 0]
            /\ grew' = [grew EXCEPT ![t] = FALSE]
            /\ kept' = [kept EXCEPT ![t] = {}]
            /\ Goto(t, "export")
            /\ UNCHANGED <<systemVars, stopped, want, answer, gone>>

\* RtlFindExportedRoutineByName reads whatever image is at the address now.
FindExport(t) ==
  /\ pc[t] = "export"
  /\ LET here == {m \in Module : base[m] = place[t]}
     IN  \/ /\ here = {}
            /\ stopped' = TRUE
            /\ UNCHANGED <<pc, answer>>
         \/ \E m \in here :
              /\ answer' = [answer EXCEPT ![t] =
                   IF want[t].routine \in Exports[m] THEN Some(m, want[t].routine) ELSE None]
              /\ Goto(t, "resolved")
              /\ UNCHANGED stopped
  /\ place' = [place EXCEPT ![t] = 0]
  /\ UNCHANGED <<systemVars, want, size, found, grew, gone, kept>>

ResolveStep(t) ==
  QuerySize(t) \/ QueryFails(t) \/ QueryMismatch(t) \/ QueryFill(t) \/ FindExport(t)

\* The locals of the call are gone.
ForgetResolution(t) ==
  /\ want' = [want EXCEPT ![t] = NoRequest]
  /\ size' = [size EXCEPT ![t] = 0]
  /\ found' = [found EXCEPT ![t] = NoModule]
  /\ place' = [place EXCEPT ![t] = 0]
  /\ answer' = [answer EXCEPT ![t] = NoAnswer]
  /\ grew' = [grew EXCEPT ![t] = FALSE]
  /\ gone' = [gone EXCEPT ![t] = FALSE]
  /\ kept' = [kept EXCEPT ![t] = {}]

(***************************************************************************)
(* Properties.                                                             *)
(***************************************************************************)

\* What resolve_system_routine answers is right, drivers or no drivers: a routine is an
\* export of the module that was asked for, by path or by file name; None means that no
\* such module was there throughout, or that it has no such export; a mismatch means that
\* a driver was loaded.  The exception is a module that was unloaded after the snapshot:
\* then the answer is about the image now at its address, or the system stops.
ResolutionRight ==
  /\ \A t \in Thread :
       /\ found[t] \in Asked(want[t].name) \cup {NoModule}
       /\ pc[t] = "resolved" /\ ~gone[t] =>
            /\ answer[t].tag = "some" =>
                 answer[t] = Some(found[t], want[t].routine) /\ want[t].routine \in Exports[found[t]]
            /\ answer[t].tag = "none" =>
                 IF found[t] = NoModule THEN kept[t] = {} ELSE want[t].routine \notin Exports[found[t]]
            /\ answer[t] = Err("length mismatch") => grew[t]
  /\ stopped => \E t \in Thread : gone[t]
=============================================================================
