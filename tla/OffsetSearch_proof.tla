-------------------------- MODULE OffsetSearch_proof --------------------------
(***************************************************************************)
(* Proofs about ModuleQuery and OffsetSearch, for any number of threads,   *)
(* modules and addresses: what a resolution answers, what a search answers *)
(* and caches, and that initialization makes the searches after it         *)
(* independent of the module list.                                         *)
(***************************************************************************)
EXTENDS OffsetSearch, TLAPS

(***************************************************************************)
(* The kernel's list and the addresses agree, and no address is used twice.*)
(***************************************************************************)
ListInv ==
  /\ loaded \in Seq(Module)
  /\ base \in [Module -> Nat]
  /\ base[Kernel] # 0
  /\ \A i, j \in DOMAIN loaded : loaded[i] = loaded[j] => i = j
  /\ \A m \in Module : base[m] # 0 <=> \E i \in DOMAIN loaded : loaded[i] = m
  /\ \A m, n \in Module : base[m] # 0 /\ base[m] = base[n] => m = n

\* The variables of a resolution are functions on the threads.
Locals ==
  /\ pc \in [Thread -> Labels]
  /\ DOMAIN want = Thread /\ DOMAIN size = Thread /\ DOMAIN found = Thread
  /\ DOMAIN place = Thread /\ DOMAIN answer = Thread /\ DOMAIN grew = Thread
  /\ DOMAIN gone = Thread /\ DOMAIN kept = Thread

AnswerRight(t) ==
  /\ answer[t].tag = "some" =>
       answer[t] = Some(found[t], want[t].routine) /\ want[t].routine \in Exports[found[t]]
  /\ answer[t].tag = "none" =>
       IF found[t] = NoModule THEN kept[t] = {} ELSE want[t].routine \notin Exports[found[t]]
  /\ answer[t] = Err("length mismatch") => grew[t]

(***************************************************************************)
(* ResolutionRight, with what holds on the way to an answer: a list that   *)
(* fits has not grown, and the address is that of the module found for as  *)
(* long as that one is loaded.                                             *)
(***************************************************************************)
Resolving(t) ==
  /\ found[t] \in Asked(want[t].name) \cup {NoModule}
  /\ pc[t] \notin {"export", "resolved"} => found[t] = NoModule /\ ~gone[t]
  /\ pc[t] \in {"size", "fill"} => kept[t] \subseteq {m \in Asked(want[t].name) : base[m] # 0}
  /\ pc[t] = "fill" => size[t] \in Nat /\ (grew[t] \/ Len(loaded) <= size[t])
  /\ pc[t] = "export" =>
       found[t] \in Module /\ (gone[t] \/ (place[t] # 0 /\ place[t] = base[found[t]]))
  /\ gone[t] => found[t] \in Module \ {Kernel}
  /\ pc[t] = "resolved" => (gone[t] \/ AnswerRight(t))
  /\ pc[t] = "resolved" /\ answer[t].tag = "some" => found[t] # NoModule

StopExplained == stopped => \E t \in Thread : gone[t]

ResolveInv == ListInv /\ Locals /\ StopExplained /\ \A t \in Thread : Resolving(t)

(***************************************************************************)
(* The searches.                                                           *)
(***************************************************************************)
Right(i) == IF i = System THEN SystemProcess ELSE FieldOffset[i]

Calls == {<<i>> : i \in Item} \cup {InitItems}

SearchLocals ==
  /\ code \in Images
  /\ cache \in [Item -> Nat]
  /\ DOMAIN call = Thread /\ next \in [Thread -> Nat] /\ DOMAIN val = Thread
  /\ DOMAIN result = Thread /\ DOMAIN late = Thread

CacheRight == \A i \in Item : cache[i] \in {0, Right(i)}

InitCached == inited => \A i \in Item : cache[i] # 0

\* What a thread inside a call knows: the caches of the searches behind it are filled,
\* and a resolution is of the accessor of the search it is at.
Searching(t) ==
  /\ call[t] \in Calls
  /\ next[t] <= Len(call[t]) + 1
  /\ pc[t] # "returned" => next[t] <= Len(call[t])
  /\ \A k \in 1..Len(call[t]) : k < next[t] => cache[call[t][k]] # 0
  /\ pc[t] \in {"size", "fill", "export", "resolved"} =>
       want[t] = [name |-> NtosPath, routine |-> RoutineOf[Current(t)]]
  /\ pc[t] = "store" => val[t] = Right(Current(t))
  /\ pc[t] = "returned" /\ result[t].tag = "ok" => result[t].val = Right(call[t][Len(call[t])])
  /\ late[t] => inited /\ pc[t] \in {"load", "returned"}
  /\ late[t] /\ pc[t] = "returned" => result[t].tag = "ok"

ThreadSearches(t) ==
  /\ pc[t] \in {"load", "store", "returned"} => next[t] # 0
  /\ pc[t] = "idle" => next[t] = 0
  /\ next[t] # 0 => Searching(t)

SearchInv ==
  /\ SearchLocals /\ CacheRight /\ InitCached
  /\ \A t \in Thread : ThreadSearches(t)

Inv == ResolveInv /\ SearchInv

-----------------------------------------------------------------------------

(***************************************************************************)
(* Resolutions.                                                            *)
(***************************************************************************)

\* The two errors of the queries and that of the arguments differ.
LEMMA Errors ==
  ASSUME NEW status
  PROVE  /\ Err(status).tag = "err"
         /\ Err(status) = Err("length mismatch") => status = "length mismatch"
<1>1. Err(status).val[1] = status /\ Err("length mismatch").val[1] = "length mismatch"
  BY DEF Err
<1> QED BY <1>1 DEF Err

LEMMA ResolveInit == Init => ResolveInv
<1> SUFFICES ASSUME Init PROVE ResolveInv
  OBVIOUS
<1>1. PICK b \in Base : base = [m \in Module |-> IF m = Kernel THEN b ELSE 0]
  BY ModuleAssumption DEF Init, ModuleInit
<1>2. ListInv
  <2>1. loaded = <<Kernel>> /\ Len(loaded) = 1 /\ loaded[1] = Kernel /\ loaded \in Seq(Module)
    BY ModuleAssumption DEF Init, ModuleInit
  <2>2. base \in [Module -> Nat] /\ \A m \in Module : base[m] # 0 <=> m = Kernel
    BY <1>1, ModuleAssumption
  <2>3. DOMAIN loaded = {1}
    BY <2>1
  <2> QED BY <2>1, <2>2, <2>3, ModuleAssumption DEF ListInv
<1>3. Locals /\ StopExplained
  BY DEF Init, ModuleInit, Locals, Labels, StopExplained
<1>4. \A t \in Thread : Resolving(t)
  BY DEF Init, ModuleInit, Resolving
<1> QED BY <1>2, <1>3, <1>4 DEF ResolveInv

\* What a thread holds of Resolving depends on its own variables and the kernel's.
SameResolution(u) ==
  /\ pc'[u] = pc[u] /\ want'[u] = want[u] /\ size'[u] = size[u] /\ found'[u] = found[u]
  /\ place'[u] = place[u] /\ answer'[u] = answer[u] /\ grew'[u] = grew[u]
  /\ gone'[u] = gone[u] /\ kept'[u] = kept[u]

LEMMA OthersResolve ==
  ASSUME NEW u \in Thread, Resolving(u), SameResolution(u), UNCHANGED systemVars
  PROVE  Resolving(u)'
BY DEF SameResolution, Resolving, AnswerRight, Asked, Some, Err, systemVars

\* A step of one thread keeps ResolveInv if it keeps that thread's part.
LEMMA OneThread ==
  ASSUME NEW t \in Thread, ResolveInv, ~stopped,
         UNCHANGED systemVars, Locals', Resolving(t)', stopped' => gone'[t],
         \A u \in Thread \ {t} : SameResolution(u)
  PROVE  ResolveInv'
<1>1. ListInv'
  BY DEF ResolveInv, ListInv, systemVars
<1>2. \A u \in Thread \ {t} : Resolving(u)'
  BY OthersResolve DEF ResolveInv
<1>3. StopExplained'
  BY DEF StopExplained
<1> QED BY <1>1, <1>2, <1>3 DEF ResolveInv

LEMMA ResolveBegins ==
  ASSUME NEW t \in Thread, ResolveInv, ~stopped, pc[t] \in {"idle", "load"},
         NEW name, NEW routine, Resolve(t, name, routine)
  PROVE  ResolveInv'
<1> USE DEF ResolveInv, Locals, Labels, Goto
<1>1. Locals'
  BY DEF Resolve
<1>2. \A u \in Thread \ {t} : SameResolution(u)
  BY DEF Resolve, SameResolution
<1>3. UNCHANGED systemVars /\ stopped' = stopped
  BY DEF Resolve
<1>4. Resolving(t)'
  <2>1. found'[t] = NoModule /\ ~gone'[t] /\ base' = base
    BY DEF Resolve, Resolving, systemVars
  <2>2. CASE Empty \in {name, routine}
    <3>1. pc'[t] = "resolved" /\ answer'[t] = Err("invalid parameter")
      BY <2>2 DEF Resolve
    <3>2. AnswerRight(t)'
      BY <3>1, Errors DEF AnswerRight
    <3> QED BY <2>1, <3>1, <3>2, Errors DEF Resolving
  <2>3. CASE Empty \notin {name, routine}
    <3>1. pc'[t] = "size" /\ want'[t].name = name
      BY <2>3 DEF Resolve
    <3>2. kept'[t] = {m \in Asked(name) : base[m] # 0}
      BY DEF Resolve
    <3> QED BY <2>1, <3>1, <3>2 DEF Resolving, Asked
  <2> QED BY <2>2, <2>3
<1> QED BY <1>1, <1>2, <1>3, <1>4, OneThread

LEMMA QuerySizeResolves ==
  ASSUME NEW t \in Thread, ResolveInv, ~stopped, QuerySize(t)
  PROVE  ResolveInv'
<1> USE DEF ResolveInv, Locals, Labels, Goto, QuerySize
<1>1. Locals'
  OBVIOUS
<1>2. \A u \in Thread \ {t} : SameResolution(u)
  BY DEF SameResolution
<1>3. UNCHANGED systemVars /\ stopped' = stopped
  OBVIOUS
<1>4. Len(loaded) \in Nat
  BY DEF ListInv
<1>5. Resolving(t)'
  BY <1>3, <1>4 DEF Resolving, Asked, systemVars
<1> QED BY <1>1, <1>2, <1>3, <1>5, OneThread

\* An answer of the query that is no module: an error, or None.
LEMMA QueryEnds ==
  ASSUME NEW t \in Thread, ResolveInv, ~stopped, pc[t] \in {"size", "fill"},
         NEW x, x.tag # "some", x.tag = "none" => kept[t] = {},
         x = Err("length mismatch") => grew[t],
         QueryAnswers(t, x)
  PROVE  ResolveInv'
<1> USE DEF Locals, Labels, Goto, QueryAnswers
<1>1. Locals /\ Resolving(t) /\ Locals'
  BY DEF ResolveInv
<1>2. \A u \in Thread \ {t} : SameResolution(u)
  BY <1>1 DEF SameResolution
<1>3. UNCHANGED systemVars /\ stopped' = stopped
  OBVIOUS
<1>4. found'[t] = NoModule /\ ~gone'[t] /\ pc'[t] = "resolved" /\ answer'[t] = x
  BY <1>1 DEF Resolving
<1>5. AnswerRight(t)'
  BY <1>4 DEF AnswerRight, Err
<1>6. Resolving(t)'
  BY <1>4, <1>5 DEF Resolving
<1> HIDE DEF Locals, Labels, Goto, QueryAnswers
<1> QED BY <1>1, <1>2, <1>3, <1>6, OneThread

LEMMA QueryFillResolves ==
  ASSUME NEW t \in Thread, ResolveInv, ~stopped, QueryFill(t)
  PROVE  ResolveInv'
<1> DEFINE hits == {i \in DOMAIN loaded : Matches(loaded[i], want[t].name)}
<1>1. pc[t] = "fill" /\ Resolving(t) /\ ListInv /\ Locals
  BY DEF QueryFill, ResolveInv
<1>2. CASE hits = {} /\ QueryAnswers(t, None)
  <2>1. \A m \in Module : base[m] # 0 => ~Matches(m, want[t].name)
    BY <1>1, <1>2 DEF ListInv
  <2>2. kept[t] = {}
    BY <1>1, <2>1 DEF Resolving, Matches, Asked
  <2> QED BY <1>1, <1>2, <2>2, QueryEnds DEF None, Err
<1>3. ASSUME NEW i \in hits,
             found' = [found EXCEPT ![t] = loaded[i]],
             place' = [place EXCEPT ![t] = base[loaded[i]]],
             size' = [size EXCEPT ![t] = 0],
             grew' = [grew EXCEPT ![t] = FALSE],
             kept' = [kept EXCEPT ![t] = {}],
             Goto(t, "export"),
             UNCHANGED <<systemVars, stopped, want, answer, gone>>
      PROVE  ResolveInv'
  <2>1. Locals'
    BY <1>1, <1>3 DEF Locals, Labels, Goto
  <2>2. \A u \in Thread \ {t} : SameResolution(u)
    BY <1>1, <1>3 DEF SameResolution, Goto, Locals
  <2>3. /\ loaded[i] \in Module /\ Matches(loaded[i], want[t].name)
        /\ base[loaded[i]] # 0
    BY <1>1 DEF ListInv
  <2>4. /\ found'[t] = loaded[i] /\ place'[t] = base[loaded[i]] /\ pc'[t] = "export"
        /\ want'[t] = want[t] /\ gone'[t] = gone[t] /\ base' = base
    BY <1>1, <1>3 DEF Locals, Goto, systemVars
  <2>5. ~gone[t]
    BY <1>1 DEF Resolving
  <2>6. Resolving(t)'
    BY <2>3, <2>4, <2>5 DEF Resolving, Asked, Matches
  <2> QED BY <1>3, <2>1, <2>2, <2>6, OneThread
<1> QED BY <1>2, <1>3 DEF QueryFill

\* The module at an address is the one found there, unless that has gone.
LEMMA FindExportResolves ==
  ASSUME NEW t \in Thread, ResolveInv, ~stopped, FindExport(t)
  PROVE  ResolveInv'
<1> USE DEF ResolveInv
<1>1. pc[t] = "export" /\ Resolving(t) /\ ListInv /\ Locals
  BY DEF FindExport
<1>2. Locals'
  BY DEF FindExport, Locals, Labels, Goto
<1>3. \A u \in Thread \ {t} : SameResolution(u)
  BY <1>1 DEF FindExport, SameResolution, Goto, Locals
<1>4. /\ UNCHANGED systemVars
      /\ UNCHANGED <<want, found, gone, kept, grew>>
  BY DEF FindExport
<1>5. CASE {m \in Module : base[m] = place[t]} = {} /\ stopped' = TRUE /\ UNCHANGED <<pc, answer>>
  <2>1. gone[t]
    BY <1>1, <1>5 DEF Resolving
  <2>2. Resolving(t)'
    BY <1>1, <1>4, <1>5, <2>1 DEF Resolving, Asked
  <2> QED BY <1>2, <1>3, <1>4, <2>1, <2>2, OneThread
<1>6. ASSUME NEW m \in Module, base[m] = place[t],
             answer' = [answer EXCEPT ![t] =
                IF want[t].routine \in Exports[m] THEN Some(m, want[t].routine) ELSE None],
             Goto(t, "resolved"), UNCHANGED stopped
      PROVE  ResolveInv'
  <2>1. pc'[t] = "resolved"
    BY <1>1, <1>6 DEF Goto, Locals
  <2>2. answer'[t] = IF want[t].routine \in Exports[m] THEN Some(m, want[t].routine) ELSE None
    BY <1>1, <1>6 DEF Locals
  <2>3. gone[t] \/ m = found[t]
    BY <1>1, <1>6 DEF Resolving, ListInv
  <2>4. found[t] \in Module /\ found[t] # NoModule
    BY <1>1, ModuleAssumption DEF Resolving
  <2>5. gone[t] \/ AnswerRight(t)'
    <3> SUFFICES ASSUME ~gone[t] PROVE AnswerRight(t)'
      OBVIOUS
    <3>1. found'[t] = m /\ found'[t] # NoModule /\ want'[t] = want[t]
      BY <1>4, <2>3, <2>4
    <3>2. CASE want[t].routine \in Exports[m]
      <4>1. answer'[t] = Some(found'[t], want'[t].routine)
        BY <2>2, <3>1, <3>2
      <4>2. answer'[t].tag = "some"
        BY <4>1 DEF Some
      <4> QED BY <3>1, <3>2, <4>1, <4>2, Errors DEF AnswerRight
    <3>3. CASE want[t].routine \notin Exports[m]
      <4>1. answer'[t].tag = "none"
        BY <2>2, <3>3 DEF None
      <4> QED BY <3>1, <3>3, <4>1, Errors DEF AnswerRight
    <3> QED BY <3>2, <3>3
  <2>6. Resolving(t)'
    BY <1>1, <1>4, <2>1, <2>4, <2>5 DEF Resolving, Asked
  <2> QED BY <1>2, <1>3, <1>4, <1>6, <2>6, OneThread
<1> QED BY <1>5, <1>6 DEF FindExport

LEMMA ResolveStepResolves ==
  ASSUME NEW t \in Thread, ResolveInv, ~stopped, ResolveStep(t)
  PROVE  ResolveInv'
<1>1. CASE QueryFails(t)
  BY <1>1, QueryEnds, Errors DEF QueryFails
<1>2. CASE QueryMismatch(t)
  <2>1. grew[t]
    <3>1. pc[t] = "fill" /\ Len(loaded) > size[t]
      BY <1>2 DEF QueryMismatch
    <3>2. Resolving(t) /\ loaded \in Seq(Module)
      BY DEF ResolveInv, ListInv
    <3> QED BY <3>1, <3>2 DEF Resolving
  <2> QED BY <1>2, <2>1, QueryEnds, Errors DEF QueryMismatch
<1> QED BY <1>1, <1>2, QuerySizeResolves, QueryFillResolves, FindExportResolves DEF ResolveStep

\* Steps outside of a resolution only move the program counter.
LEMMA PcResolves ==
  ASSUME NEW t \in Thread, ResolveInv, ~stopped, pc[t] \in {"idle", "load", "store"},
         NEW label \in {"load", "store", "returned"}, Goto(t, label),
         UNCHANGED <<systemVars, stopped, resolveVars>>
  PROVE  ResolveInv'
<1>1. Locals /\ Resolving(t)
  BY DEF ResolveInv
<1>2. Locals' /\ pc'[t] = label
  BY <1>1 DEF Locals, Labels, Goto, resolveVars
<1>3. \A u \in Thread \ {t} : SameResolution(u)
  BY <1>1 DEF Locals, Goto, SameResolution, resolveVars
<1>4. Resolving(t)'
  BY <1>1, <1>2 DEF Resolving, Asked, resolveVars
<1> QED BY <1>2, <1>3, <1>4, OneThread

LEMMA ForgetResolves ==
  ASSUME NEW t \in Thread, ResolveInv, ~stopped,
         NEW label \in {"idle", "store", "returned"}, Goto(t, label),
         ForgetResolution(t), UNCHANGED <<systemVars, stopped>>
  PROVE  ResolveInv'
<1>1. Locals
  BY DEF ResolveInv
<1>2. Locals' /\ pc'[t] = label
  BY <1>1 DEF Locals, Labels, Goto, ForgetResolution
<1>3. \A u \in Thread \ {t} : SameResolution(u)
  BY <1>1 DEF Locals, Goto, SameResolution, ForgetResolution
<1>4. found'[t] = NoModule /\ ~gone'[t]
  BY <1>1 DEF Locals, ForgetResolution
<1>5. Resolving(t)'
  BY <1>2, <1>4 DEF Resolving
<1> QED BY <1>2, <1>3, <1>5, OneThread

LEMMA LoadModuleResolves ==
  ASSUME ResolveInv, ~stopped, NEW m \in Module, NEW b \in Base, LoadModule(m, b)
  PROVE  ResolveInv'
<1>1. ListInv /\ Locals /\ \A t \in Thread : Resolving(t)
  BY DEF ResolveInv
<1>2. b \in Nat /\ b # 0
  BY ModuleAssumption
<1>3. ListInv'
  <2>1. /\ Len(loaded') = Len(loaded) + 1 /\ Len(loaded) \in Nat /\ loaded' \in Seq(Module)
        /\ DOMAIN loaded = 1..Len(loaded) /\ DOMAIN loaded' = 1..(Len(loaded) + 1)
        /\ loaded'[Len(loaded) + 1] = m
        /\ \A i \in DOMAIN loaded : loaded'[i] = loaded[i]
    BY <1>1 DEF ListInv, LoadModule
  <2>2. /\ base' \in [Module -> Nat] /\ base'[m] = b
        /\ \A n \in Module \ {m} : base'[n] = base[n]
    BY <1>1, <1>2 DEF ListInv, LoadModule
  <2>3. base[m] = 0 /\ \A n \in Module : base[n] # b
    BY DEF LoadModule
  <2>4. \A i \in DOMAIN loaded : loaded[i] # m /\ loaded[i] \in Module
    BY <1>1, <2>3 DEF ListInv
  <2>5. \A i, j \in DOMAIN loaded' : loaded'[i] = loaded'[j] => i = j
    <3> DEFINE n == Len(loaded)
    <3>1. \A i \in DOMAIN loaded' : i \in DOMAIN loaded \/ i = n + 1
      BY <2>1
    <3>2. \A i \in DOMAIN loaded : loaded'[i] = loaded[i] /\ loaded'[i] # m
      BY <2>1, <2>4
    <3>3. \A i, j \in DOMAIN loaded : loaded[i] = loaded[j] => i = j
      BY <1>1 DEF ListInv
    <3>4. loaded'[n + 1] = m
      BY <2>1
    <3> HIDE DEF n
    <3> QED BY ONLY <3>1, <3>2, <3>3, <3>4
  <2>6. \A n \in Module : base'[n] # 0 <=> \E i \in DOMAIN loaded' : loaded'[i] = n
    <3>1. \E i \in DOMAIN loaded' : loaded'[i] = m
      BY <2>1
    <3>2. ASSUME NEW n \in Module \ {m}
          PROVE  base'[n] # 0 <=> \E i \in DOMAIN loaded' : loaded'[i] = n
      <4>1. (\E i \in DOMAIN loaded : loaded[i] = n) => \E i \in DOMAIN loaded' : loaded'[i] = n
        BY <2>1
      <4>2. ASSUME NEW i \in DOMAIN loaded', loaded'[i] = n
            PROVE  \E k \in DOMAIN loaded : loaded[k] = n
        <5>1. i # Len(loaded) + 1
          BY <2>1, <4>2
        <5>2. i \in DOMAIN loaded
          BY <2>1, <5>1
        <5> QED BY <2>1, <4>2, <5>2
      <4>3. base'[n] = base[n] /\ (base[n] # 0 <=> \E i \in DOMAIN loaded : loaded[i] = n)
        BY <1>1, <2>2 DEF ListInv
      <4> QED BY <4>1, <4>2, <4>3
    <3> QED BY <1>2, <2>2, <3>1, <3>2
  <2>7. \A n, k \in Module : base'[n] # 0 /\ base'[n] = base'[k] => n = k
    BY <1>1, <2>2, <2>3 DEF ListInv
  <2>8. base'[Kernel] # 0
    BY <1>1, <1>2, <2>2, ModuleAssumption DEF ListInv
  <2> QED BY <2>1, <2>2, <2>5, <2>6, <2>7, <2>8 DEF ListInv
<1>4. Locals'
  BY <1>1 DEF Locals, LoadModule
<1>5. ASSUME NEW t \in Thread
      PROVE  Resolving(t)'
  <2>1. grew'[t] = (grew[t] \/ pc[t] = "fill")
    BY DEF LoadModule
  <2>2. \A n \in Module : base[n] # 0 => base'[n] = base[n]
    BY <1>1 DEF LoadModule, ListInv
  <2>3. UNCHANGED <<pc, want, size, found, place, answer, gone, kept>>
    BY DEF LoadModule
  <2>4. Resolving(t)
    BY <1>1
  <2>5. Asked(want[t].name) \subseteq Module
    BY DEF Asked
  <2>6. AnswerRight(t) => AnswerRight(t)'
    BY <2>1, <2>3 DEF AnswerRight, Some, Err
  <2>7. pc[t] \in {"size", "fill"} =>
          kept'[t] \subseteq {n \in Asked(want'[t].name) : base'[n] # 0}
    BY <2>2, <2>3, <2>4, <2>5 DEF Resolving
  <2>8. pc[t] = "export" => gone'[t] \/ (place'[t] # 0 /\ place'[t] = base'[found'[t]])
    BY <2>2, <2>3, <2>4 DEF Resolving
  <2> QED BY <2>1, <2>3, <2>4, <2>6, <2>7, <2>8 DEF Resolving, Asked
<1>6. StopExplained'
  BY DEF LoadModule, StopExplained
<1> QED BY <1>3, <1>4, <1>5, <1>6 DEF ResolveInv

\* The list without its i-th element.
LEMMA Removal ==
  ASSUME NEW s \in Seq(Module), NEW i \in DOMAIN s, NEW r,
         r = SubSeq(s, 1, i - 1) \o SubSeq(s, i + 1, Len(s))
  PROVE  /\ r \in Seq(Module) /\ Len(r) = Len(s) - 1
         /\ \A k \in 1..(Len(s) - 1) : r[k] = IF k < i THEN s[k] ELSE s[k + 1]
<1>1. Len(s) \in Nat /\ i \in 1..Len(s)
  OBVIOUS
<1> DEFINE a == SubSeq(s, 1, i - 1)
           c == SubSeq(s, i + 1, Len(s))
<1>2. a \in Seq(Module) /\ Len(a) = i - 1 /\ \A k \in 1..(i - 1) : a[k] = s[k]
  BY <1>1
<1>3. c \in Seq(Module) /\ Len(c) = Len(s) - i /\ \A k \in 1..(Len(s) - i) : c[k] = s[i + k]
  BY <1>1, SMTT(30)
<1> HIDE DEF a, c
<1>4. r = a \o c
  BY DEF a, c
<1>5. r \in Seq(Module) /\ Len(r) = Len(s) - 1
  <2>1. r \in Seq(Module) /\ Len(r) = Len(a) + Len(c)
    <3>1. a \in Seq(Module) /\ c \in Seq(Module)
      BY <1>2, <1>3
    <3> QED BY ONLY <3>1, <1>4
  <2>2. Len(a) = i - 1 /\ Len(c) = Len(s) - i /\ Len(s) \in Nat /\ i \in Nat
    BY <1>1, <1>2, <1>3
  <2>3. Len(a) + Len(c) = Len(s) - 1
    BY <2>2
  <2> QED BY <2>1, <2>3
<1>6. ASSUME NEW k \in 1..(Len(s) - 1)
      PROVE  r[k] = IF k < i THEN s[k] ELSE s[k + 1]
  <2>1. CASE k < i
    BY <1>1, <1>2, <1>3, <1>4, <2>1
  <2>2. CASE ~(k < i)
    <3>1. r[k] = c[k - (i - 1)]
      <4>1. k \in Len(a) + 1 .. Len(a) + Len(c)
        BY <1>1, <1>2, <1>3, <2>2
      <4>2. (a \o c)[k] = c[k - Len(a)]
        <5>1. a \in Seq(Module) /\ c \in Seq(Module)
          BY <1>2, <1>3
        <5> QED BY ONLY <4>1, <5>1
      <4>3. Len(a) = i - 1
        BY <1>2
      <4> QED BY <1>4, <4>2, <4>3
    <3>2. k - (i - 1) \in 1..(Len(s) - i) /\ i + (k - (i - 1)) = k + 1
      BY <1>1, <2>2
    <3> QED BY <1>3, <2>2, <3>1, <3>2
  <2> QED BY <2>1, <2>2
<1> QED BY <1>5, <1>6

LEMMA UnloadModuleResolves ==
  ASSUME ResolveInv, ~stopped, NEW m \in Module, UnloadModule(m)
  PROVE  ResolveInv'
<1>1. ListInv /\ Locals /\ \A t \in Thread : Resolving(t)
  BY DEF ResolveInv
<1>2. PICK i \in DOMAIN loaded : /\ loaded[i] = m
        /\ loaded' = SubSeq(loaded, 1, i - 1) \o SubSeq(loaded, i + 1, Len(loaded))
  BY DEF UnloadModule
<1>3. /\ loaded' \in Seq(Module) /\ Len(loaded') = Len(loaded) - 1 /\ Len(loaded) \in Nat
      /\ \A k \in 1..(Len(loaded) - 1) :
           loaded'[k] = IF k < i THEN loaded[k] ELSE loaded[k + 1]
  <2>1. loaded \in Seq(Module) /\ Len(loaded) \in Nat
    BY <1>1 DEF ListInv
  <2>2. /\ loaded' \in Seq(Module) /\ Len(loaded') = Len(loaded) - 1
        /\ \A k \in 1..(Len(loaded) - 1) :
             loaded'[k] = IF k < i THEN loaded[k] ELSE loaded[k + 1]
    BY ONLY <1>2, <2>1, Removal
  <2> QED BY <2>1, <2>2
<1>4. DOMAIN loaded = 1..Len(loaded) /\ DOMAIN loaded' = 1..(Len(loaded) - 1)
  BY <1>1, <1>3 DEF ListInv
<1>5. /\ base' \in [Module -> Nat] /\ base'[m] = 0 /\ m # Kernel
      /\ \A n \in Module \ {m} : base'[n] = base[n]
  BY <1>1 DEF ListInv, UnloadModule
<1>6. ListInv'
  <2> DEFINE pos(k) == IF k < i THEN k ELSE k + 1
  <2>0. \A k \in DOMAIN loaded' :
          pos(k) \in DOMAIN loaded /\ pos(k) # i /\ loaded'[k] = loaded[pos(k)]
    <3> SUFFICES ASSUME NEW k \in 1..(Len(loaded) - 1)
                 PROVE  pos(k) \in DOMAIN loaded /\ pos(k) # i /\ loaded'[k] = loaded[pos(k)]
      BY <1>4
    <3>1. i \in Nat /\ k \in Nat /\ Len(loaded) \in Nat /\ k <= Len(loaded) - 1 /\ 1 <= k
      BY <1>3, <1>4
    <3>2. pos(k) \in DOMAIN loaded /\ pos(k) # i
      BY <1>4, <3>1
    <3>3. loaded'[k] = loaded[pos(k)]
      BY <1>3
    <3> QED BY <3>2, <3>3
  <2>1. \A j, k \in DOMAIN loaded' : loaded'[j] = loaded'[k] => j = k
    <3> SUFFICES ASSUME NEW j \in DOMAIN loaded', NEW k \in DOMAIN loaded', loaded'[j] = loaded'[k]
                 PROVE  j = k
      OBVIOUS
    <3>1. pos(j) \in DOMAIN loaded /\ pos(k) \in DOMAIN loaded /\ loaded[pos(j)] = loaded[pos(k)]
      BY <2>0
    <3>2. pos(j) = pos(k)
      BY <1>1, <3>1 DEF ListInv
    <3>3. i \in Nat /\ j \in Nat /\ k \in Nat
      BY <1>4
    <3> QED BY <3>2, <3>3
  <2>2. \A k \in DOMAIN loaded' : loaded'[k] # m
    <3> SUFFICES ASSUME NEW k \in DOMAIN loaded', loaded'[k] = m
                 PROVE  FALSE
      OBVIOUS
    <3>1. pos(k) \in DOMAIN loaded /\ pos(k) # i /\ loaded[pos(k)] = loaded[i]
      BY <1>2, <2>0
    <3> QED BY <1>1, <3>1 DEF ListInv
  <2>3. ASSUME NEW n \in Module \ {m}
        PROVE  base'[n] # 0 <=> \E k \in DOMAIN loaded' : loaded'[k] = n
    <3>1. ASSUME NEW k \in DOMAIN loaded' , loaded'[k] = n
          PROVE  \E j \in DOMAIN loaded : loaded[j] = n
      BY <2>0, <3>1
    <3>2. ASSUME NEW j \in DOMAIN loaded, loaded[j] = n
          PROVE  \E k \in DOMAIN loaded' : loaded'[k] = n
      <4>1. CASE j < i
        <5>1. j \in DOMAIN loaded' /\ loaded'[j] = n
          BY <1>2, <1>3, <1>4, <3>2, <4>1, SMTT(30)
        <5> QED BY <5>1
      <4>2. CASE j > i
        <5>1. j - 1 \in DOMAIN loaded' /\ ~(j - 1 < i) /\ (j - 1) + 1 = j
          BY <1>2, <1>4, <4>2
        <5>2. loaded'[j - 1] = n
          BY <1>3, <1>4, <3>2, <5>1
        <5> QED BY <5>1, <5>2
      <4>3. j # i /\ j \in Nat /\ i \in Nat
        BY <1>2, <1>4, <2>3, <3>2
      <4> QED BY <4>1, <4>2, <4>3
    <3> QED BY <1>1, <1>5, <3>1, <3>2 DEF ListInv
  <2>4. \A n, k \in Module : base'[n] # 0 /\ base'[n] = base'[k] => n = k
    BY <1>1, <1>5 DEF ListInv
  <2>5. base'[Kernel] # 0
    BY <1>1, <1>5, ModuleAssumption DEF ListInv
  <2> QED BY <1>3, <1>5, <2>1, <2>2, <2>3, <2>4, <2>5 DEF ListInv
<1>7. Locals'
  BY <1>1 DEF Locals, UnloadModule
<1>8. ASSUME NEW t \in Thread
      PROVE  Resolving(t)'
  <2>1. /\ gone'[t] = (gone[t] \/ (pc[t] = "export" /\ found[t] = m))
        /\ kept'[t] = kept[t] \ {m}
    BY DEF UnloadModule
  <2>2. UNCHANGED <<pc, want, size, found, place, answer, grew>>
    BY DEF UnloadModule
  <2>3. Resolving(t)
    BY <1>1
  <2>4. Asked(want[t].name) \subseteq Module
    BY DEF Asked
  <2>5. AnswerRight(t) => AnswerRight(t)'
    BY <2>1, <2>2 DEF AnswerRight, Some, Err
  <2>6. pc[t] \in {"size", "fill"} =>
          kept'[t] \subseteq {n \in Asked(want'[t].name) : base'[n] # 0}
    BY <1>5, <2>1, <2>2, <2>3, <2>4 DEF Resolving, Asked
  <2>7. pc[t] = "fill" => size'[t] \in Nat /\ (grew'[t] \/ Len(loaded') <= size'[t])
    BY <1>3, <2>2, <2>3 DEF Resolving
  <2>8. pc[t] = "export" => gone'[t] \/ (place'[t] # 0 /\ place'[t] = base'[found'[t]])
    BY <1>5, <2>1, <2>2, <2>3 DEF Resolving
  <2>9. gone'[t] => found'[t] \in Module \ {Kernel}
    BY <1>5, <2>1, <2>2, <2>3 DEF Resolving
  <2>10. pc[t] = "resolved" => gone'[t] \/ AnswerRight(t)'
    BY <2>1, <2>3, <2>5 DEF Resolving
  <2> QED BY <2>1, <2>2, <2>3, <2>6, <2>7, <2>8, <2>9, <2>10 DEF Resolving, Asked
<1>9. StopExplained'
  BY DEF UnloadModule, StopExplained
<1> QED BY <1>6, <1>7, <1>8, <1>9 DEF ResolveInv

\* Every step keeps the invariant of resolutions.
LEMMA NextResolves ==
  ASSUME ResolveInv, [Next]_vars
  PROVE  ResolveInv'
<1>1. CASE UNCHANGED vars
  <2>1. UNCHANGED systemVars /\ \A t \in Thread : SameResolution(t)
    BY <1>1 DEF vars, resolveVars, SameResolution
  <2>2. \A t \in Thread : Resolving(t)'
    BY <2>1, OthersResolve DEF ResolveInv
  <2>3. ListInv' /\ Locals' /\ StopExplained'
    BY <1>1 DEF vars, systemVars, resolveVars, ResolveInv, ListInv, Locals, StopExplained
  <2> QED BY <2>2, <2>3 DEF ResolveInv
<1>2. ASSUME ~stopped, NEW t \in Thread, Call(t)
      PROVE  ResolveInv'
  BY <1>2, PcResolves DEF Call
<1>3. ASSUME ~stopped, NEW t \in Thread, CallResolve(t)
      PROVE  ResolveInv'
  BY <1>3, ResolveBegins DEF CallResolve
<1>4. ASSUME ~stopped, NEW t \in Thread, LoadCache(t)
      PROVE  ResolveInv'
  <2>1. CASE Resolve(t, NtosPath, RoutineOf[Current(t)])
    BY <1>4, <2>1, ResolveBegins DEF LoadCache
  <2>2. CASE Found(t, cache[Current(t)]) /\ UNCHANGED <<systemVars, stopped, resolveVars>>
    <3>1. pc[t] = "load" /\ (Goto(t, "load") \/ Goto(t, "returned"))
      BY <1>4, <2>2 DEF LoadCache, Found
    <3> QED BY <1>4, <2>2, <3>1, PcResolves
  <2> QED BY <1>4, <2>1, <2>2 DEF LoadCache
<1>5. ASSUME ~stopped, NEW t \in Thread, ResolveFailed(t)
      PROVE  ResolveInv'
  <2>1. Goto(t, "returned") /\ ForgetResolution(t) /\ UNCHANGED <<systemVars, stopped>>
    BY <1>5 DEF ResolveFailed, Ends
  <2> QED BY <1>5, <2>1, ForgetResolves
<1>6. ASSUME ~stopped, NEW t \in Thread, ReadRoutine(t)
      PROVE  ResolveInv'
  <2>1. /\ Goto(t, "returned") \/ Goto(t, "store")
        /\ ForgetResolution(t) /\ UNCHANGED <<systemVars, stopped>>
    BY <1>6 DEF ReadRoutine, Ends
  <2> QED BY <1>6, <2>1, ForgetResolves
<1>7. ASSUME ~stopped, NEW t \in Thread, StoreCache(t)
      PROVE  ResolveInv'
  <2>1. /\ pc[t] = "store" /\ (Goto(t, "load") \/ Goto(t, "returned"))
        /\ UNCHANGED <<systemVars, stopped, resolveVars>>
    BY <1>7 DEF StoreCache, Found
  <2> QED BY <1>7, <2>1, PcResolves
<1>8. ASSUME ~stopped, NEW t \in Thread, Return(t)
      PROVE  ResolveInv'
  <2>1. Goto(t, "idle") /\ ForgetResolution(t) /\ UNCHANGED <<systemVars, stopped>>
    BY <1>8 DEF Return
  <2> QED BY <1>8, <2>1, ForgetResolves
<1> QED BY <1>1, <1>2, <1>3, <1>4, <1>5, <1>6, <1>7, <1>8, ResolveStepResolves,
           LoadModuleResolves, UnloadModuleResolves DEF Next

\* ResolutionRight for any number of threads and modules: a resolution answers with the
\* routine, or the lack of one, of the module asked for, unless that was unloaded.
THEOREM ResolutionsAreRight == Spec => []ResolutionRight
<1>1. ResolveInv => ResolutionRight
  BY DEF ResolveInv, ResolutionRight, Resolving, AnswerRight, StopExplained
<1> QED BY <1>1, ResolveInit, NextResolves, PTL DEF Spec

-----------------------------------------------------------------------------

(***************************************************************************)
(* Searches.                                                               *)
(***************************************************************************)

LEMMA CallShape ==
  /\ \A c \in Calls : Len(c) \in Nat /\ Len(c) >= 1 /\ \A k \in 1..Len(c) : c[k] \in Item
  /\ \A i \in Item : \E k \in 1..Len(InitItems) : InitItems[k] = i
<1>1. \A i \in Item : Len(<<i>>) = 1 /\ <<i>>[1] = i
  OBVIOUS
<1>2. /\ Len(InitItems) = 4
      /\ InitItems[1] = "image base" /\ InitItems[2] = "process id"
      /\ InitItems[3] = "peb" /\ InitItems[4] = System
  BY DEF InitItems
<1>3. Item = {"image base", "process id", "peb", System}
  BY DEF Item, Field
<1>4. 1..4 = {1, 2, 3, 4} /\ 1..1 = {1}
  OBVIOUS
<1>5. ASSUME NEW c \in Calls
      PROVE  Len(c) \in Nat /\ Len(c) >= 1 /\ \A k \in 1..Len(c) : c[k] \in Item
  <2>1. CASE c = InitItems
    <3>1. \A k \in 1..4 : InitItems[k] \in Item
      BY <1>2, <1>3, <1>4
    <3>2. Len(c) = 4 /\ \A k \in 1..Len(c) : c[k] = InitItems[k]
      BY <1>2, <2>1
    <3> QED BY <3>1, <3>2
  <2>2. ASSUME NEW i \in Item, c = <<i>>
        PROVE  Len(c) \in Nat /\ Len(c) >= 1 /\ \A k \in 1..Len(c) : c[k] \in Item
    BY <1>1, <1>4, <2>2
  <2> QED BY <2>1, <2>2 DEF Calls
<1>6. \A i \in Item : \E k \in 1..4 : InitItems[k] = i
  BY <1>2, <1>3, <1>4
<1> QED BY <1>2, <1>5, <1>6

LEMMA RightIsSomething == \A i \in Item : Right(i) \in Nat /\ Right(i) # 0
BY OffsetAssumption DEF Right, Item, System

\* A scan of an accessor finds its displacement or nothing.
LEMMA ScanFindsField ==
  ASSUME NEW c, NEW d, Accessor(c, d), Scan(c) # NoOffset
  PROVE  Scan(c) = d
<1> DEFINE movs == {n \in DOMAIN c : c[n].op = "mov" /\ \A k \in 1..(n - 1) : c[k].op = "other"}
           n0 == CHOOSE n \in movs : TRUE
<1>1. movs # {} /\ Scan(c) = c[n0].disp
  BY DEF Scan
<1>2. n0 \in movs
  BY <1>1
<1> QED BY <1>1, <1>2 DEF Accessor

LEMMA SearchInit == Init => SearchInv
BY DEF Init, ModuleInit, SearchInv, SearchLocals, CacheRight, InitCached, ThreadSearches

SameSearch(u) ==
  /\ pc'[u] = pc[u] /\ want'[u] = want[u] /\ call'[u] = call[u] /\ next'[u] = next[u]
  /\ val'[u] = val[u] /\ result'[u] = result[u] /\ late'[u] = late[u]

\* Caches are filled and stay filled; initialization is never undone.
Grows ==
  /\ \A i \in Item : cache[i] # 0 => cache'[i] # 0
  /\ inited => inited'

LEMMA OthersSearch ==
  ASSUME NEW u \in Thread, ThreadSearches(u), SameSearch(u), Grows
  PROVE  ThreadSearches(u)'
<1>1. CASE next[u] = 0
  BY <1>1 DEF ThreadSearches, SameSearch
<1>2. CASE next[u] # 0
  <2>1. Searching(u)
    BY <1>2 DEF ThreadSearches
  <2>2. \A k \in 1..Len(call[u]) : call[u][k] \in Item
    BY <2>1, CallShape DEF Searching
  <2>3. Searching(u)'
    BY <2>1, <2>2 DEF Searching, SameSearch, Grows, Calls, Current, Right, NtosPath, InitItems
  <2> QED BY <1>2, <2>3 DEF ThreadSearches, SameSearch
<1> QED BY <1>1, <1>2

LEMMA OneSearch ==
  ASSUME SearchInv, NEW t \in Thread, SearchLocals', CacheRight', InitCached', Grows,
         \A u \in Thread \ {t} : SameSearch(u), ThreadSearches(t)'
  PROVE  SearchInv'
<1>1. \A u \in Thread \ {t} : ThreadSearches(u)'
  BY OthersSearch DEF SearchInv
<1> QED BY <1>1 DEF SearchInv

\* Steps that change neither the caches nor what a thread searches.
LEMMA OnlyPcAndWant ==
  ASSUME SearchInv, NEW t \in Thread, UNCHANGED searchVars, ThreadSearches(t)',
         \A u \in Thread \ {t} : pc'[u] = pc[u] /\ want'[u] = want[u]
  PROVE  SearchInv'
<1>1. SearchLocals' /\ CacheRight' /\ InitCached' /\ Grows
  BY DEF SearchInv, SearchLocals, CacheRight, InitCached, Grows, searchVars
<1>2. \A u \in Thread \ {t} : SameSearch(u)
  BY DEF SameSearch, searchVars
<1> QED BY <1>1, <1>2, OneSearch

LEMMA ResolveStepSearches ==
  ASSUME SearchInv, Locals, NEW t \in Thread, ResolveStep(t), UNCHANGED searchVars
  PROVE  SearchInv'
<1>1. /\ pc[t] \in {"size", "fill", "export"}
      /\ pc'[t] \in {"size", "fill", "export", "resolved"}
      /\ want' = want /\ \A u \in Thread \ {t} : pc'[u] = pc[u]
  BY DEF ResolveStep, QuerySize, QueryFails, QueryMismatch, QueryFill, FindExport,
         QueryAnswers, Goto, Locals, Labels
<1>2. ThreadSearches(t)'
  <2>1. CASE next[t] = 0
    BY <1>1, <2>1 DEF ThreadSearches, searchVars
  <2>2. CASE next[t] # 0
    <3>1. Searching(t)
      BY <2>2 DEF SearchInv, ThreadSearches
    <3>2. Searching(t)'
      BY <1>1, <3>1 DEF Searching, searchVars, Calls, Current, Right, NtosPath, InitItems
    <3> QED BY <1>1, <2>2, <3>2 DEF ThreadSearches, searchVars
  <2> QED BY <2>1, <2>2
<1> QED BY <1>1, <1>2, OnlyPcAndWant

\* A search has come to its value: the call goes on or ends.
LEMMA FoundSearches ==
  ASSUME SearchInv, Locals, NEW t \in Thread, pc[t] \in {"load", "store"}, next[t] # 0,
         NEW x, x = Right(Current(t)), Found(t, x),
         cache' \in [Item -> Nat], CacheRight', Grows, cache'[Current(t)] # 0,
         DOMAIN val' = Thread, \A u \in Thread \ {t} : val'[u] = val[u],
         UNCHANGED <<want, code, call, late>>
  PROVE  SearchInv'
<1>1. Searching(t) /\ SearchLocals /\ InitCached /\ next[t] \in Nat
  BY DEF SearchInv, ThreadSearches, SearchLocals
<1>2. /\ next'[t] = next[t] + 1 /\ next' \in [Thread -> Nat]
      /\ \A u \in Thread \ {t} : next'[u] = next[u] /\ pc'[u] = pc[u] /\ result'[u] = result[u]
      /\ DOMAIN result' = Thread
  BY <1>1 DEF Found, SearchLocals, Locals, Goto
<1>3. SearchLocals'
  BY <1>1, <1>2 DEF SearchLocals
<1>4. Len(call[t]) \in Nat /\ call[t] \in Calls /\ next[t] <= Len(call[t])
  BY <1>1, CallShape DEF Searching
<1>5. \A k \in 1..Len(call'[t]) : k < next'[t] => cache'[call'[t][k]] # 0
  <2> SUFFICES ASSUME NEW k \in 1..Len(call[t]), k <= next[t]
               PROVE  cache'[call[t][k]] # 0
    BY <1>1, <1>2
  <2>1. CASE k = next[t]
    BY <2>1 DEF Current
  <2>2. CASE k # next[t]
    <3>1. cache[call[t][k]] # 0
      BY <1>1, <2>2 DEF Searching
    <3> QED BY <1>4, <3>1, CallShape DEF Grows
  <2> QED BY <2>1, <2>2
<1>6. CASE next[t] < Len(call[t])
  <2>1. pc'[t] = "load" /\ inited' = inited
    BY <1>6 DEF Found, Goto, Locals
  <2>2. InitCached'
    BY <1>1, <2>1 DEF InitCached, Grows
  <2>3. next'[t] <= Len(call'[t]) /\ next'[t] # 0
    BY <1>1, <1>2, <1>4, <1>6
  <2>4. Searching(t)'
    BY <1>1, <1>2, <1>4, <1>5, <2>1, <2>3 DEF Searching
  <2>5. ThreadSearches(t)'
    BY <2>1, <2>3, <2>4 DEF ThreadSearches
  <2> QED BY <1>2, <1>3, <2>2, <2>5, OneSearch DEF SameSearch
<1>7. CASE ~(next[t] < Len(call[t]))
  <2>1. /\ pc'[t] = "returned" /\ result'[t] = Ok(x)
        /\ inited' = (inited \/ call[t] = InitItems)
    BY <1>1, <1>7 DEF Found, Goto, Locals, SearchLocals
  <2>2. next[t] = Len(call[t]) /\ next'[t] = Len(call[t]) + 1
    BY <1>1, <1>2, <1>4, <1>7
  <2>3. InitCached'
    <3>1. CASE inited
      BY <1>1, <3>1 DEF InitCached, Grows
    <3>2. CASE call[t] = InitItems
      <4>1. \A k \in 1..Len(InitItems) : cache'[InitItems[k]] # 0
        BY <1>4, <1>5, <2>2, <3>2
      <4> QED BY <4>1, CallShape DEF InitCached
    <3>3. CASE ~inited /\ call[t] # InitItems
      BY <2>1, <3>3 DEF InitCached
    <3> QED BY <3>1, <3>2, <3>3
  <2>4. result'[t].tag = "ok" /\ result'[t].val = Right(call[t][Len(call[t])])
    BY <2>1, <2>2 DEF Ok, Current
  <2>5. late'[t] => inited'
    BY <1>1, <2>1 DEF Searching
  <2>6. Right(call[t][Len(call[t])])' = Right(call[t][Len(call[t])])
    BY DEF Right
  <2>7. Searching(t)'
    BY <1>4, <1>5, <2>1, <2>2, <2>4, <2>5, <2>6 DEF Searching
  <2>8. ThreadSearches(t)'
    BY <1>4, <2>1, <2>2, <2>7 DEF ThreadSearches
  <2> QED BY <1>2, <1>3, <2>3, <2>8, OneSearch DEF SameSearch
<1> QED BY <1>6, <1>7

LEMMA CallSearches ==
  ASSUME SearchInv, Locals, NEW t \in Thread, Call(t)
  PROVE  SearchInv'
<1>1. SearchLocals /\ CacheRight /\ InitCached
  BY DEF SearchInv
<1>2. /\ call'[t] \in Calls /\ next'[t] = 1 /\ late'[t] = inited /\ pc'[t] = "load"
      /\ UNCHANGED <<cache, inited>>
  BY <1>1 DEF Call, Calls, SearchLocals, Goto, Locals
<1>3. SearchLocals'
  BY <1>1 DEF Call, SearchLocals
<1>4. CacheRight' /\ InitCached' /\ Grows
  BY <1>1, <1>2 DEF CacheRight, InitCached, Grows, Right
<1>5. \A u \in Thread \ {t} : SameSearch(u)
  BY <1>1 DEF Call, SameSearch, SearchLocals, Goto, Locals, resolveVars
<1>6. Len(call'[t]) \in Nat /\ Len(call'[t]) >= 1
  BY <1>2, CallShape
<1>7. Searching(t)'
  BY <1>2, <1>6 DEF Searching
<1>8. ThreadSearches(t)'
  BY <1>2, <1>7 DEF ThreadSearches
<1> QED BY <1>3, <1>4, <1>5, <1>8, OneSearch

LEMMA LoadCacheSearches ==
  ASSUME SearchInv, Locals, NEW t \in Thread, LoadCache(t)
  PROVE  SearchInv'
<1>1. pc[t] = "load" /\ next[t] # 0 /\ Searching(t) /\ SearchLocals /\ next[t] \in Nat
  BY DEF LoadCache, SearchInv, ThreadSearches, SearchLocals
<1>2. Current(t) \in Item
  BY <1>1, CallShape DEF Current, Searching
<1>3. UNCHANGED <<code, cache, call, val, late>>
  BY DEF LoadCache
<1>5. CASE /\ cache[Current(t)] # 0
           /\ Found(t, cache[Current(t)])
           /\ UNCHANGED <<systemVars, stopped, resolveVars>>
  <2>1. cache[Current(t)] = Right(Current(t))
    BY <1>2, <1>5 DEF SearchInv, CacheRight
  <2>2. cache' \in [Item -> Nat] /\ CacheRight' /\ Grows /\ DOMAIN val' = Thread
    BY <1>1, <1>3, <1>5 DEF SearchInv, SearchLocals, CacheRight, Grows, Found, Right
  <2>3. UNCHANGED want
    BY <1>5 DEF resolveVars
  <2> QED BY <1>1, <1>3, <1>5, <2>1, <2>2, <2>3, FoundSearches
<1>6. CASE /\ cache[Current(t)] = 0
           /\ Resolve(t, NtosPath, RoutineOf[Current(t)])
           /\ UNCHANGED <<next, result, inited>>
  <2>1. ~late[t]
    BY <1>1, <1>2, <1>6 DEF Searching, SearchInv, InitCached
  <2>2. /\ pc'[t] \in {"size", "resolved"}
        /\ want'[t] = [name |-> NtosPath, routine |-> RoutineOf[Current(t)]]
        /\ \A u \in Thread \ {t} : pc'[u] = pc[u] /\ want'[u] = want[u]
    BY <1>6 DEF Resolve, Goto, Locals
  <2>3. UNCHANGED searchVars
    BY <1>3, <1>6 DEF searchVars
  <2>4. Searching(t)'
    BY <1>1, <2>1, <2>2, <2>3 DEF Searching, searchVars, Current, Calls, NtosPath, InitItems
  <2>5. ThreadSearches(t)'
    BY <1>1, <2>2, <2>3, <2>4 DEF ThreadSearches, searchVars
  <2> QED BY <2>2, <2>3, <2>5, OnlyPcAndWant
<1> QED BY <1>5, <1>6 DEF LoadCache

LEMMA ResolveFailedSearches ==
  ASSUME SearchInv, Locals, NEW t \in Thread, ResolveFailed(t)
  PROVE  SearchInv'
<1>1. /\ pc[t] = "resolved" /\ next[t] # 0 /\ Searching(t) /\ SearchLocals
      /\ CacheRight /\ InitCached
  BY DEF ResolveFailed, SearchInv, ThreadSearches
<1>2. ~late[t]
  BY <1>1 DEF Searching
<1>3. /\ pc'[t] = "returned" /\ result'[t] = SearchError
      /\ UNCHANGED <<code, cache, call, next, val, inited, late>>
  BY <1>1 DEF ResolveFailed, Ends, Goto, Locals, SearchLocals
<1>4. SearchLocals' /\ CacheRight' /\ InitCached' /\ Grows
  BY <1>1, <1>3 DEF ResolveFailed, Ends, SearchLocals, CacheRight, InitCached, Grows, Right
<1>5. \A u \in Thread \ {t} : SameSearch(u)
  BY <1>1, <1>3 DEF ResolveFailed, Ends, Goto, ForgetResolution, SameSearch, SearchLocals, Locals
<1>6. next[t] <= Len(call[t]) + 1
  BY <1>1 DEF Searching
<1>7. Searching(t)'
  BY <1>1, <1>2, <1>3, <1>6 DEF Searching, SearchError
<1>8. ThreadSearches(t)'
  BY <1>1, <1>3, <1>7 DEF ThreadSearches
<1> QED BY <1>4, <1>5, <1>8, OneSearch

\* What a search reads, it reads at an address in the kernel.
LEMMA SearchResolvesKernel ==
  ASSUME ResolveInv, SearchInv, NEW t \in Thread, pc[t] = "resolved", next[t] # 0,
         answer[t].tag = "some"
  PROVE  answer[t].val = <<Kernel, RoutineOf[Current(t)]>>
<1>1. Resolving(t) /\ Searching(t)
  BY DEF ResolveInv, SearchInv, ThreadSearches
<1>2. want[t].name = NtosPath /\ want[t].routine = RoutineOf[Current(t)]
  BY <1>1 DEF Searching
<1>3. Asked(NtosPath) \subseteq {Kernel}
  BY OffsetAssumption DEF Asked, NtosPath
<1>4. found[t] = Kernel
  BY <1>1, <1>2, <1>3 DEF Resolving
<1>5. answer[t] = Some(Kernel, RoutineOf[Current(t)])
  BY <1>1, <1>2, <1>4 DEF Resolving, AnswerRight
<1> QED BY <1>5 DEF Some

LEMMA ReadRoutineSearches ==
  ASSUME ResolveInv, SearchInv, NEW t \in Thread, ReadRoutine(t)
  PROVE  SearchInv'
<1>1. /\ pc[t] = "resolved" /\ next[t] # 0 /\ Searching(t) /\ SearchLocals
      /\ CacheRight /\ InitCached /\ Locals
  BY DEF ReadRoutine, SearchInv, ThreadSearches, ResolveInv
<1>2. ~late[t]
  BY <1>1 DEF Searching
<1>3. Current(t) \in Item /\ next[t] <= Len(call[t]) /\ Len(call[t]) \in Nat /\ next[t] \in Nat
  BY <1>1, CallShape DEF Searching, Current, SearchLocals
<1> DEFINE x == IF Current(t) = System THEN SystemProcess ELSE Scan(code[answer[t].val])
<1>4. x # NoOffset => x = Right(Current(t))
  <2>1. CASE Current(t) = System
    BY <2>1 DEF Right
  <2>2. CASE Current(t) # System
    <3>1. Current(t) \in Field
      BY <1>3, <2>2 DEF Item
    <3>2. answer[t].val = <<Kernel, RoutineOf[Current(t)]>>
      BY <1>1, SearchResolvesKernel DEF ReadRoutine
    <3>3. Accessor(code[answer[t].val], FieldOffset[Current(t)])
      BY <1>1, <3>1, <3>2, OffsetAssumption DEF SearchLocals
    <3> QED BY <2>2, <3>3, ScanFindsField DEF Right
  <2> QED BY <2>1, <2>2
<1>5. UNCHANGED <<code, cache, call, next, inited, late>>
  BY DEF ReadRoutine
<1>6. SearchLocals' /\ CacheRight' /\ InitCached' /\ Grows
  BY <1>1, <1>5 DEF ReadRoutine, Ends, SearchLocals, CacheRight, InitCached, Grows, Right
<1>7. \A u \in Thread \ {t} : SameSearch(u)
  BY <1>1, <1>5 DEF ReadRoutine, Ends, Goto, ForgetResolution, SameSearch, SearchLocals, Locals
<1>8. CASE x = NoOffset
  <2>1. pc'[t] = "returned" /\ result'[t] = OkNone
    BY <1>1, <1>8 DEF ReadRoutine, Ends, Goto, Locals, SearchLocals
  <2>2. Searching(t)'
    BY <1>1, <1>2, <1>3, <1>5, <2>1 DEF Searching, OkNone
  <2> QED BY <1>1, <1>5, <1>6, <1>7, <2>1, <2>2, OneSearch DEF ThreadSearches
<1>9. CASE x # NoOffset
  <2>1. pc'[t] = "store" /\ val'[t] = x
    BY <1>1, <1>9 DEF ReadRoutine, Goto, Locals, SearchLocals
  <2>2. val'[t] = Right(Current(t)) /\ Right(Current(t))' = Right(Current(t))
    BY <1>4, <1>5, <1>9, <2>1 DEF Right, Current
  <2> HIDE DEF x
  <2>3. Searching(t)'
    BY <1>1, <1>2, <1>3, <1>5, <2>1, <2>2 DEF Searching
  <2> QED BY <1>1, <1>5, <1>6, <1>7, <2>1, <2>3, OneSearch DEF ThreadSearches
<1> QED BY <1>8, <1>9

LEMMA StoreCacheSearches ==
  ASSUME SearchInv, Locals, NEW t \in Thread, StoreCache(t)
  PROVE  SearchInv'
<1>1. /\ pc[t] = "store" /\ next[t] # 0 /\ Searching(t) /\ SearchLocals
      /\ CacheRight
  BY DEF StoreCache, SearchInv, ThreadSearches
<1>2. Current(t) \in Item
  BY <1>1, CallShape DEF Current, Searching, SearchLocals
<1>3. val[t] = Right(Current(t))
  BY <1>1 DEF Searching
<1>4. cache' = [cache EXCEPT ![Current(t)] = val[t]]
  BY DEF StoreCache
<1>5. cache' \in [Item -> Nat] /\ cache'[Current(t)] # 0
  BY <1>1, <1>2, <1>3, <1>4, RightIsSomething DEF SearchLocals
<1>6. \A i \in Item : cache'[i] \in {0, Right(i)} /\ (cache[i] # 0 => cache'[i] # 0)
  BY <1>1, <1>2, <1>3, <1>4, <1>5 DEF SearchLocals, CacheRight
<1>7. CacheRight' /\ Grows
  BY <1>6 DEF CacheRight, Grows, StoreCache, Found, Right
<1>8. /\ UNCHANGED <<want, code, call, late>> /\ Found(t, val[t])
      /\ DOMAIN val' = Thread /\ \A u \in Thread \ {t} : val'[u] = val[u]
  BY <1>1 DEF StoreCache, resolveVars, SearchLocals
<1> QED BY <1>1, <1>3, <1>5, <1>7, <1>8, FoundSearches

LEMMA ReturnSearches ==
  ASSUME SearchInv, Locals, NEW t \in Thread, Return(t)
  PROVE  SearchInv'
<1>1. SearchLocals /\ CacheRight /\ InitCached
  BY DEF SearchInv
<1>2. pc'[t] = "idle" /\ next'[t] = 0 /\ UNCHANGED <<code, cache, val, inited>>
  BY <1>1 DEF Return, Goto, Locals, SearchLocals
<1>3. SearchLocals' /\ CacheRight' /\ InitCached' /\ Grows
  BY <1>1, <1>2 DEF Return, SearchLocals, CacheRight, InitCached, Grows, Right
<1>4. \A u \in Thread \ {t} : SameSearch(u)
  BY <1>1, <1>2 DEF Return, Goto, ForgetResolution, SameSearch, SearchLocals, Locals
<1>5. ThreadSearches(t)'
  BY <1>2 DEF ThreadSearches
<1> QED BY <1>3, <1>4, <1>5, OneSearch

\* A resolution of somebody else's, and what becomes of drivers, is no step of a search.
LEMMA CallResolveSearches ==
  ASSUME SearchInv, Locals, NEW t \in Thread, CallResolve(t)
  PROVE  SearchInv'
<1>1. /\ next[t] = 0 /\ UNCHANGED searchVars /\ pc'[t] \in {"size", "resolved"}
      /\ \A u \in Thread \ {t} : pc'[u] = pc[u] /\ want'[u] = want[u]
  BY ZenonT(60) DEF CallResolve, Resolve, Goto, Locals, SearchInv, ThreadSearches
<1>2. ThreadSearches(t)'
  BY <1>1 DEF ThreadSearches, searchVars
<1> QED BY <1>1, <1>2, OnlyPcAndWant

LEMMA NothingSearched ==
  ASSUME SearchInv, UNCHANGED <<pc, want>>, UNCHANGED searchVars
  PROVE  SearchInv'
<1>1. SearchLocals' /\ CacheRight' /\ InitCached' /\ Grows
  BY DEF SearchInv, SearchLocals, CacheRight, InitCached, Grows, searchVars
<1>2. \A u \in Thread : SameSearch(u)
  BY DEF SameSearch, searchVars
<1>3. \A u \in Thread : ThreadSearches(u)'
  BY <1>1, <1>2, OthersSearch DEF SearchInv
<1> QED BY <1>1, <1>3 DEF SearchInv

LEMMA NextSearches ==
  ASSUME ResolveInv, SearchInv, [Next]_vars
  PROVE  SearchInv'
<1>1. CASE UNCHANGED vars
  BY <1>1, NothingSearched DEF vars, resolveVars
<1>2. ASSUME NEW m \in Module, NEW b \in Base, LoadModule(m, b), UNCHANGED searchVars
      PROVE  SearchInv'
  BY <1>2, NothingSearched DEF LoadModule
<1>3. ASSUME NEW m \in Module, UnloadModule(m), UNCHANGED searchVars
      PROVE  SearchInv'
  BY <1>3, NothingSearched DEF UnloadModule
<1>4. Locals
  BY DEF ResolveInv
<1> QED BY <1>1, <1>2, <1>3, <1>4, CallSearches, CallResolveSearches, LoadCacheSearches,
           ResolveFailedSearches, ReadRoutineSearches, StoreCacheSearches, ReturnSearches,
           ResolveStepSearches DEF Next

LEMMA InvHolds == Spec => []Inv
<1>1. Init => Inv
  BY ResolveInit, SearchInit DEF Inv
<1>2. Inv /\ [Next]_vars => Inv'
  BY NextResolves, NextSearches DEF Inv
<1> QED BY <1>1, <1>2, PTL DEF Spec

\* OffsetsRight for any number of threads and modules and any code of the accessors: what
\* is cached or answered is where the kernel has the field.
THEOREM OffsetsAreRight == Spec => []OffsetsRight
<1>1. Inv => OffsetsRight
  <2> SUFFICES ASSUME Inv PROVE OffsetsRight
    OBVIOUS
  <2>1. \A i \in Item : cache[i] \in {0, Right(i)}
    BY DEF Inv, SearchInv, CacheRight
  <2>2. \A f \in Field : f \in Item /\ f # System
    BY DEF Field, Item, System
  <2>3. System \in Item
    BY DEF Item
  <2>4. ASSUME NEW t \in Thread, pc[t] = "returned", Len(call[t]) = 1, result[t].tag = "ok"
        PROVE  result[t].val =
                 IF call[t][1] = System THEN SystemProcess ELSE FieldOffset[call[t][1]]
    <3>1. Searching(t)
      BY <2>4 DEF Inv, SearchInv, ThreadSearches
    <3> QED BY <2>4, <3>1 DEF Searching, Right
  <2> QED BY <2>1, <2>2, <2>3, <2>4 DEF OffsetsRight, Right
<1> QED BY <1>1, InvHolds, PTL

\* InitSuffices for any number of threads and modules: once an initialization has answered
\* Ok(true), later calls never reach the module list and never fail.
THEOREM InitializationSuffices == Spec => []InitSuffices
<1>1. Inv => InitSuffices
  BY DEF Inv, SearchInv, ThreadSearches, Searching, InitSuffices
<1> QED BY <1>1, InvHolds, PTL

(***************************************************************************)
(* The types that the proofs above have no need of.                        *)
(***************************************************************************)
ValueTypes ==
  /\ base \in [Module -> Base \cup {0}]
  /\ size \in [Thread -> Nat]
  /\ found \in [Thread -> Module \cup {NoModule}]
  /\ place \in [Thread -> Base \cup {0}]
  /\ call \in [Thread -> Seq(Item)]
  /\ val \in [Thread -> Nat]

LEMMA ItemsTyped == \A items \in Calls : items \in Seq(Item)
<1>1. /\ "image base" \in Item /\ "process id" \in Item /\ "peb" \in Item /\ System \in Item
  BY DEF Item, Field
<1>2. InitItems \in Seq(Item)
  <2>1. \A a, b, c, d \in Item : <<a, b, c, d>> \in Seq(Item)
    OBVIOUS
  <2> QED BY <1>1, <2>1 DEF InitItems
<1>3. \A i \in Item : <<i>> \in Seq(Item)
  OBVIOUS
<1> QED BY <1>2, <1>3 DEF Calls

LEMMA ValueTypesNext == Inv /\ Inv' /\ ValueTypes /\ [Next]_vars => ValueTypes'
<1> SUFFICES ASSUME Inv, Inv', ValueTypes, [Next]_vars PROVE ValueTypes'
  OBVIOUS
<1> USE DEF ValueTypes, systemVars, resolveVars, searchVars
<1>1. loaded \in Seq(Module) /\ Len(loaded) \in Nat /\ Locals
  BY DEF Inv, ResolveInv, ListInv
<1>2. ASSUME NEW t \in Thread, Call(t) PROVE ValueTypes'
  BY <1>2, ItemsTyped DEF Call, Calls
<1>3. ASSUME NEW t \in Thread, CallResolve(t) \/ LoadCache(t) PROVE ValueTypes'
  BY <1>3 DEF CallResolve, LoadCache, Resolve
<1>4. ASSUME NEW t \in Thread, ResolveFailed(t) \/ Return(t) PROVE ValueTypes'
  <2>1. /\ size' = [size EXCEPT ![t] = 0] /\ found' = [found EXCEPT ![t] = NoModule]
        /\ place' = [place EXCEPT ![t] = 0] /\ UNCHANGED <<base, val>>
        /\ call' = call \/ call' = [call EXCEPT ![t] = <<>>]
    BY <1>4 DEF ResolveFailed, Return, ForgetResolution
  <2>2. <<>> \in Seq(Item)
    OBVIOUS
  <2>3. call' \in [Thread -> Seq(Item)]
    BY <2>1, <2>2
  <2> QED BY <2>1, <2>3
<1>5. ASSUME NEW t \in Thread, ReadRoutine(t) PROVE ValueTypes'
  <2>1. /\ size' = [size EXCEPT ![t] = 0] /\ found' = [found EXCEPT ![t] = NoModule]
        /\ place' = [place EXCEPT ![t] = 0] /\ UNCHANGED <<base, call, next>>
        /\ \/ UNCHANGED val
           \/ pc'[t] = "store" /\ \E x : val' = [val EXCEPT ![t] = x]
    BY <1>1, <1>5 DEF ReadRoutine, ForgetResolution, Goto, Ends, Locals
  <2>2. pc'[t] = "store" => val'[t] \in Nat
    <3> SUFFICES ASSUME pc'[t] = "store" PROVE val'[t] \in Nat
      OBVIOUS
    <3>1. Searching(t)'
      BY DEF Inv, SearchInv, ThreadSearches
    <3>2. val'[t] = Right(Current(t)') /\ call'[t] \in Calls /\ next'[t] \in Nat
          /\ next'[t] # 0 /\ next'[t] <= Len(call'[t])
      BY <3>1 DEF Searching, Inv, SearchInv, SearchLocals, ThreadSearches
    <3>3. Current(t)' \in Item
      BY <3>2, ItemsTyped DEF Current
    <3> QED BY <3>2, <3>3, RightIsSomething
  <2> QED BY <2>1, <2>2
<1>6. ASSUME NEW t \in Thread, StoreCache(t) PROVE ValueTypes'
  BY <1>6 DEF StoreCache
<1>7. ASSUME NEW t \in Thread, ResolveStep(t), UNCHANGED searchVars PROVE ValueTypes'
  <2>1. CASE QuerySize(t)
    BY <1>1, <1>7, <2>1 DEF QuerySize
  <2>2. CASE QueryFails(t) \/ QueryMismatch(t)
    <3>1. size' = [size EXCEPT ![t] = 0] /\ UNCHANGED <<base, found, place>>
      BY <2>2 DEF QueryFails, QueryMismatch, QueryAnswers
    <3> QED BY <1>7, <3>1
  <2>3. CASE QueryFill(t)
    <3>1. size' = [size EXCEPT ![t] = 0] /\ base' = base
      BY <2>3 DEF QueryFill, QueryAnswers
    <3>2. \/ found' = found /\ place' = place
          \/ \E i \in DOMAIN loaded : /\ found' = [found EXCEPT ![t] = loaded[i]]
                                      /\ place' = [place EXCEPT ![t] = base[loaded[i]]]
      BY <2>3 DEF QueryFill, QueryAnswers
    <3>3. \A i \in DOMAIN loaded : loaded[i] \in Module
      BY <1>1
    <3>4. found' \in [Thread -> Module \cup {NoModule}]
      BY <3>2, <3>3
    <3>5. place' \in [Thread -> Base \cup {0}]
      BY <3>2, <3>3
    <3> QED BY <1>7, <3>1, <3>4, <3>5
  <2>4. CASE FindExport(t)
    BY <1>7, <2>4 DEF FindExport
  <2> QED BY <1>7, <2>1, <2>2, <2>3, <2>4 DEF ResolveStep
<1>8. ASSUME NEW m \in Module, NEW b \in Base, LoadModule(m, b), UNCHANGED searchVars
      PROVE  ValueTypes'
  BY <1>8 DEF LoadModule
<1>9. ASSUME NEW m \in Module, UnloadModule(m), UNCHANGED searchVars PROVE ValueTypes'
  BY <1>9 DEF UnloadModule
<1>10. CASE UNCHANGED vars
  BY <1>10 DEF vars
<1> QED BY <1>2, <1>3, <1>4, <1>5, <1>6, <1>7, <1>8, <1>9, <1>10 DEF Next

\* The module list has no entry twice, and what is cached, found and passed on are modules,
\* addresses and offsets.
THEOREM OffsetTypes == Spec => []TypeOK
<1>1. Init => ValueTypes
  BY ModuleAssumption DEF Init, ModuleInit, ValueTypes
<1>2. Inv /\ ValueTypes => TypeOK
  BY DEF Inv, ResolveInv, ListInv, Locals, SearchInv, SearchLocals, ValueTypes, TypeOK
<1> QED BY <1>1, <1>2, InvHolds, ValueTypesNext, PTL DEF Spec
=============================================================================
