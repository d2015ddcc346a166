------------------------- MODULE ProcessAccess_proof -------------------------
(***************************************************************************)
(* For any number of processes and threads: the references that mm_read    *)
(* and mm_write take protect them, and get_process_by_id, which takes      *)
(* none, misses no process and answers with no stale one.                  *)
(***************************************************************************)
EXTENDS ProcessAccess, FiniteSetTheorems, TLAPS

(***************************************************************************)
(* CopyTargetHeld is not inductive: that FreeProcess spares the process of *)
(* a copy rests on its reference being counted.                            *)
(***************************************************************************)
HoldTypes ==
  /\ st \in [Proc -> {"free", "active", "exited"}]
  /\ id \in [Proc -> Pid]
  /\ flink \in [Node -> Node \cup {Null}]
  /\ refs \in [Proc -> Nat]
  /\ pc \in [Thread -> WalkLabel \cup CopyLabel]
  /\ arg \in [Thread -> Pid]
  /\ at \in [Thread -> Node]

TargetsProc == \A c \in Copier : pc[c] \in {"copy", "deref"} => at[c] \in Proc

HoldInv == HoldTypes /\ TargetsProc /\ CopyTargetHeld /\ ReferencesReturned

LEMMA HoldersFinite == \A p \in Proc : IsFiniteSet(Holders(p))
<1>1. \A p \in Proc : Holders(p) \subseteq Copier
  BY DEF Holders
<1> QED BY <1>1, ProcessAssumption, FS_Subset

\* A process without references is the target of no copy.
LEMMA UnreferencedUnheld ==
  ASSUME HoldInv, NEW p \in Proc, refs[p] = 0
  PROVE  Holders(p) = {}
<1>1. Cardinality(Holders(p)) = 0
  BY DEF HoldInv, ReferencesReturned
<1> QED BY <1>1, HoldersFinite, FS_EmptySet

LEMMA HoldInit == Init => HoldInv
<1> SUFFICES ASSUME Init PROVE HoldInv
  OBVIOUS
<1>1. HoldTypes
  BY ProcessAssumption DEF Init, HoldTypes, Thread, Node, WalkLabel, CopyLabel
<1>2. TargetsProc /\ CopyTargetHeld
  BY DEF Init, TargetsProc, CopyTargetHeld, Thread
<1>3. \A p \in Proc : Holders(p) = {}
  BY DEF Init, Holders, Thread
<1>4. ReferencesReturned
  BY <1>3, FS_EmptySet DEF Init, ReferencesReturned
<1> QED BY <1>1, <1>2, <1>4 DEF HoldInv

\* Steps that leave the copies in progress, the references and the processes they
\* refer to alone preserve the invariant.
LEMMA Undisturbed ==
  ASSUME HoldInv, HoldTypes', refs' = refs,
         \A c \in Copier : /\ pc'[c] \in {"copy", "deref"} <=> pc[c] \in {"copy", "deref"}
                           /\ pc[c] \in {"copy", "deref"} =>
                                /\ at'[c] = at[c] /\ arg'[c] = arg[c]
                                /\ st'[at[c]] # "free" /\ id'[at[c]] = id[at[c]]
  PROVE  HoldInv'
<1>1. \A p \in Proc : Holders(p)' = Holders(p)
  BY DEF Holders
<1>2. ReferencesReturned'
  BY <1>1 DEF HoldInv, ReferencesReturned
<1>3. TargetsProc' /\ CopyTargetHeld'
  BY DEF HoldInv, TargetsProc, CopyTargetHeld, Exists
<1> QED BY <1>2, <1>3 DEF HoldInv

-----------------------------------------------------------------------------

LEMMA StartHolds ==
  ASSUME HoldInv, NEW p \in Proc, StartProcess(p)
  PROVE  HoldInv'
<1>1. HoldTypes'
  <2>1. p \in Node /\ Head \in Node
    BY DEF Node
  <2>2. flink' \in [Node -> Node \cup {Null}]
    BY <2>1 DEF HoldInv, HoldTypes, StartProcess
  <2>3. id' \in [Proc -> Pid] /\ st' \in [Proc -> {"free", "active", "exited"}]
    BY DEF HoldInv, HoldTypes, StartProcess
  <2> QED BY <2>2, <2>3 DEF HoldInv, HoldTypes, StartProcess, walkVars
<1>2. \A c \in Copier : pc[c] \in {"copy", "deref"} => at[c] # p
  BY DEF HoldInv, CopyTargetHeld, Exists, StartProcess
<1> QED
  BY <1>1, <1>2, Undisturbed
  DEF HoldInv, HoldTypes, TargetsProc, CopyTargetHeld, Exists, StartProcess, walkVars

LEMMA ExitHolds ==
  ASSUME HoldInv, NEW p \in Proc, ExitProcess(p)
  PROVE  HoldInv'
<1>1. HoldTypes'
  <2>1. flink[p] \in Node \cup {Null}
    BY DEF HoldInv, HoldTypes, Node
  <2>2. flink' \in [Node -> Node \cup {Null}]
    BY <2>1 DEF HoldInv, HoldTypes, ExitProcess
  <2>3. st' \in [Proc -> {"free", "active", "exited"}]
    BY DEF HoldInv, HoldTypes, ExitProcess
  <2> QED BY <2>2, <2>3 DEF HoldInv, HoldTypes, ExitProcess
<1> QED
  BY <1>1, Undisturbed
  DEF HoldInv, HoldTypes, TargetsProc, CopyTargetHeld, Exists, ExitProcess

LEMMA FreeHolds ==
  ASSUME HoldInv, NEW p \in Proc, FreeProcess(p)
  PROVE  HoldInv'
<1>1. HoldTypes'
  BY ProcessAssumption DEF HoldInv, HoldTypes, FreeProcess, walkVars
<1>2. Holders(p) = {}
  BY UnreferencedUnheld DEF FreeProcess
<1>3. \A c \in Copier : pc[c] \in {"copy", "deref"} => at[c] # p
  BY <1>2 DEF Holders
<1> QED
  BY <1>1, <1>3, Undisturbed
  DEF HoldInv, HoldTypes, TargetsProc, CopyTargetHeld, Exists, FreeProcess, walkVars

\* The walk touches no copy in progress.
LEMMA WalkHolds ==
  ASSUME HoldInv, NEW w \in Walker, Lookup(w) \/ WalkStep(w)
  PROVE  HoldInv'
<1> USE ProcessAssumption DEF Thread, Node, WalkLabel, CopyLabel, Walking, Goto, Answer,
        kernelVars, walkVars
<1>1. /\ refs' = refs /\ st' = st /\ id' = id
      /\ \A c \in Copier : pc'[c] = pc[c] /\ at'[c] = at[c] /\ arg'[c] = arg[c]
  <2> USE DEF HoldInv, HoldTypes
  <2>1. CASE Lookup(w)          BY <2>1 DEF Lookup
  <2>2. CASE LoadSystem(w)      BY <2>2 DEF LoadSystem
  <2>3. CASE ResolveSystem(w)   BY <2>3 DEF ResolveSystem
  <2>4. CASE LoadOffset(w)      BY <2>4 DEF LoadOffset
  <2>5. CASE FindOffset(w)      BY <2>5 DEF FindOffset
  <2>6. CASE SearchFails(w)     BY <2>6 DEF SearchFails
  <2>7. CASE ReadPid(w)         BY <2>7 DEF ReadPid
  <2>8. CASE ReadFlink(w)       BY <2>8 DEF ReadFlink
  <2> QED BY <2>1, <2>2, <2>3, <2>4, <2>5, <2>6, <2>7, <2>8 DEF WalkStep
<1>2. HoldTypes'
  <2> USE DEF HoldInv, HoldTypes
  <2>1. CASE Lookup(w)          BY <2>1 DEF Lookup
  <2>2. CASE LoadSystem(w)      BY <2>2 DEF LoadSystem
  <2>3. CASE ResolveSystem(w)   BY <2>3 DEF ResolveSystem
  <2>4. CASE LoadOffset(w)      BY <2>4 DEF LoadOffset
  <2>5. CASE FindOffset(w)      BY <2>5 DEF FindOffset
  <2>6. CASE SearchFails(w)     BY <2>6 DEF SearchFails
  <2>7. CASE ReadPid(w)         BY <2>7 DEF ReadPid
  <2>8. CASE ReadFlink(w)
    <3>1. at[w] \in Node /\ flink[at[w]] \in Node \cup {Null}
      OBVIOUS
    <3> QED BY <2>8, <3>1 DEF ReadFlink
  <2> QED BY <2>1, <2>2, <2>3, <2>4, <2>5, <2>6, <2>7, <2>8 DEF WalkStep
<1> QED
  BY <1>1, <1>2, Undisturbed DEF HoldInv, CopyTargetHeld, Exists

\* A call begins or ends, copies a byte or fails to find the process.
LEMMA QuietCopyHolds ==
  ASSUME HoldInv,
         \/ \E t \in Thread : Return(t)
         \/ \E c \in Copier : MmCall(c) \/ MmLookupFails(c) \/ CopyByte(c) \/ CopyEnds(c)
  PROVE  HoldInv'
<1> USE ProcessAssumption
    DEF HoldInv, HoldTypes, Thread, Node, WalkLabel, CopyLabel, Walking, Goto, Answer,
        kernelVars, walkVars
<1>1. CASE \E t \in Thread : Return(t)
  <2> PICK t \in Thread : Return(t)
    BY <1>1
  <2>1. HoldTypes'
    BY DEF Return
  <2> QED BY <2>1, Undisturbed DEF Return, CopyTargetHeld, Exists
<1>2. ASSUME NEW c \in Copier, MmCall(c) PROVE HoldInv'
  <2>1. HoldTypes'
    BY <1>2 DEF MmCall
  <2> QED BY <1>2, <2>1, Undisturbed DEF MmCall, CopyTargetHeld, Exists
<1>3. ASSUME NEW c \in Copier, MmLookupFails(c) PROVE HoldInv'
  <2>1. HoldTypes'
    BY <1>3 DEF MmLookupFails
  <2> QED BY <1>3, <2>1, Undisturbed DEF MmLookupFails, CopyTargetHeld, Exists
<1>4. ASSUME NEW c \in Copier, CopyByte(c) PROVE HoldInv'
  BY <1>4, Undisturbed DEF CopyByte, CopyTargetHeld, Exists
<1>5. ASSUME NEW c \in Copier, CopyEnds(c) PROVE HoldInv'
  <2>1. HoldTypes'
    BY <1>5 DEF CopyEnds
  <2> QED BY <1>5, <2>1, Undisturbed DEF CopyEnds, CopyTargetHeld, Exists
<1> QED BY <1>1, <1>2, <1>3, <1>4, <1>5

\* A lookup adds one reference and one holder, to the process it found.
LEMMA LookupHolds ==
  ASSUME HoldInv, NEW c \in Copier, MmLookup(c)
  PROVE  HoldInv'
<1> USE DEF HoldInv, HoldTypes, Thread, Node, WalkLabel, CopyLabel, Walking, Goto
<1>1. PICK p \in Proc : /\ Exists(p) /\ id[p] = arg[c]
                        /\ refs' = [refs EXCEPT ![p] = @ + 1]
                        /\ at' = [at EXCEPT ![c] = p]
  BY DEF MmLookup
<1>2. HoldTypes'
  BY <1>1 DEF MmLookup
<1>3. TargetsProc' /\ CopyTargetHeld'
  BY <1>1 DEF MmLookup, TargetsProc, CopyTargetHeld, Exists
<1>4. Holders(p)' = Holders(p) \cup {c} /\ c \notin Holders(p)
  BY <1>1 DEF MmLookup, Holders
<1>5. \A q \in Proc \ {p} : Holders(q)' = Holders(q)
  BY <1>1 DEF MmLookup, Holders
<1>6. Cardinality(Holders(p)') = Cardinality(Holders(p)) + 1
  BY <1>4, HoldersFinite, FS_AddElement
<1>7. ReferencesReturned'
  BY <1>1, <1>5, <1>6 DEF ReferencesReturned
<1> QED BY <1>2, <1>3, <1>7

\* A release takes away one reference and its holder, on every path.
LEMMA DereferenceHolds ==
  ASSUME HoldInv, NEW c \in Copier, Dereference(c)
  PROVE  HoldInv'
<1>1. PICK p \in Proc : p = at[c] /\ c \in Holders(p)
  BY DEF HoldInv, Dereference, TargetsProc, Holders
<1>2. IsFiniteSet(Holders(p))
  BY HoldersFinite
<1>3. Cardinality(Holders(p)) \in Nat
  BY <1>2, FS_CardinalityType
<1>4. Cardinality(Holders(p) \ {c}) = Cardinality(Holders(p)) - 1
  BY <1>1, <1>2, FS_RemoveElement
<1>5. Cardinality(Holders(p)) # 0
  BY <1>1, <1>2, FS_EmptySet
<1>6. refs[p] \in Nat /\ refs[p] # 0 /\ refs' = [refs EXCEPT ![p] = refs[p] - 1]
  BY <1>1, <1>3, <1>5 DEF HoldInv, ReferencesReturned, Dereference
<1>7. HoldTypes'
  <2>1. refs' \in [Proc -> Nat]
    BY <1>6 DEF HoldInv, HoldTypes
  <2>2. pc' \in [Thread -> WalkLabel \cup CopyLabel]
    BY DEF HoldInv, HoldTypes, Dereference, Answer, Goto, WalkLabel
  <2> QED BY <2>1, <2>2 DEF HoldInv, HoldTypes, Dereference, walkVars
<1>8. /\ \A d \in Copier : pc'[d] \in {"copy", "deref"}
                              <=> d # c /\ pc[d] \in {"copy", "deref"}
      /\ at' = at /\ arg' = arg /\ st' = st /\ id' = id
  BY DEF HoldInv, HoldTypes, Thread, Dereference, Answer, Goto, walkVars
<1>9. TargetsProc' /\ CopyTargetHeld'
  BY <1>8 DEF HoldInv, TargetsProc, CopyTargetHeld, Exists
<1>10. Holders(p)' = Holders(p) \ {c}
  BY <1>8 DEF Holders
<1>11. \A q \in Proc \ {p} : Holders(q)' = Holders(q)
  BY <1>1, <1>8 DEF Holders
<1>12. ReferencesReturned'
  <2> SUFFICES ASSUME NEW q \in Proc PROVE refs'[q] = Cardinality(Holders(q)')
    BY DEF ReferencesReturned, Holders
  <2>1. refs[q] = Cardinality(Holders(q))
    BY DEF HoldInv, ReferencesReturned
  <2>2. CASE q = p
    BY <2>1, <2>2, <1>4, <1>6, <1>10 DEF HoldInv, HoldTypes
  <2>3. CASE q # p
    BY <2>1, <2>3, <1>6, <1>11 DEF HoldInv, HoldTypes
  <2> QED BY <2>2, <2>3
<1> QED BY <1>7, <1>9, <1>12 DEF HoldInv

LEMMA HoldNext == HoldInv /\ [Next]_vars => HoldInv'
<1> SUFFICES ASSUME HoldInv, [Next]_vars PROVE HoldInv'
  OBVIOUS
<1>1. CASE UNCHANGED vars
  BY <1>1 DEF vars, HoldInv, HoldTypes, TargetsProc, CopyTargetHeld, ReferencesReturned,
              Holders, Exists
<1>2. CASE Next
  BY <1>2, StartHolds, ExitHolds, FreeHolds, WalkHolds, QuietCopyHolds, LookupHolds,
     DereferenceHolds DEF Next, CopyStep
<1> QED BY <1>1, <1>2

-----------------------------------------------------------------------------

\* mm_read and mm_write only copy to and from the process they looked up, for any number
\* of concurrent calls and of processes that exit and are freed (rw.rs:89, 138).
THEOREM CopiesStayHeld == Spec => []CopyTargetHeld
<1>1. HoldInv => CopyTargetHeld
  BY DEF HoldInv
<1> QED BY <1>1, HoldInit, HoldNext, PTL DEF Spec

\* Every reference is given back, on every path, exactly once (rw.rs:98, 147).
THEOREM ReferencesAreReturned == Spec => []ReferencesReturned
<1>1. HoldInv => ReferencesReturned
  BY DEF HoldInv
<1> QED BY <1>1, HoldInit, HoldNext, PTL DEF Spec

(***************************************************************************)
(* What a walk can come across.  Processes enter the list at its tail, so  *)
(* their ranks r, the numbers they entered under, order it; the head ranks *)
(* behind all of them.                                                     *)
(***************************************************************************)
RankOf(r, b, n) == IF n = Head THEN b + 1 ELSE r[n]

\* Each entry leads to the next one.
Order(r, b) ==
  /\ st[System] = "active" /\ r[System] = 0 /\ flink[Head] = System
  /\ \A p, q \in Proc : Exists(p) /\ Exists(q) /\ r[p] = r[q] => p = q
  /\ \A n \in Listed \ {Head} :
       /\ flink[n] \in Listed /\ RankOf(r, b, n) < RankOf(r, b, flink[n])
       /\ \A m \in Listed : ~(/\ RankOf(r, b, n) < RankOf(r, b, m)
                              /\ RankOf(r, b, m) < RankOf(r, b, flink[n]))
  /\ \A n \in Listed : \E m \in Listed : flink[m] = n

\* The nodes G that the walk of w may come to: all that have been in the list since it
\* began, whose links, stale ones included, lead over none that it must not miss.
Reach(w, G, r, b) ==
  /\ Listed \subseteq G /\ \A n \in G : n = Head \/ Exists(n)
  /\ \A n \in G \ {Head} :
       /\ flink[n] \in G /\ RankOf(r, b, n) < RankOf(r, b, flink[n])
       /\ \A q \in lasting[w] : ~(RankOf(r, b, n) < r[q] /\ r[q] < RankOf(r, b, flink[n]))
  /\ \A n \in G \ {Head} : id[n] = arg[w] => n \in matched[w]
  /\ at[w] \in G
  /\ pc[w] = "pid" => \A q \in lasting[w] : RankOf(r, b, at[w]) <= r[q]
  /\ pc[w] = "flink" => \A q \in lasting[w] : RankOf(r, b, at[w]) < r[q]

Reaches(w, r, b) == pc[w] \in Walking => \E G \in SUBSET Node : Reach(w, G, r, b)

ListOrdered == \E b \in Nat : \E r \in [Proc -> 0..b] :
  Order(r, b) /\ \A w \in Walker : Reaches(w, r, b)

\* What the walk of w knows besides.
Knows(w) ==
  /\ \A q \in lasting[w] : st[q] = "active" /\ id[q] = arg[w]
  /\ pc[w] # "idle" => \A q \in Proc : st[q] = "active" /\ id[q] = arg[w] => q \in matched[w]
  /\ pc[w] # "idle" => arg[w] \in Asked
  /\ pc[w] = "find" => at[w] = System
  /\ pc[w] = "returned" /\ answer[w] = "none" => lasting[w] = {}

WalkTypes ==
  /\ lasting \in [Walker -> SUBSET Proc] /\ matched \in [Walker -> SUBSET Proc]
  /\ answer = [t \in Thread |-> answer[t]]

ListInv == HoldInv /\ WalkTypes /\ ListOrdered /\ \A w \in Walker : Knows(w)

LEMMA ListInit == Init => ListInv
<1> SUFFICES ASSUME Init PROVE ListInv
  OBVIOUS
<1>1. HoldInv
  BY HoldInit
<1>2. WalkTypes /\ \A w \in Walker : Knows(w)
  BY DEF Init, WalkTypes, Knows, Thread
<1> DEFINE r == [p \in Proc |-> 0]
<1>3. Listed = {Head, System} /\ Head # System /\ System \in Proc /\ flink[Head] = System
      /\ flink[System] = Head
  BY ProcessAssumption DEF Init, Listed, Node
<1>4. \A p \in Proc : Exists(p) => p = System
  BY DEF Init, Exists
<1>5. Order(r, 0)
  BY <1>3, <1>4 DEF Order, Init, RankOf
<1>6. \A w \in Walker : Reaches(w, r, 0)
  BY DEF Init, Reaches, Walking, Thread
<1>7. r \in [Proc -> 0..0]
  OBVIOUS
<1> HIDE DEF r
<1> QED BY <1>1, <1>2, <1>5, <1>6, <1>7 DEF ListInv, ListOrdered

LEMMA Predecessor ==
  ASSUME NEW r, NEW b, Order(r, b), NEW n \in Listed
  PROVE  Before(n) \in Listed /\ flink[Before(n)] = n
<1>1. \E m \in Listed : flink[m] = n
  BY DEF Order
<1> QED BY <1>1 DEF Before

(***************************************************************************)
(* The system changes the list.                                            *)
(***************************************************************************)
LEMMA StartLists ==
  ASSUME ListInv, NEW p \in Proc, StartProcess(p)
  PROVE  ListInv'
<1>1. HoldInv'
  BY StartHolds DEF ListInv
<1>2. PICK b \in Nat : \E r \in [Proc -> 0..b] :
                         Order(r, b) /\ \A w \in Walker : Reaches(w, r, b)
  BY DEF ListInv, ListOrdered
<1>3. PICK r \in [Proc -> 0..b] : Order(r, b) /\ \A w \in Walker : Reaches(w, r, b)
  BY <1>2
<1> DEFINE m == Before(Head)
           s == [r EXCEPT ![p] = b + 1]
           c == b + 1
<1>4. /\ st[p] = "free" /\ st' = [st EXCEPT ![p] = "active"]
      /\ flink' = [flink EXCEPT ![m] = p, ![p] = Head]
      /\ UNCHANGED <<refs, cached, at, lasting, pc, arg, answer, copied>>
      /\ \A q \in Proc : q # p => id'[q] = id[q]
      /\ \A w \in Walker : matched[w] \subseteq matched'[w]
      /\ \A w \in Walker : id'[p] = arg[w] => p \in matched'[w]
      /\ matched' \in [Walker -> SUBSET Proc]
  BY DEF StartProcess, ListInv, HoldInv, HoldTypes, WalkTypes
<1>5. /\ Head \in Listed /\ Listed \subseteq Node /\ p \notin Listed
      /\ Listed' = Listed \cup {p} /\ Head \notin Proc /\ System \in Proc
  BY <1>4, ProcessAssumption DEF Listed, Node, ListInv, HoldInv, HoldTypes
<1>6. m \in Listed /\ flink[m] = Head
  BY <1>3, <1>5, Predecessor
<1> HIDE DEF m
<1>7. m # Head /\ m # p /\ m \in Proc
  BY <1>3, <1>5, <1>6 DEF Order, Listed, Node
<1>8. /\ flink'[m] = p /\ flink'[p] = Head /\ flink'[Head] = flink[Head]
      /\ \A n \in Node : n \notin {m, p} => flink'[n] = flink[n]
  BY <1>4, <1>5, <1>7 DEF ListInv, HoldInv, HoldTypes, Node
<1>9. s \in [Proc -> 0..c] /\ c \in Nat
  OBVIOUS
<1>10. /\ \A q \in Proc : q # p => s[q] = r[q] /\ r[q] \in 0..b
       /\ s[p] = b + 1
  OBVIOUS
<1>11. /\ \A n \in Node : n \notin {Head, p} =>
            RankOf(s, c, n) = RankOf(r, b, n) /\ RankOf(r, b, n) \in 0..b
       /\ RankOf(s, c, Head) = b + 2 /\ RankOf(s, c, p) = b + 1 /\ RankOf(r, b, Head) = b + 1
  BY <1>5, <1>10 DEF RankOf, Node
<1> HIDE DEF s, c
<1>12. Order(s, c)'
  <2>1. st'[System] = "active" /\ s[System] = 0 /\ flink'[Head] = System
    BY <1>3, <1>4, <1>5, <1>8, <1>10 DEF Order, ListInv, HoldInv, HoldTypes
  <2>2. \A q, u \in Proc : Exists(q)' /\ Exists(u)' /\ s[q] = s[u] => q = u
    BY <1>3, <1>4, <1>10 DEF Order, Exists, ListInv, HoldInv, HoldTypes
  <2>3. ASSUME NEW n \in Listed', n # Head
        PROVE  /\ flink'[n] \in Listed' /\ RankOf(s, c, n) < RankOf(s, c, flink'[n])
               /\ \A k \in Listed' : ~(/\ RankOf(s, c, n) < RankOf(s, c, k)
                                       /\ RankOf(s, c, k) < RankOf(s, c, flink'[n]))
    <3>1. CASE n = p
      BY <1>5, <1>8, <1>11, <3>1
    <3>2. CASE n = m
      BY <1>3, <1>5, <1>6, <1>7, <1>8, <1>11, <3>2 DEF Order
    <3>3. CASE n \notin {m, p}
      <4>1. n \in Listed /\ n # Head /\ flink'[n] = flink[n] /\ flink[n] \in Listed
        BY <1>3, <1>5, <1>8, <2>3, <3>3 DEF Order
      <4>2. flink[n] # Head
        <5> SUFFICES ASSUME flink[n] = Head PROVE FALSE
          OBVIOUS
        <5>1. RankOf(r, b, n) < RankOf(r, b, m) \/ RankOf(r, b, m) < RankOf(r, b, n)
              \/ RankOf(r, b, n) = RankOf(r, b, m)
          BY <1>5, <1>6, <1>7, <1>11, <4>1
        <5>2. RankOf(r, b, m) < RankOf(r, b, Head) /\ RankOf(r, b, n) < RankOf(r, b, Head)
          BY <1>5, <1>6, <1>7, <1>11, <4>1
        <5>3. RankOf(r, b, n) = RankOf(r, b, m)
          BY <1>3, <1>6, <1>7, <4>1, <5>1, <5>2 DEF Order
        <5>4. n \in Proc /\ Exists(n) /\ Exists(m)
          BY <1>6, <1>7, <4>1 DEF Listed, Node, Exists
        <5> QED BY <1>3, <1>7, <3>3, <4>1, <5>3, <5>4 DEF Order, RankOf
      <4> QED BY <1>3, <1>5, <1>11, <4>1, <4>2 DEF Order
    <3> QED BY <3>1, <3>2, <3>3
  <2>4. \A n \in Listed' : \E k \in Listed' : flink'[k] = n
    <3> SUFFICES ASSUME NEW n \in Listed' PROVE \E k \in Listed' : flink'[k] = n
      OBVIOUS
    <3>1. CASE n = p
      BY <1>5, <1>6, <1>8, <3>1
    <3>2. CASE n = Head
      BY <1>5, <1>8, <3>2
    <3>3. CASE n \notin {p, Head}
      <4>1. PICK k \in Listed : flink[k] = n
        BY <1>3, <1>5, <3>3 DEF Order
      <4> QED BY <1>5, <1>6, <1>8, <3>3, <4>1
    <3> QED BY <3>1, <3>2, <3>3
  <2> QED BY <2>1, <2>2, <2>3, <2>4 DEF Order
<1>13. ASSUME NEW w \in Walker PROVE Reaches(w, s, c)'
  <2> SUFFICES ASSUME pc'[w] \in Walking PROVE \E G \in SUBSET Node : Reach(w, G, s, c)'
    BY DEF Reaches
  <2>1. PICK G \in SUBSET Node : Reach(w, G, r, b)
    BY <1>3, <1>4 DEF Reaches
  <2> DEFINE F == G \cup {p}
  <2>2. F \in SUBSET Node /\ Listed' \subseteq F /\ \A n \in F : n = Head \/ Exists(n)'
    BY <1>4, <1>5, <2>1 DEF Reach, Exists, Node, ListInv, HoldInv, HoldTypes
  <2>3. \A q \in lasting[w] : q \in Proc /\ q # p /\ s[q] = r[q] /\ r[q] \in 0..b
    BY <1>4, <1>10 DEF ListInv, Knows, WalkTypes
  <2>4. p \notin G
    BY <1>4, <1>5, <2>1 DEF Reach, Exists
  <2>5. ASSUME NEW n \in F, n # Head
        PROVE  /\ flink'[n] \in F /\ RankOf(s, c, n) < RankOf(s, c, flink'[n])
               /\ \A q \in lasting[w] : ~(RankOf(s, c, n) < s[q] /\ s[q] < RankOf(s, c, flink'[n]))
    <3>0. Head \in G /\ G \subseteq Node
      BY <1>5, <2>1 DEF Reach
    <3>1. CASE n = p
      BY <1>8, <1>11, <2>3, <3>0, <3>1
    <3>2. CASE n = m
      BY <1>6, <1>7, <1>8, <1>11, <2>1, <2>3, <2>5, <3>0, <3>2 DEF Reach, Node
    <3>3. CASE n \notin {m, p}
      <4>1. n \in G /\ flink'[n] = flink[n] /\ flink[n] \in G /\ flink[n] # p
        BY <1>8, <2>1, <2>4, <2>5, <3>0, <3>3 DEF Reach
      <4> QED BY <1>11, <2>1, <2>3, <2>5, <3>0, <3>3, <4>1 DEF Reach
    <3> QED BY <3>1, <3>2, <3>3
  <2>6. /\ at[w] \in F
        /\ pc[w] = "pid" => \A q \in lasting[w] : RankOf(s, c, at[w]) <= s[q]
        /\ pc[w] = "flink" => \A q \in lasting[w] : RankOf(s, c, at[w]) < s[q]
    <3>1. at[w] \in G /\ at[w] # p /\ at[w] \in Node
      BY <2>1, <2>4 DEF Reach
    <3>2. at[w] = Head => lasting[w] = {} \/ pc[w] \notin {"pid", "flink"}
      BY <1>11, <2>1, <2>3 DEF Reach
    <3> QED BY <1>11, <2>1, <2>3, <3>1, <3>2 DEF Reach
  <2>7. \A n \in F \ {Head} : id'[n] = arg[w] => n \in matched'[w]
    <3> SUFFICES ASSUME NEW n \in F \ {Head}, id'[n] = arg[w] PROVE n \in matched'[w]
      OBVIOUS
    <3>1. CASE n = p
      BY <1>4, <3>1
    <3>2. CASE n # p
      <4>1. n \in G \ {Head} /\ n \in Proc
        BY <2>1, <3>2 DEF Node
      <4>2. n \in matched[w]
        BY <1>4, <2>1, <3>2, <4>1 DEF Reach
      <4> QED BY <1>4, <4>2
    <3> QED BY <3>1, <3>2
  <2> HIDE DEF F
  <2>8. Reach(w, F, s, c)'
    BY <1>4, <2>2, <2>5, <2>6, <2>7 DEF Reach, walkVars
  <2> QED BY <2>2, <2>8
<1>14. ASSUME NEW w \in Walker PROVE Knows(w)'
  BY <1>4 DEF ListInv, Knows, walkVars, HoldInv, HoldTypes, WalkTypes
<1>15. WalkTypes'
  BY <1>4 DEF ListInv, WalkTypes, walkVars
<1>16. ListOrdered'
  BY <1>9, <1>12, <1>13 DEF ListOrdered
<1> QED BY <1>1, <1>14, <1>15, <1>16 DEF ListInv

LEMMA ExitLists ==
  ASSUME ListInv, NEW p \in Proc, ExitProcess(p)
  PROVE  ListInv'
<1>1. HoldInv'
  BY ExitHolds DEF ListInv
<1>2. PICK b \in Nat : \E r \in [Proc -> 0..b] :
                         Order(r, b) /\ \A w \in Walker : Reaches(w, r, b)
  BY DEF ListInv, ListOrdered
<1>3. PICK r \in [Proc -> 0..b] : Order(r, b) /\ \A w \in Walker : Reaches(w, r, b)
  BY <1>2
<1> DEFINE m == Before(p)
           n == flink[p]
<1>4. /\ st[p] = "active" /\ p # System /\ st' = [st EXCEPT ![p] = "exited"]
      /\ flink' = [flink EXCEPT ![m] = n]
      /\ lasting' = [w \in Walker |-> lasting[w] \ {p}]
      /\ UNCHANGED <<id, refs, cached, at, matched, pc, arg, answer, copied>>
  BY DEF ExitProcess
<1>5. /\ p \in Listed /\ p # Head /\ Listed \subseteq Node /\ Head \notin Proc
      /\ Listed' = Listed \ {p}
  BY <1>4, ProcessAssumption DEF Listed, Node, ListInv, HoldInv, HoldTypes
<1>6. m \in Listed /\ flink[m] = p
  BY <1>3, <1>5, Predecessor
<1>7. n \in Listed /\ RankOf(r, b, p) < RankOf(r, b, n)
  BY <1>3, <1>5 DEF Order
<1> HIDE DEF m, n
<1>8. \A k \in Node : RankOf(r, b, k) \in Nat
  BY DEF RankOf, Node
<1>9. m # Head /\ m # p /\ n # p /\ m \in Proc /\ RankOf(r, b, m) < RankOf(r, b, p)
  <2>1. m # Head
    BY <1>3, <1>4, <1>6 DEF Order
  <2>2. RankOf(r, b, m) < RankOf(r, b, p)
    BY <1>3, <1>6, <2>1 DEF Order
  <2> QED BY <1>5, <1>6, <1>7, <1>8, <2>1, <2>2 DEF Node
<1>10. flink'[m] = n /\ \A k \in Node : k # m => flink'[k] = flink[k]
  BY <1>4, <1>5, <1>6 DEF ListInv, HoldInv, HoldTypes
<1>11. \A k \in Listed : RankOf(r, b, k) = RankOf(r, b, p) => k = p
  <2> SUFFICES ASSUME NEW k \in Listed, RankOf(r, b, k) = RankOf(r, b, p) PROVE k = p
    OBVIOUS
  <2>1. k # Head
    <3>1. RankOf(r, b, Head) = b + 1 /\ RankOf(r, b, p) = r[p] /\ r[p] \in 0..b
      BY <1>5 DEF RankOf
    <3> QED BY <3>1
  <2>2. k \in Proc /\ Exists(k) /\ Exists(p)
    BY <1>4, <1>5, <2>1 DEF Listed, Node, Exists
  <2> QED BY <1>3, <1>5, <2>1, <2>2 DEF Order, RankOf
<1>12. Order(r, b)'
  <2>1. st'[System] = "active" /\ r[System] = 0 /\ flink'[Head] = System
    BY <1>3, <1>4, <1>9, <1>10, ProcessAssumption DEF Order, ListInv, HoldInv, HoldTypes, Node
  <2>2. \A q, u \in Proc : Exists(q)' /\ Exists(u)' /\ r[q] = r[u] => q = u
    BY <1>3, <1>4 DEF Order, Exists, ListInv, HoldInv, HoldTypes
  <2>3. ASSUME NEW k \in Listed', k # Head
        PROVE  /\ flink'[k] \in Listed' /\ RankOf(r, b, k) < RankOf(r, b, flink'[k])
               /\ \A j \in Listed' : ~(/\ RankOf(r, b, k) < RankOf(r, b, j)
                                       /\ RankOf(r, b, j) < RankOf(r, b, flink'[k]))
    <3>1. CASE k = m
      <4>1. n \in Listed' /\ RankOf(r, b, m) < RankOf(r, b, n)
        BY <1>5, <1>7, <1>8, <1>9, <1>6
      <4>2. ASSUME NEW j \in Listed', RankOf(r, b, m) < RankOf(r, b, j),
                   RankOf(r, b, j) < RankOf(r, b, n)
            PROVE  FALSE
        <5>1. j \in Listed /\ j # p
          BY <1>5
        <5>2. ~(RankOf(r, b, j) < RankOf(r, b, p)) /\ ~(RankOf(r, b, p) < RankOf(r, b, j))
          BY <1>3, <1>5, <1>6, <1>9, <4>2, <5>1 DEF Order, n
        <5> QED BY <1>5, <1>8, <1>11, <5>1, <5>2
      <4> QED BY <1>10, <3>1, <4>1, <4>2
    <3>2. CASE k # m
      <4>1. k \in Listed /\ k # p /\ flink'[k] = flink[k] /\ flink[k] \in Listed
        BY <1>3, <1>5, <1>10, <2>3, <3>2 DEF Order
      <4>2. flink[k] # p
        <5> SUFFICES ASSUME flink[k] = p PROVE FALSE
          OBVIOUS
        <5>1. RankOf(r, b, k) < RankOf(r, b, p)
          BY <1>3, <2>3, <4>1 DEF Order
        <5>2. RankOf(r, b, k) = RankOf(r, b, m)
          BY <1>3, <1>5, <1>6, <1>8, <1>9, <2>3, <4>1, <5>1 DEF Order
        <5>3. k \in Proc /\ Exists(k) /\ Exists(m)
          BY <1>5, <1>6, <1>9, <2>3, <4>1 DEF Listed, Node, Exists
        <5> QED BY <1>3, <1>9, <2>3, <3>2, <5>2, <5>3 DEF Order, RankOf
      <4> QED BY <1>3, <1>5, <2>3, <4>1, <4>2 DEF Order
    <3> QED BY <3>1, <3>2
  <2>4. \A k \in Listed' : \E j \in Listed' : flink'[j] = k
    <3> SUFFICES ASSUME NEW k \in Listed' PROVE \E j \in Listed' : flink'[j] = k
      OBVIOUS
    <3>1. PICK j \in Listed : flink[j] = k
      BY <1>3, <1>5 DEF Order
    <3>2. CASE j = p
      BY <1>5, <1>6, <1>9, <1>10, <3>1, <3>2 DEF n
    <3>3. CASE j # p
      BY <1>5, <1>6, <1>10, <3>1, <3>3
    <3> QED BY <3>2, <3>3
  <2> QED BY <2>1, <2>2, <2>3, <2>4 DEF Order
<1>13. ASSUME NEW w \in Walker PROVE Reaches(w, r, b)'
  <2> SUFFICES ASSUME pc'[w] \in Walking PROVE \E G \in SUBSET Node : Reach(w, G, r, b)'
    BY DEF Reaches
  <2>1. PICK G \in SUBSET Node : Reach(w, G, r, b)
    BY <1>3, <1>4 DEF Reaches
  <2>2. Listed' \subseteq G /\ \A k \in G : k = Head \/ Exists(k)'
    BY <1>4, <1>5, <2>1 DEF Reach, Exists, Node, ListInv, HoldInv, HoldTypes
  <2>3. \A q \in lasting'[w] : q \in lasting[w] /\ q # p /\ q \in Listed /\ RankOf(r, b, q) = r[q]
    <3> SUFFICES ASSUME NEW q \in lasting'[w]
                 PROVE  q \in lasting[w] /\ q # p /\ q \in Listed /\ RankOf(r, b, q) = r[q]
      OBVIOUS
    <3>1. q \in lasting[w] /\ q # p
      BY <1>4
    <3>2. q \in Proc /\ st[q] = "active"
      BY <3>1 DEF ListInv, Knows, WalkTypes
    <3> QED BY <1>5, <3>1, <3>2 DEF Listed, Node, RankOf
  <2>4. ASSUME NEW k \in G, k # Head
        PROVE  /\ flink'[k] \in G /\ RankOf(r, b, k) < RankOf(r, b, flink'[k])
               /\ \A q \in lasting'[w] : ~(RankOf(r, b, k) < r[q] /\ r[q] < RankOf(r, b, flink'[k]))
    <3>1. CASE k = m
      <4>1. n \in G /\ RankOf(r, b, m) < RankOf(r, b, n)
        BY <1>5, <1>6, <1>7, <1>8, <1>9, <2>1 DEF Reach
      <4>2. ASSUME NEW q \in lasting'[w], RankOf(r, b, m) < r[q], r[q] < RankOf(r, b, n)
            PROVE  FALSE
        <5>1. q \in Listed' /\ RankOf(r, b, q) = r[q]
          BY <1>5, <2>3
        <5>2. flink'[m] = n /\ m \in Listed' /\ m # Head
          BY <1>5, <1>6, <1>9, <1>10
        <5> QED BY <1>12, <4>2, <5>1, <5>2 DEF Order
      <4> QED BY <1>10, <3>1, <4>1, <4>2
    <3>2. CASE k # m
      BY <1>10, <2>1, <2>3, <2>4, <3>2 DEF Reach
    <3> QED BY <3>1, <3>2
  <2>5. Reach(w, G, r, b)'
    BY <1>4, <2>1, <2>2, <2>3, <2>4 DEF Reach
  <2> QED BY <2>5
<1>14. ASSUME NEW w \in Walker PROVE Knows(w)'
  BY <1>4 DEF ListInv, Knows, HoldInv, HoldTypes, WalkTypes
<1>15. WalkTypes'
  BY <1>4 DEF ListInv, WalkTypes
<1>16. ListOrdered'
  BY <1>12, <1>13 DEF ListOrdered
<1> QED BY <1>1, <1>14, <1>15, <1>16 DEF ListInv

\* Memory is freed while nobody walks, so that stale links need not be kept.
LEMMA FreeLists ==
  ASSUME ListInv, NEW p \in Proc, FreeProcess(p)
  PROVE  ListInv'
<1>1. HoldInv'
  BY FreeHolds DEF ListInv
<1>2. PICK b \in Nat : \E r \in [Proc -> 0..b] : Order(r, b)
  BY DEF ListInv, ListOrdered
<1>3. PICK r \in [Proc -> 0..b] : Order(r, b)
  BY <1>2
<1>4. /\ st[p] = "exited" /\ \A w \in Walker : pc[w] \notin Walking
      /\ st' = [st EXCEPT ![p] = "free"]
      /\ flink' = [flink EXCEPT ![p] = Null]
      /\ UNCHANGED <<refs, cached, at, lasting, pc, arg, answer, copied>>
      /\ \A q \in Proc : q # p => id'[q] = id[q]
      /\ \A w \in Walker : matched'[w] = matched[w] \ {p}
      /\ matched' \in [Walker -> SUBSET Proc]
  BY DEF FreeProcess, ListInv, HoldInv, HoldTypes, WalkTypes
<1>5. /\ Listed' = Listed /\ Listed \subseteq Node
      /\ \A k \in Listed : flink'[k] = flink[k]
  BY <1>4, ProcessAssumption DEF Listed, Node, ListInv, HoldInv, HoldTypes
<1>6. Order(r, b)'
  <2>1. st'[System] = "active" /\ flink'[Head] = System
    BY <1>3, <1>4, <1>5, ProcessAssumption DEF Order, Listed, Node, ListInv, HoldInv, HoldTypes
  <2>2. \A q \in Proc : Exists(q)' => Exists(q)
    BY <1>4 DEF Exists, ListInv, HoldInv, HoldTypes
  <2> QED BY <1>3, <1>5, <2>1, <2>2 DEF Order
<1>7. \A w \in Walker : Reaches(w, r, b)'
  BY <1>4 DEF Reaches
<1>8. ASSUME NEW w \in Walker PROVE Knows(w)'
  <2>1. \A q \in Proc : st'[q] = "active" => q # p /\ st[q] = "active" /\ id'[q] = id[q]
    BY <1>4 DEF ListInv, HoldInv, HoldTypes
  <2>2. \A q \in lasting[w] : q \in Proc /\ st'[q] = st[q] /\ id'[q] = id[q]
    BY <1>4 DEF ListInv, Knows, HoldInv, HoldTypes, WalkTypes
  <2>3. pc[w] # "idle" => \A q \in Proc : st'[q] = "active" /\ id'[q] = arg[w] => q \in matched'[w]
    BY <1>4, <2>1 DEF ListInv, Knows
  <2> QED BY <1>4, <2>2, <2>3 DEF ListInv, Knows
<1>9. WalkTypes'
  BY <1>4 DEF ListInv, WalkTypes, walkVars
<1>10. ListOrdered'
  BY <1>6, <1>7 DEF ListOrdered
<1> QED BY <1>1, <1>8, <1>9, <1>10 DEF ListInv

(***************************************************************************)
(* The threads take their steps while the list stays as it is.             *)
(***************************************************************************)
LEMMA OneWalk ==
  ASSUME ListInv, HoldInv', WalkTypes', UNCHANGED <<st, id, flink>>,
         NEW w \in Walker, Knows(w)',
         \A v \in Walker \ {w} :
           /\ pc'[v] = pc[v] /\ at'[v] = at[v] /\ arg'[v] = arg[v]
           /\ answer'[v] = answer[v] /\ lasting'[v] = lasting[v] /\ matched'[v] = matched[v],
         \A b \in Nat : \A r \in [Proc -> 0..b] :
           Order(r, b) /\ Reaches(w, r, b) => Reaches(w, r, b)'
  PROVE  ListInv'
<1>1. \A v \in Walker : Knows(v)'
  BY DEF ListInv, Knows
<1>2. PICK b \in Nat : \E r \in [Proc -> 0..b] :
                         Order(r, b) /\ \A v \in Walker : Reaches(v, r, b)
  BY DEF ListInv, ListOrdered
<1>3. PICK r \in [Proc -> 0..b] : Order(r, b) /\ \A v \in Walker : Reaches(v, r, b)
  BY <1>2
<1>4. Listed' = Listed
  BY DEF Listed
<1>5. Order(r, b)'
  BY <1>3, <1>4 DEF Order, Exists
<1>6. ASSUME NEW v \in Walker, v # w PROVE Reaches(v, r, b)'
  BY <1>3, <1>4, <1>6 DEF Reaches, Reach, Exists
<1>7. Reaches(w, r, b)'
  BY <1>3
<1>8. ListOrdered'
  BY <1>5, <1>6, <1>7 DEF ListOrdered
<1> QED BY <1>1, <1>8 DEF ListInv

LEMMA NoWalk ==
  ASSUME ListInv, HoldInv', WalkTypes', UNCHANGED <<st, id, flink>>,
         \A v \in Walker :
           /\ pc'[v] = pc[v] /\ at'[v] = at[v] /\ arg'[v] = arg[v]
           /\ answer'[v] = answer[v] /\ lasting'[v] = lasting[v] /\ matched'[v] = matched[v]
  PROVE  ListInv'
<1>1. CASE Walker = {}
  <2>1. PICK b \in Nat : \E r \in [Proc -> 0..b] : Order(r, b)
    BY DEF ListInv, ListOrdered
  <2>2. PICK r \in [Proc -> 0..b] : Order(r, b)
    BY <2>1
  <2>3. Order(r, b)'
    BY <2>2 DEF Order, Exists, Listed
  <2>4. ListOrdered'
    BY <1>1, <2>3 DEF ListOrdered
  <2> QED BY <1>1, <2>4 DEF ListInv
<1>2. CASE Walker # {}
  <2>1. PICK w \in Walker : TRUE
    BY <1>2
  <2>2. Knows(w)'
    BY DEF ListInv, Knows
  <2>3. \A b \in Nat : \A r \in [Proc -> 0..b] : Reaches(w, r, b) => Reaches(w, r, b)'
    BY DEF Reaches, Reach, Exists, Listed
  <2> QED BY <2>2, <2>3, OneWalk
<1> QED BY <1>1, <1>2

\* Until the walk has a position, and once it has ended, nothing is asked of the list.
LEMMA StillLists ==
  ASSUME ListInv, NEW w \in Walker,
         \/ Lookup(w) \/ LoadSystem(w) \/ ResolveSystem(w) \/ SearchFails(w)
  PROVE  ListInv'
<1>1. HoldInv'
  BY WalkHolds DEF ListInv, WalkStep
<1> USE DEF ListInv, HoldInv, HoldTypes, WalkTypes, Thread, Goto, Answer, kernelVars, walkVars
<1>2. UNCHANGED <<st, id, flink>>
  BY DEF Lookup, LoadSystem, ResolveSystem, SearchFails
<1>3. WalkTypes'
  BY DEF Lookup, LoadSystem, ResolveSystem, SearchFails
<1>4. /\ pc'[w] \notin Walking \cup {"find"}
      /\ \A v \in Walker \ {w} :
           /\ pc'[v] = pc[v] /\ at'[v] = at[v] /\ arg'[v] = arg[v]
           /\ answer'[v] = answer[v] /\ lasting'[v] = lasting[v] /\ matched'[v] = matched[v]
  BY DEF Lookup, LoadSystem, ResolveSystem, SearchFails, Walking
<1>5. Knows(w)'
  BY ProcessAssumption DEF Lookup, LoadSystem, ResolveSystem, SearchFails, Knows
<1>6. \A b \in Nat : \A r \in [Proc -> 0..b] : Reaches(w, r, b)'
  BY <1>4 DEF Reaches
<1> HIDE DEF ListInv, HoldInv, WalkTypes
<1> QED BY <1>1, <1>2, <1>3, <1>4, <1>5, <1>6, OneWalk

\* The walk sets out from the system process, the first of the list.
LEMMA SetOutLists ==
  ASSUME ListInv, NEW w \in Walker, LoadOffset(w) \/ FindOffset(w)
  PROVE  ListInv'
<1>1. HoldInv'
  BY WalkHolds DEF ListInv, WalkStep
<1>2. /\ UNCHANGED <<st, id, flink>> /\ WalkTypes'
      /\ \A v \in Walker \ {w} :
           /\ pc'[v] = pc[v] /\ at'[v] = at[v] /\ arg'[v] = arg[v]
           /\ answer'[v] = answer[v] /\ lasting'[v] = lasting[v] /\ matched'[v] = matched[v]
      /\ pc'[w] \in {"pid", "find"} /\ at'[w] = System
      /\ arg' = arg /\ lasting' = lasting /\ matched' = matched /\ pc[w] # "idle"
  BY DEF ListInv, HoldInv, HoldTypes, WalkTypes, Thread, Goto, kernelVars, Knows,
         LoadOffset, FindOffset
<1>3. Knows(w)'
  BY <1>2 DEF ListInv, Knows
<1>4. ASSUME NEW b \in Nat, NEW r \in [Proc -> 0..b], Order(r, b)
      PROVE  Reaches(w, r, b)'
  <2>1. /\ Listed' = Listed /\ Listed \subseteq Node /\ \A n \in Listed : n = Head \/ Exists(n)'
        /\ System \in Listed /\ System \in Proc /\ System # Head
    BY <1>2, <1>4, ProcessAssumption DEF Listed, Node, Order, Exists
  <2>2. \A q \in lasting[w] : q \in Listed /\ q \in Proc /\ r[q] \in Nat
                              /\ RankOf(r, b, q) = r[q]
    <3>1. \A q \in lasting[w] : q \in Proc /\ st[q] = "active"
      BY DEF ListInv, Knows, WalkTypes
    <3> QED BY <3>1, ProcessAssumption DEF Listed, Node, RankOf
  <2>3. RankOf(r, b, System) = 0
    BY <1>4, <2>1 DEF Order, RankOf
  <2>4. \A n \in Listed \ {Head} :
          /\ flink'[n] \in Listed /\ RankOf(r, b, n) < RankOf(r, b, flink'[n])
          /\ \A q \in lasting'[w] : ~(RankOf(r, b, n) < r[q] /\ r[q] < RankOf(r, b, flink'[n]))
    BY <1>2, <1>4, <2>2 DEF Order
  <2>5. \A n \in Listed \ {Head} : id[n] = arg[w] => n \in matched[w]
    BY <1>2 DEF ListInv, Knows, Listed, Node
  <2>6. Reach(w, Listed, r, b)'
    BY <1>2, <2>1, <2>2, <2>3, <2>4, <2>5 DEF Reach
  <2> QED BY <2>1, <2>6 DEF Reaches
<1> QED BY <1>1, <1>2, <1>3, <1>4, OneWalk

\* A process that is not the one asked for is none of those the walk must not miss.
LEMMA ReadPidLists ==
  ASSUME ListInv, NEW w \in Walker, ReadPid(w)
  PROVE  ListInv'
<1>1. HoldInv'
  BY WalkHolds DEF ListInv, WalkStep
<1>2. /\ UNCHANGED <<st, id, flink, at, arg, lasting, matched>> /\ WalkTypes' /\ pc[w] = "pid"
      /\ \A v \in Walker \ {w} : pc'[v] = pc[v] /\ answer'[v] = answer[v]
      /\ \/ pc'[w] = "returned" /\ answer'[w] = at[w]
         \/ pc'[w] = "flink" /\ PidAt(at[w]) # arg[w]
  BY DEF ListInv, HoldInv, HoldTypes, WalkTypes, Thread, Goto, Answer, kernelVars, walkVars,
         ReadPid
<1>3. at[w] # "none"
  BY ProcessAssumption DEF ListInv, HoldInv, HoldTypes, Thread, Node
<1>4. Knows(w)'
  BY <1>2, <1>3 DEF ListInv, Knows
<1>5. ASSUME NEW b \in Nat, NEW r \in [Proc -> 0..b], Order(r, b), Reaches(w, r, b)
      PROVE  Reaches(w, r, b)'
  <2> SUFFICES ASSUME pc'[w] \in Walking PROVE \E G \in SUBSET Node : Reach(w, G, r, b)'
    BY DEF Reaches
  <2>1. pc'[w] = "flink" /\ PidAt(at[w]) # arg[w]
    BY <1>2 DEF Walking
  <2>2. PICK G \in SUBSET Node : Reach(w, G, r, b)
    BY <1>2, <1>5 DEF Reaches, Walking
  <2>3. ASSUME NEW q \in lasting[w] PROVE RankOf(r, b, at[w]) < r[q]
    <3>1. /\ q \in Proc /\ Exists(q) /\ id[q] = arg[w] /\ r[q] \in 0..b
          /\ RankOf(r, b, at[w]) <= r[q]
      BY <1>2, <2>2, <2>3 DEF ListInv, Knows, WalkTypes, Exists, Reach
    <3>2. at[w] # Head
      BY <3>1 DEF RankOf
    <3>3. at[w] \in Proc /\ Exists(at[w]) /\ r[at[w]] \in 0..b
      BY <2>2, <3>2 DEF Reach, Node
    <3>4. at[w] # q
      BY <2>1, <3>1, <3>2 DEF PidAt
    <3>5. r[at[w]] # r[q]
      BY <1>5, <3>1, <3>3, <3>4 DEF Order
    <3> QED BY <3>1, <3>2, <3>3, <3>5 DEF RankOf
  <2>4. Listed' = Listed /\ \A n : Exists(n)' <=> Exists(n)
    BY <1>2 DEF Listed, Exists
  <2>5. Reach(w, G, r, b)'
    BY <1>2, <2>1, <2>2, <2>3, <2>4 DEF Reach
  <2> QED BY <2>5
<1> QED BY <1>1, <1>2, <1>4, <1>5, OneWalk

\* The walk only comes to its end from the head, behind every process.
LEMMA ReadFlinkLists ==
  ASSUME ListInv, NEW w \in Walker, ReadFlink(w)
  PROVE  ListInv'
<1>1. HoldInv'
  BY WalkHolds DEF ListInv, WalkStep
<1>2. /\ UNCHANGED <<st, id, flink, arg, lasting, matched>> /\ WalkTypes' /\ pc[w] = "flink"
      /\ \A v \in Walker \ {w} : pc'[v] = pc[v] /\ answer'[v] = answer[v] /\ at'[v] = at[v]
      /\ \/ flink[at[w]] \in {Null, System} /\ pc'[w] = "returned"
         \/ flink[at[w]] \notin {Null, System} /\ pc'[w] = "pid" /\ at'[w] = flink[at[w]]
  BY DEF ListInv, HoldInv, HoldTypes, WalkTypes, Thread, Goto, Answer, kernelVars, ReadFlink
<1>3. ASSUME NEW b \in Nat, NEW r \in [Proc -> 0..b], Order(r, b), Reaches(w, r, b)
      PROVE  /\ flink[at[w]] \in {Null, System} => lasting[w] = {}
             /\ Reaches(w, r, b)'
  <2>1. PICK G \in SUBSET Node : Reach(w, G, r, b)
    BY <1>2, <1>3 DEF Reaches, Walking
  <2>2. /\ \A q \in lasting[w] : q \in Proc /\ r[q] \in 0..b /\ RankOf(r, b, at[w]) < r[q]
        /\ at[w] \in G
    BY <1>2, <2>1 DEF ListInv, WalkTypes, Reach
  <2>3. CASE at[w] = Head
    <3>1. flink[at[w]] = System /\ RankOf(r, b, at[w]) = b + 1
      BY <1>3, <2>3 DEF Order, RankOf
    <3>2. lasting[w] = {}
      BY <2>2, <3>1
    <3> QED BY <1>2, <3>1, <3>2 DEF Reaches, Walking
  <2>4. CASE at[w] # Head
    <3>1. /\ flink[at[w]] \in G /\ RankOf(r, b, at[w]) < RankOf(r, b, flink[at[w]])
          /\ \A q \in lasting[w] : ~(r[q] < RankOf(r, b, flink[at[w]]))
      BY <2>1, <2>2, <2>4 DEF Reach
    <3>2. at[w] \in Proc /\ r[at[w]] \in 0..b
      BY <2>1, <2>2, <2>4 DEF Node
    <3>3. flink[at[w]] # System
      BY <1>3, <2>4, <3>1, <3>2, ProcessAssumption DEF Order, RankOf
    <3>4. flink[at[w]] \in Node /\ flink[at[w]] # Null
      BY <2>1, <3>1, ProcessAssumption DEF Node
    <3>5. RankOf(r, b, flink[at[w]]) \in Nat
      BY <3>4 DEF RankOf, Node
    <3>6. Listed' = Listed /\ \A n : Exists(n)' <=> Exists(n)
      BY <1>2 DEF Listed, Exists
    <3>7. \A q \in lasting[w] : RankOf(r, b, at'[w]) <= r[q]
      BY <1>2, <2>2, <3>1, <3>3, <3>4, <3>5
    <3>8. Reach(w, G, r, b)'
      BY <1>2, <2>1, <3>1, <3>3, <3>4, <3>6, <3>7 DEF Reach
    <3> QED BY <3>3, <3>4, <3>8 DEF Reaches
  <2> QED BY <2>3, <2>4
<1>4. flink[at[w]] \in {Null, System} => lasting[w] = {}
  BY <1>3 DEF ListInv, ListOrdered
<1>5. Knows(w)'
  BY <1>2, <1>4 DEF ListInv, Knows
<1> QED BY <1>1, <1>2, <1>3, <1>5, OneWalk

\* Copies know nothing of the walks, and a thread that returns forgets its own.
LEMMA CopyLists ==
  ASSUME ListInv, NEW c \in Copier, MmCall(c) \/ CopyStep(c)
  PROVE  ListInv'
<1>1. HoldInv'
  BY QuietCopyHolds, LookupHolds, DereferenceHolds DEF ListInv, CopyStep
<1>2. c \notin Walker
  BY ProcessAssumption
<1>3. /\ UNCHANGED <<st, id, flink>> /\ WalkTypes'
      /\ \A v \in Walker :
           /\ pc'[v] = pc[v] /\ at'[v] = at[v] /\ arg'[v] = arg[v]
           /\ answer'[v] = answer[v] /\ lasting'[v] = lasting[v] /\ matched'[v] = matched[v]
  BY <1>2 DEF ListInv, HoldInv, HoldTypes, WalkTypes, Thread, Goto, Answer, kernelVars, walkVars,
     MmCall, CopyStep, MmLookup, MmLookupFails, CopyByte, CopyEnds, Dereference
<1> QED BY <1>1, <1>3, NoWalk

LEMMA ReturnLists ==
  ASSUME ListInv, NEW t \in Thread, Return(t)
  PROVE  ListInv'
<1>1. HoldInv'
  BY QuietCopyHolds DEF ListInv
<1>2. /\ UNCHANGED <<st, id, flink>> /\ WalkTypes'
      /\ \A v \in Walker \ {t} :
           /\ pc'[v] = pc[v] /\ at'[v] = at[v] /\ arg'[v] = arg[v]
           /\ answer'[v] = answer[v] /\ lasting'[v] = lasting[v] /\ matched'[v] = matched[v]
      /\ t \in Walker => pc'[t] = "idle" /\ lasting'[t] = {}
  BY DEF ListInv, HoldInv, HoldTypes, WalkTypes, Thread, Goto, kernelVars, Return
<1>3. CASE t \in Walker
  <2>1. Knows(t)'
    BY <1>2, <1>3 DEF Knows
  <2>2. \A b \in Nat : \A r \in [Proc -> 0..b] : Reaches(t, r, b)'
    BY <1>2, <1>3 DEF Reaches, Walking
  <2> QED BY <1>1, <1>2, <1>3, <2>1, <2>2, OneWalk
<1>4. CASE t \notin Walker
  BY <1>1, <1>2, <1>4, NoWalk
<1> QED BY <1>3, <1>4

LEMMA ListNext == ListInv /\ [Next]_vars => ListInv'
<1> SUFFICES ASSUME ListInv, [Next]_vars PROVE ListInv'
  OBVIOUS
<1>1. CASE UNCHANGED vars
  <2>1. HoldInv'
    BY <1>1, HoldNext DEF ListInv
  <2>2. UNCHANGED <<st, id, flink, pc, at, arg, answer, lasting, matched>> /\ WalkTypes'
    BY <1>1 DEF vars, ListInv, WalkTypes
  <2> QED BY <2>1, <2>2, NoWalk
<1>2. CASE Next
  BY <1>2, StartLists, ExitLists, FreeLists, StillLists, SetOutLists, ReadPidLists,
     ReadFlinkLists, CopyLists, ReturnLists DEF Next, WalkStep
<1> QED BY <1>1, <1>2

-----------------------------------------------------------------------------

\* "Ok(None) if no process with the specified identifier exists" (process/mod.rs:91): a
\* walk misses no process that is in the list all along, whatever starts and exits.
THEOREM NothingIsMissed == Spec => []NoneMeansAbsent
<1>1. ListInv => NoneMeansAbsent
  BY DEF ListInv, Knows, NoneMeansAbsent
<1> QED BY <1>1, ListInit, ListNext, PTL DEF Spec

LEMMA OnlyReadPidAnswers ==
  ASSUME ListInv, [Next]_vars, NEW w \in Walker, pc[w] = "pid", pc'[w] = "returned"
  PROVE  ReadPid(w)
<1> USE DEF ListInv, HoldInv, HoldTypes, Goto, Answer, Thread
<1>1. pc' # pc
  OBVIOUS
<1>2. ASSUME NEW t \in Thread, t # w, NEW l, pc' = [pc EXCEPT ![t] = l] PROVE FALSE
  BY <1>2
<1>3. ASSUME NEW p \in Proc, StartProcess(p) \/ ExitProcess(p) \/ FreeProcess(p) PROVE FALSE
  BY <1>1, <1>3 DEF StartProcess, ExitProcess, FreeProcess
<1>4. ASSUME NEW v \in Walker, Lookup(v) \/ WalkStep(v) PROVE ReadPid(w)
  <2>1. CASE v = w
    BY <1>4, <2>1 DEF WalkStep, Lookup, LoadSystem, ResolveSystem, LoadOffset, FindOffset,
       SearchFails, ReadFlink
  <2>2. CASE v # w
    <3>1. \E l : pc' = [pc EXCEPT ![v] = l]
      BY <1>4 DEF WalkStep, Lookup, LoadSystem, ResolveSystem, LoadOffset, FindOffset,
         SearchFails, ReadPid, ReadFlink
    <3> QED BY <1>2, <2>2, <3>1
  <2> QED BY <2>1, <2>2
<1>5. ASSUME NEW c \in Copier, MmCall(c) \/ CopyStep(c) PROVE FALSE
  <2>1. c # w
    BY ProcessAssumption
  <2>2. pc' = pc \/ \E l : pc' = [pc EXCEPT ![c] = l]
    BY <1>5 DEF MmCall, CopyStep, MmLookup, MmLookupFails, CopyByte, CopyEnds, Dereference
  <2> QED BY <1>1, <1>2, <2>1, <2>2
<1>6. ASSUME NEW t \in Thread, Return(t) PROVE FALSE
  BY <1>6 DEF Return
<1>7. CASE UNCHANGED vars
  BY <1>1, <1>7 DEF vars
<1> QED BY <1>3, <1>4, <1>5, <1>6, <1>7 DEF Next

\* "Ok(Some(process)) if a matching EPROCESS is found" (process/mod.rs:89): whatever
\* processes start, exit and leave stale links, an answer was in the list with the pid
\* asked for at a moment of the call; or it is the head, whose neighbouring word the walk
\* compares as if it were an identifier.
THEOREM AnswersWereListed == Spec => SomeWasListed
<1>1. ASSUME ListInv, [Next]_vars, NEW w \in Walker, pc[w] = "pid", pc'[w] = "returned"
      PROVE  answer'[w] \in matched[w] \/ (answer'[w] = Head /\ HeadWord = arg[w])
  <2>1. ReadPid(w)
    BY <1>1, OnlyReadPidAnswers
  <2>2. answer'[w] = at[w] /\ PidAt(at[w]) = arg[w]
    BY <1>1, <2>1 DEF ReadPid, Answer, Goto, ListInv, HoldInv, HoldTypes, WalkTypes, Thread
  <2>3. CASE at[w] = Head
    BY <2>2, <2>3 DEF PidAt
  <2>4. CASE at[w] # Head
    <3>1. PICK b \in Nat : \E r \in [Proc -> 0..b] :
                             Order(r, b) /\ \A v \in Walker : Reaches(v, r, b)
      BY <1>1 DEF ListInv, ListOrdered
    <3>2. PICK r \in [Proc -> 0..b] : Reaches(w, r, b)
      BY <3>1
    <3>3. PICK G \in SUBSET Node : Reach(w, G, r, b)
      BY <1>1, <3>2 DEF Reaches, Walking
    <3>4. at[w] \in G \ {Head} /\ id[at[w]] = arg[w]
      BY <2>2, <2>4, <3>3 DEF Reach, PidAt
    <3> QED BY <2>2, <3>3, <3>4 DEF Reach
  <2> QED BY <2>3, <2>4
<1>2. ListInv /\ [Next]_vars =>
        [\A w \in Walker : pc[w] = "pid" /\ pc'[w] = "returned" =>
           answer'[w] \in matched[w] \/ (answer'[w] = Head /\ HeadWord = arg[w])]_vars
  BY <1>1
<1> QED BY <1>2, ListInit, ListNext, PTL DEF Spec, SomeWasListed

\* What the walks and the copies keep for themselves.
OwnTypes ==
  /\ cached \subseteq {"system", "offset"}
  /\ copied \in [Copier -> 0..Len]

LEMMA OwnTypesNext == OwnTypes /\ [Next]_vars => OwnTypes'
<1> SUFFICES ASSUME OwnTypes, [Next]_vars PROVE OwnTypes'
  OBVIOUS
<1> USE ProcessAssumption DEF OwnTypes, kernelVars, walkVars
<1>1. ASSUME NEW p \in Proc, StartProcess(p) \/ ExitProcess(p) \/ FreeProcess(p)
      PROVE  OwnTypes'
  BY <1>1 DEF StartProcess, ExitProcess, FreeProcess
<1>2. ASSUME NEW w \in Walker, Lookup(w) \/ WalkStep(w) PROVE OwnTypes'
  BY <1>2 DEF WalkStep, Lookup, LoadSystem, ResolveSystem, LoadOffset, FindOffset,
     SearchFails, ReadPid, ReadFlink
<1>3. ASSUME NEW c \in Copier, MmCall(c) \/ CopyStep(c) PROVE OwnTypes'
  <2>1. CASE CopyByte(c)
    <3>1. copied[c] + 1 \in 0..Len
      BY <2>1 DEF CopyByte
    <3> QED BY <2>1, <3>1 DEF CopyByte
  <2>2. CASE ~CopyByte(c)
    BY <1>3, <2>2 DEF MmCall, CopyStep, MmLookup, MmLookupFails, CopyEnds, Dereference
  <2> QED BY <2>1, <2>2
<1>4. ASSUME NEW t \in Thread, Return(t) PROVE OwnTypes'
  BY <1>4 DEF Return
<1>5. CASE UNCHANGED vars
  BY <1>5 DEF vars
<1> QED BY <1>1, <1>2, <1>3, <1>4, <1>5 DEF Next

\* Every step keeps its variables within their types; no process has more references than
\* there are threads that copy.
THEOREM AccessTypes == Spec => []TypeOK
<1>1. Init => OwnTypes
  BY ProcessAssumption DEF Init, OwnTypes
<1>2. ListInv /\ OwnTypes => TypeOK
  <2> SUFFICES ASSUME ListInv, OwnTypes PROVE TypeOK
    OBVIOUS
  <2>1. \A p \in Proc : refs[p] \in 0..Cardinality(Copier)
    <3> SUFFICES ASSUME NEW p \in Proc PROVE refs[p] \in 0..Cardinality(Copier)
      OBVIOUS
    <3>1. Holders(p) \subseteq Copier /\ IsFiniteSet(Copier)
      BY ProcessAssumption DEF Holders
    <3>2. Cardinality(Holders(p)) <= Cardinality(Copier)
      BY <3>1, FS_Subset
    <3>3. Cardinality(Copier) \in Nat
      BY <3>1, FS_CardinalityType
    <3> QED BY <3>2, <3>3 DEF ListInv, HoldInv, HoldTypes, ReferencesReturned
  <2>2. refs \in [Proc -> 0..Cardinality(Copier)]
    BY <2>1 DEF ListInv, HoldInv, HoldTypes
  <2> QED BY <2>2 DEF TypeOK, OwnTypes, ListInv, HoldInv, HoldTypes, WalkTypes
<1> QED BY <1>1, <1>2, ListInit, ListNext, OwnTypesNext, PTL DEF Spec
=============================================================================
