------------------------------ MODULE PageWalk ------------------------------
(***************************************************************************)
(* memory::pagewalk: virtual_to_physical and get_address_of_level, one     *)
(* action per entry read, against an operating system that changes the     *)
(* page tables in between.                                                 *)
(*                                                                         *)
(* Levels count down as in the code: 4 is Pml4, 3 Pdpt, 2 Pd, 1 Pt and 0   *)
(* Phys.  Addresses are scaled: a table has Entries entries of one unit, a *)
(* page PageSize units, so that a large page is Entries pages (2 MiB) and  *)
(* a huge one Entries * Entries (1 GiB).                                   *)
(***************************************************************************)
EXTENDS Naturals

CONSTANTS
  Entries, PageSize,
  Table,       \* physical addresses of the pages used for tables
  Root,        \* CR3
  Entry,       \* the entries the operating system may write
  Va,          \* the virtual addresses asked for
  Start,       \* contents of the tables to begin with
  Walker,
  MaxWrites    \* bound: changes of the tables, of all the walks together

Level == 1..4
\* The value of want for virtual_to_physical; get_address_of_level has a level.
Translate == 5
Slot == UNION {t..(t + Entries - 1) : t \in Table}

ASSUME PageWalkAssumption ==
  /\ Entries \in Nat \ {0} /\ PageSize \in Nat \ {0} /\ Entries <= PageSize
  /\ Table \subseteq Nat /\ \A t, u \in Table : t < u => t + PageSize <= u
  /\ Root \in Table
  /\ Entry \subseteq [present : BOOLEAN, huge : BOOLEAN, addr : Nat]
  /\ Va \subseteq Nat
  /\ Start \subseteq [Slot -> Entry]
  /\ MaxWrites \in Nat

VARIABLES
  mem,       \* mem[a]: the entry at physical address a
  pc,        \* "idle", "walk" or "returned"
  va, want,  \* the arguments: a level, or Translate
  level,     \* the level of the entry to be read next
  table,     \* the table it is in
  answer,
  held,      \* history: the answers that have been right since the call began
  seen,      \* history: the tables that have been part of the tree since then
  writes     \* changes so far

walkVars == <<pc, va, want, level, table, answer>>
vars == <<mem, walkVars, held, seen, writes>>

(***************************************************************************)
(* What the processor makes of the tables.                                 *)
(***************************************************************************)

\* The size of the region that one entry of level l covers.
Region[l \in Level] == IF l = 1 THEN PageSize ELSE Entries * Region[l - 1]

Index(v, l) == (v \div Region[l]) % Entries

IsPage(e, l) == l = 1 \/ (l \in {2, 3} /\ e.huge)
Links(e, l) == e.present /\ ~IsPage(e, l)

\* The low bits of a large page's entry are not part of its address: bit 12 is PAT.
Base(e, l) == e.addr - (e.addr % Region[l])

Invalid(l, e) == [kind |-> "invalid", level |-> l, addr |-> e.addr]
Translated(a, l) == [kind |-> "ok", level |-> l, addr |-> a]
HugePageBeforeLevel == [kind |-> "huge", level |-> 0, addr |-> 0]
ReadErr == [kind |-> "read", level |-> 0, addr |-> 0]
NoAnswer == [kind |-> "none", level |-> 0, addr |-> 0]

\* The answer for v from table t of level l of the tables m, if deeper is the one from
\* the table hung there.
Comes(m, v, w, l, t, deeper) ==
  LET a == t + Index(v, l)
      e == m[a]
  IN  IF w = l THEN Translated(a, l)
      ELSE IF ~e.present THEN Invalid(l, e)
      ELSE IF Links(e, l) THEN deeper
      ELSE IF w # Translate /\ l # 1 THEN HugePageBeforeLevel
      ELSE Translated(Base(e, l) + (v % Region[l]), IF l = 1 THEN 0 ELSE l)

HungAt(m, v, l, t) == m[t + Index(v, l)].addr

FromPt(m, v, w, t) == Comes(m, v, w, 1, t, NoAnswer)
FromPd(m, v, w, t) == Comes(m, v, w, 2, t, FromPt(m, v, w, HungAt(m, v, 2, t)))
FromPdpt(m, v, w, t) == Comes(m, v, w, 3, t, FromPd(m, v, w, HungAt(m, v, 3, t)))
FromPml4(m, v, w, t) == Comes(m, v, w, 4, t, FromPdpt(m, v, w, HungAt(m, v, 4, t)))

RightAnswer(m, v, w) == FromPml4(m, v, w, Root)

SlotsOf(ts) == {t + i : t \in ts, i \in 0..(Entries - 1)}

\* The links in tables ts of level l: level and address of the entry, table hung there.
LinksIn(m, ts, l) == {<<l, a, m[a].addr>> : a \in {b \in SlotsOf(ts) : Links(m[b], l)}}

\* The tables that hang in those of level l, and the tables of all levels.
Below(m, ts, l) == {x[3] : x \in LinksIn(m, ts, l)} \cap Table

Tree(m) ==
  LET pdpts == Below(m, {Root}, 4)
      pds == Below(m, pdpts, 3)
      pts == Below(m, pds, 2)
  IN  <<pts, pds, pdpts, {Root}>>

Tables(m) == LET tree == Tree(m) IN UNION {tree[l] : l \in Level}

Hung(m) == LET tree == Tree(m) IN UNION {LinksIn(m, tree[l], l) : l \in Level}

\* Each table hangs in one place, the root in none.
IsTree(m) ==
  LET hung == Hung(m)
  IN  \A x \in hung : x[3] \in Table \ {Root} /\ \A y \in hung : x[3] = y[3] => x = y

ASSUME StartAssumption == \A m \in Start : IsTree(m)

-----------------------------------------------------------------------------

Init ==
  /\ mem \in Start
  /\ pc = [w \in Walker |-> "idle"]
  /\ va = [w \in Walker |-> 0]
  /\ want = [w \in Walker |-> Translate]
  /\ level = [w \in Walker |-> 4]
  /\ table = [w \in Walker |-> Root]
  /\ answer = [w \in Walker |-> NoAnswer]
  /\ held = [w \in Walker |-> {}]
  /\ seen = [w \in Walker |-> {}]
  /\ writes = 0

Walking == {w \in Walker : pc[w] = "walk"}

(***************************************************************************)
(* The operating system stores one entry.  It may write to tables in use,  *)
(* and to pages that no walk under way has had in its tree; only such      *)
(* pages are hung into the tree, as new tables.  So a table that was taken *)
(* out is neither written nor hung anywhere else, and one that is in the   *)
(* tree does not move, before the walks that may be in it have ended.      *)
(* Between walks the tables may change as well: Start covers that.         *)
(***************************************************************************)
OsWrite(a, e) ==
  /\ Walking # {} /\ writes < MaxWrites
  /\ mem[a] # e
  /\ LET fresh == Table \ UNION {seen[w] : w \in Walking}
         m == [mem EXCEPT ![a] = e]
     IN  /\ a \in SlotsOf(Tables(mem) \cup fresh)
         /\ IsTree(m)
         /\ {x[3] : x \in Hung(m) \ Hung(mem)} \subseteq fresh
         /\ mem' = m
         /\ held' = [w \in Walker |-> IF w \in Walking
                       THEN held[w] \cup {RightAnswer(m, va[w], want[w])} ELSE held[w]]
         /\ seen' = [w \in Walker |-> IF w \in Walking
                       THEN seen[w] \cup Tables(m) ELSE seen[w]]
  /\ writes' = writes + 1
  /\ UNCHANGED walkVars

-----------------------------------------------------------------------------

\* virtual_to_physical (want = Translate), or get_address_of_level of a level.
Call(w) ==
  /\ pc[w] = "idle"
  /\ \E v \in Va, x \in 0..5 :
       /\ va' = [va EXCEPT ![w] = v]
       /\ want' = [want EXCEPT ![w] = x]
       /\ held' = [held EXCEPT ![w] = {RightAnswer(mem, v, x)}]
  /\ seen' = [seen EXCEPT ![w] = Tables(mem)]
  /\ pc' = [pc EXCEPT ![w] = "walk"]
  /\ level' = [level EXCEPT ![w] = 4]
  /\ table' = [table EXCEPT ![w] = Root]
  /\ UNCHANGED <<mem, answer, writes>>

Answer(w, x) ==
  /\ answer' = [answer EXCEPT ![w] = x]
  /\ pc' = [pc EXCEPT ![w] = "returned"]
  /\ UNCHANGED <<mem, va, want, level, table, held, seen, writes>>

\* The address and the contents of the entry a walk is at.
At(w) == table[w] + Index(va[w], level[w])
Read(w) == mem[At(w)]

\* get_address_of_level has come to the level asked for.
Located(w) ==
  /\ pc[w] = "walk"
  /\ want[w] = level[w]
  /\ Answer(w, Translated(At(w), level[w]))

MustRead(w) == pc[w] = "walk" /\ want[w] # level[w]

ReadFails(w) ==
  /\ MustRead(w)
  /\ Answer(w, ReadErr)

NotPresent(w) ==
  /\ MustRead(w)
  /\ ~Read(w).present
  /\ Answer(w, Invalid(level[w], Read(w)))

\* mutant: the PDPT's large pages are forgotten
Huge_PdOnly(w) == level[w] = 2 /\ Read(w).huge

\* flags().contains(HUGE_PAGE), looked at in entries of the PDPT and the PD only
Huge(w) == level[w] \in {2, 3} /\ Read(w).huge

HugeBeforeLevel(w) ==
  /\ MustRead(w)
  /\ Read(w).present
  /\ Huge(w) /\ want[w] # Translate
  /\ Answer(w, HugePageBeforeLevel)

\* mutant: the mask of a 2 MiB page on a 1 GiB page
Offset_SmallMask(v, l) == v % (IF l = 1 THEN PageSize ELSE Entries * PageSize)

\* va & 0x3FFFFFFF, va & 0x1FFFFF, va & 0xFFF
Offset(v, l) == v % (CASE l = 3 -> Entries * Entries * PageSize
                       [] l = 2 -> Entries * PageSize
                       [] l = 1 -> PageSize)

\* A page of any size ends the walk.
PageReached(w) ==
  /\ MustRead(w)
  /\ Read(w).present
  /\ level[w] = 1 \/ (Huge(w) /\ want[w] = Translate)
  /\ Answer(w, Translated(Read(w).addr + Offset(va[w], level[w]),
                          IF level[w] = 1 THEN 0 ELSE level[w]))

\* mutant: the next table is taken from an entry that is not present
Descend_Unchecked(w) ==
  /\ MustRead(w)
  /\ level[w] # 1 /\ ~Huge(w)
  /\ level' = [level EXCEPT ![w] = @ - 1]
  /\ table' = [table EXCEPT ![w] = Read(w).addr]
  /\ UNCHANGED <<mem, pc, va, want, answer, held, seen, writes>>

Descend(w) ==
  /\ MustRead(w)
  /\ Read(w).present
  /\ level[w] # 1 /\ ~Huge(w)
  /\ level' = [level EXCEPT ![w] = @ - 1]
  /\ table' = [table EXCEPT ![w] = Read(w).addr]
  /\ UNCHANGED <<mem, pc, va, want, answer, held, seen, writes>>

Return(w) ==
  /\ pc[w] = "returned"
  /\ pc' = [pc EXCEPT ![w] = "idle"]
  /\ va' = [va EXCEPT ![w] = 0]
  /\ want' = [want EXCEPT ![w] = Translate]
  /\ level' = [level EXCEPT ![w] = 4]
  /\ table' = [table EXCEPT ![w] = Root]
  /\ answer' = [answer EXCEPT ![w] = NoAnswer]
  /\ held' = [held EXCEPT ![w] = {}]
  /\ seen' = [seen EXCEPT ![w] = {}]
  /\ UNCHANGED <<mem, writes>>

Next ==
  \/ \E a \in Slot, e \in Entry : OsWrite(a, e)
  \/ \E w \in Walker :
       \/ Call(w) \/ Return(w) \/ Located(w) \/ ReadFails(w) \/ NotPresent(w)
       \/ HugeBeforeLevel(w) \/ PageReached(w) \/ Descend(w)

Spec == Init /\ [][Next]_vars

(***************************************************************************)
(* Properties.                                                             *)
(***************************************************************************)

TypeOK ==
  /\ mem \in [Slot -> Entry]
  /\ pc \in [Walker -> {"idle", "walk", "returned"}]
  /\ va \in [Walker -> Va \cup {0}]
  /\ want \in [Walker -> 0..Translate]
  /\ level \in [Walker -> Level]
  /\ table \in [Walker -> Table]
  /\ seen \in [Walker -> SUBSET Table]
  /\ writes \in 0..MaxWrites

\* Whatever changes while a walk is under way, at whatever levels, its answer (an
\* address, a missing entry, a large page in the way) was right for the whole of the
\* tables at one moment of the call, although it was put together from reads at four.
AnswerWasRight == \A w \in Walker :
  pc[w] = "returned" /\ answer[w] # ReadErr => answer[w] \in held[w]

\* A walk never takes the contents of a page that is no table for an entry.
StaysInTables == \A w \in Walker : pc[w] = "walk" => table[w] \in seen[w]
=============================================================================
