---------------------------- MODULE PageWalk_proof ----------------------------
(***************************************************************************)
(* Proofs about PageWalk for any number of walks, tables and changes, and  *)
(* any sizes of tables and pages.                                          *)
(***************************************************************************)
EXTENDS PageWalk, TLAPS

Memory == [Slot -> Entry]
Position == 0..(Entries - 1)

(***************************************************************************)
(* Numbers.                                                                *)
(***************************************************************************)
LEMMA Levels == \A l : l \in Level <=> l = 1 \/ l = 2 \/ l = 3 \/ l = 4
BY DEF Level

LEMMA RegionSizes ==
  /\ Region[1] = PageSize
  /\ Region[2] = Entries * Region[1]
  /\ Region[3] = Entries * Region[2]
  /\ Region[4] = Entries * Region[3]
<1> DEFINE val(l) == CASE l = 1 -> PageSize
                       [] l = 2 -> Entries * PageSize
                       [] l = 3 -> Entries * (Entries * PageSize)
                       [] l = 4 -> Entries * (Entries * (Entries * PageSize))
           g == [l \in Level |-> val(l)]
<1>1. g = [l \in Level |-> IF l = 1 THEN PageSize ELSE Entries * g[l - 1]]
  <2>1. \A l \in Level : l # 1 => l - 1 \in Level
    BY Levels
  <2>2. \A l \in Level : val(l) = IF l = 1 THEN PageSize ELSE Entries * val(l - 1)
    BY Levels
  <2> HIDE DEF val
  <2> QED BY <2>1, <2>2
<1> HIDE DEF g
<1>2. Region = [l \in Level |-> IF l = 1 THEN PageSize ELSE Entries * Region[l - 1]]
  BY <1>1 DEF Region
<1>3. 1 \in Level /\ 2 \in Level /\ 3 \in Level /\ 4 \in Level
  BY Levels
<1>4. Region[2] = Entries * Region[2 - 1] /\ Region[3] = Entries * Region[3 - 1]
      /\ Region[4] = Entries * Region[4 - 1] /\ Region[1] = PageSize
  BY <1>2, <1>3
<1> QED BY <1>4

LEMMA RegionPositive == \A l \in Level : Region[l] \in Nat \ {0}
<1>1. Entries \in Nat \ {0} /\ PageSize \in Nat \ {0}
  BY PageWalkAssumption
<1>2. \A x \in Nat \ {0} : Entries * x \in Nat \ {0}
  BY <1>1
<1>3. Region[1] \in Nat \ {0}
  BY <1>1, RegionSizes
<1>4. Region[2] \in Nat \ {0}
  BY <1>2, <1>3, RegionSizes, Levels
<1>5. Region[3] \in Nat \ {0}
  BY <1>2, <1>4, RegionSizes, Levels
<1>6. Region[4] \in Nat \ {0}
  BY <1>2, <1>5, RegionSizes, Levels
<1> QED BY <1>3, <1>4, <1>5, <1>6, Levels

LEMMA IndexInTable == \A v \in Nat, l \in Level : Index(v, l) \in Position
<1> SUFFICES ASSUME NEW v \in Nat, NEW l \in Level PROVE Index(v, l) \in Position
  OBVIOUS
<1>1. Region[l] \in Nat \ {0} /\ Entries \in Nat \ {0}
  BY RegionPositive, PageWalkAssumption
<1>2. v \div Region[l] \in Nat
  BY <1>1
<1>3. \A x \in Nat : x % Entries \in 0..(Entries - 1)
  BY <1>1
<1> QED BY <1>2, <1>3 DEF Index, Position

\* The masks of the code are the region sizes of the levels a page may be at.
LEMMA OffsetIsRest == \A v \in Nat, l \in 1..3 : Offset(v, l) = v % Region[l]
<1>1. Entries \in Nat /\ PageSize \in Nat
  BY PageWalkAssumption
<1>2. Entries * (Entries * PageSize) = Entries * Entries * PageSize
  BY <1>1
<1>3. /\ Region[1] = PageSize /\ Region[2] = Entries * PageSize
      /\ Region[3] = Entries * Entries * PageSize
  BY <1>2, RegionSizes, Levels
<1> QED BY <1>3 DEF Offset

(***************************************************************************)
(* Tables and the tree.                                                    *)
(***************************************************************************)
LEMMA SlotIn == \A t \in Table, i \in Position : t + i \in Slot /\ t + i \in Nat
<1> SUFFICES ASSUME NEW t \in Table, NEW i \in Position PROVE t + i \in Slot /\ t + i \in Nat
  OBVIOUS
<1>1. t \in Nat /\ Entries \in Nat
  BY PageWalkAssumption
<1>2. t + i \in t..(t + Entries - 1)
  BY <1>1 DEF Position
<1> QED BY <1>1, <1>2 DEF Slot, Position

\* A slot belongs to one table.
LEMMA OneTable ==
  ASSUME NEW t \in Table, NEW u \in Table, NEW i \in Position, NEW j \in Position,
         t + i = u + j
  PROVE  t = u
<1>1. t \in Nat /\ u \in Nat /\ Entries \in Nat /\ PageSize \in Nat /\ Entries <= PageSize
  BY PageWalkAssumption
<1>2. (t < u => t + PageSize <= u) /\ (u < t => u + PageSize <= t)
  BY PageWalkAssumption
<1> QED BY <1>1, <1>2 DEF Position

Holds(t, a) == \E i \in Position : a = t + i

Edge(m, k, t, u) == \E i \in Position : Links(m[t + i], k) /\ m[t + i].addr = u

LEMMA SlotsHold == \A ts, a : a \in SlotsOf(ts) <=> \E t \in ts : Holds(t, a)
BY DEF SlotsOf, Holds, Position

LEMMA LinkedTables ==
  ASSUME NEW m, NEW ts, NEW l, NEW x
  PROVE  x \in LinksIn(m, ts, l) <=>
           \E t \in ts : \E i \in Position :
             Links(m[t + i], l) /\ x = <<l, t + i, m[t + i].addr>>
BY DEF LinksIn, SlotsOf, Position

LEMMA BelowEdge ==
  ASSUME NEW m, NEW ts, NEW l, NEW u
  PROVE  u \in Below(m, ts, l) <=> u \in Table /\ \E t \in ts : Edge(m, l, t, u)
<1>1. ASSUME NEW t \in ts, Edge(m, l, t, u)
      PROVE  \E x \in LinksIn(m, ts, l) : x[3] = u
  <2>1. PICK i \in Position : Links(m[t + i], l) /\ m[t + i].addr = u
    BY <1>1 DEF Edge
  <2>2. <<l, t + i, m[t + i].addr>> \in LinksIn(m, ts, l)
    BY <2>1, LinkedTables
  <2> QED BY <2>1, <2>2
<1>2. ASSUME NEW x \in LinksIn(m, ts, l), x[3] = u
      PROVE  \E t \in ts : Edge(m, l, t, u)
  BY <1>2, LinkedTables DEF Edge
<1> QED BY <1>1, <1>2 DEF Below

LEMMA TreeLevels ==
  ASSUME NEW m
  PROVE  /\ Tree(m)[4] = {Root}
         /\ \A k \in 1..3 : Tree(m)[k] = Below(m, Tree(m)[k + 1], k + 1)
BY DEF Tree

LEMMA TreeEdge ==
  ASSUME NEW m, NEW k \in 1..3, NEW u
  PROVE  u \in Tree(m)[k] <=> u \in Table /\ \E t \in Tree(m)[k + 1] : Edge(m, k + 1, t, u)
BY TreeLevels, BelowEdge

LEMMA TreeTables == ASSUME NEW m PROVE \A k \in Level : Tree(m)[k] \subseteq Table
<1>1. Tree(m)[4] \subseteq Table
  BY TreeLevels, PageWalkAssumption
<1> QED BY <1>1, TreeEdge DEF Level

LEMMA TablesOfTree == ASSUME NEW m, NEW t PROVE t \in Tables(m) <=> \E k \in Level : t \in Tree(m)[k]
BY DEF Tables

LEMMA HungLinks ==
  ASSUME NEW m, NEW x
  PROVE  x \in Hung(m) <=>
           \E l \in Level : \E t \in Tree(m)[l] : \E i \in Position :
             Links(m[t + i], l) /\ x = <<l, t + i, m[t + i].addr>>
<1>1. x \in Hung(m) <=> \E l \in Level : x \in LinksIn(m, Tree(m)[l], l)
  BY DEF Hung
<1> QED BY <1>1, LinkedTables

(***************************************************************************)
(* In a tree of tables each table hangs in one place.                      *)
(***************************************************************************)

\* A link of the tree leads to a table of the level below, and not to the root.
LEMMA LinkLeadsDown ==
  ASSUME NEW m, IsTree(m), NEW k \in Level, NEW t \in Tree(m)[k], NEW i \in Position,
         Links(m[t + i], k)
  PROVE  /\ k # 1 /\ k - 1 \in 1..3
         /\ m[t + i].addr \in Table \ {Root}
         /\ m[t + i].addr \in Tree(m)[k - 1]
<1>1. k # 1 /\ k - 1 \in 1..3 /\ (k - 1) + 1 = k
  BY DEF Links, IsPage, Level
<1>2. <<k, t + i, m[t + i].addr>> \in Hung(m)
  BY HungLinks
<1>3. <<k, t + i, m[t + i].addr>>[3] \in Table \ {Root}
  BY <1>2 DEF IsTree
<1>4. m[t + i].addr \in Table \ {Root}
  BY <1>3
<1>5. Edge(m, k, t, m[t + i].addr)
  BY DEF Edge
<1> QED BY <1>1, <1>4, <1>5, TreeEdge

LEMMA OneSpot ==
  ASSUME NEW m, IsTree(m), NEW j \in Level, NEW k \in Level,
         NEW t \in Tree(m)[j], NEW u \in Tree(m)[k], NEW i \in Position, NEW h \in Position,
         Links(m[t + i], j), Links(m[u + h], k), m[t + i].addr = m[u + h].addr
  PROVE  j = k /\ t = u /\ t + i = u + h
<1> DEFINE x == <<j, t + i, m[t + i].addr>>
           y == <<k, u + h, m[u + h].addr>>
<1>1. x \in Hung(m) /\ y \in Hung(m)
  BY HungLinks
<1>2. x[3] = y[3] => x = y
  BY <1>1 DEF IsTree
<1>3. j = k /\ t + i = u + h
  BY <1>2
<1>4. t \in Table /\ u \in Table
  BY TreeTables
<1> QED BY <1>3, <1>4, OneTable

LEMMA OneLevel ==
  ASSUME NEW m, IsTree(m), NEW j \in Level, NEW k \in Level, NEW t,
         t \in Tree(m)[j], t \in Tree(m)[k]
  PROVE  j = k
<1>1. ASSUME NEW l \in Level, l # 4, t \in Tree(m)[l]
      PROVE  /\ t # Root /\ l \in 1..3 /\ l + 1 \in Level
             /\ \E u \in Tree(m)[l + 1] : \E i \in Position : Links(m[u + i], l + 1) /\ m[u + i].addr = t
  <2>1. l \in 1..3 /\ l + 1 \in Level
    BY <1>1 DEF Level
  <2>2. PICK u \in Tree(m)[l + 1] : Edge(m, l + 1, u, t)
    BY <1>1, <2>1, TreeEdge
  <2>3. PICK i \in Position : Links(m[u + i], l + 1) /\ m[u + i].addr = t
    BY <2>2 DEF Edge
  <2> QED BY <2>1, <2>3, LinkLeadsDown
<1>2. t \in Tree(m)[4] => t = Root
  BY TreeLevels
<1>3. CASE j = 4 \/ k = 4
  BY <1>1, <1>2, <1>3
<1>4. CASE j # 4 /\ k # 4
  <2>1. j + 1 = k + 1
    BY <1>1, <1>4, OneSpot
  <2> QED BY <2>1 DEF Level
<1> QED BY <1>3, <1>4

(***************************************************************************)
(* A change of one entry, as OsWrite makes it.                             *)
(***************************************************************************)
Writes(m, n, a, fresh) ==
  /\ m \in Memory /\ n \in Memory /\ IsTree(m) /\ IsTree(n)
  /\ \A b \in Slot : b # a => n[b] = m[b]
  /\ a \in SlotsOf(Tables(m) \cup fresh)
  /\ fresh \subseteq Table
  /\ {x[3] : x \in Hung(n) \ Hung(m)} \subseteq fresh

\* A table of the tree that holds the entry keeps its place, and so do those above.
LEMMA AboveStays ==
  ASSUME NEW m, NEW n, NEW a, NEW fresh, Writes(m, n, a, fresh),
         NEW j \in Level, NEW v \in Tree(m)[j], Holds(v, a)
  PROVE  \A k \in Level : j <= k => Tree(m)[k] \subseteq Tree(n)[k]
<1>1. Tree(m)[4] \subseteq Tree(n)[4]
  BY TreeLevels
<1>2. ASSUME NEW k \in 1..3, j <= k, Tree(m)[k + 1] \subseteq Tree(n)[k + 1]
      PROVE  Tree(m)[k] \subseteq Tree(n)[k]
  <2> SUFFICES ASSUME NEW u \in Tree(m)[k] PROVE u \in Tree(n)[k]
    OBVIOUS
  <2>1. PICK t \in Tree(m)[k + 1] : u \in Table /\ Edge(m, k + 1, t, u)
    BY TreeEdge
  <2>2. PICK i \in Position : Links(m[t + i], k + 1) /\ m[t + i].addr = u
    BY <2>1 DEF Edge
  <2>3. k + 1 \in Level /\ t \in Table /\ v \in Table
    BY TreeTables DEF Level
  <2>4. t + i # a
    <3> SUFFICES ASSUME t + i = a PROVE FALSE
      OBVIOUS
    <3>1. t = v
      BY <2>3, OneTable DEF Holds
    <3>2. k + 1 = j
      BY <2>3, <3>1, OneLevel DEF Writes
    <3> QED BY <1>2, <3>2 DEF Level
  <2>5. n[t + i] = m[t + i]
    BY <2>3, <2>4, SlotIn DEF Writes
  <2>6. Edge(n, k + 1, t, u) /\ t \in Tree(n)[k + 1]
    BY <1>2, <2>2, <2>5 DEF Edge
  <2> QED BY <2>1, <2>6, TreeEdge
<1>3. j <= 3 => Tree(m)[3] \subseteq Tree(n)[3]
  BY <1>1, <1>2
<1>4. j <= 2 => Tree(m)[2] \subseteq Tree(n)[2]
  BY <1>2, <1>3 DEF Level
<1>5. j <= 1 => Tree(m)[1] \subseteq Tree(n)[1]
  BY <1>2, <1>4 DEF Level
<1> QED BY <1>1, <1>3, <1>4, <1>5, Levels

\* A table that is in the tree and not fresh hangs where it hung before.
LEMMA HangsWhereItHung ==
  ASSUME NEW m, NEW n, NEW a, NEW fresh, Writes(m, n, a, fresh),
         NEW k \in 1..3, NEW u \in Tree(n)[k], u \notin fresh
  PROVE  /\ u \in Tree(m)[k]
         /\ \E t \in Tree(n)[k + 1] : \E i \in Position :
              /\ t \in Tree(m)[k + 1]
              /\ Links(n[t + i], k + 1) /\ n[t + i].addr = u
              /\ Links(m[t + i], k + 1) /\ m[t + i].addr = u
<1>1. PICK t \in Tree(n)[k + 1] : u \in Table /\ Edge(n, k + 1, t, u)
  BY TreeEdge
<1>2. PICK i \in Position : Links(n[t + i], k + 1) /\ n[t + i].addr = u
  BY <1>1 DEF Edge
<1>3. k + 1 \in Level /\ t \in Table
  BY TreeTables DEF Level
<1> DEFINE x == <<k + 1, t + i, u>>
<1>4. x \in Hung(n)
  BY <1>2, <1>3, HungLinks
<1>5. x \in Hung(m)
  <2>1. x[3] = u
    OBVIOUS
  <2> HIDE DEF x
  <2> QED BY <1>4, <2>1 DEF Writes
<1>6. PICK l \in Level : \E s \in Tree(m)[l] : \E h \in Position :
        Links(m[s + h], l) /\ x = <<l, s + h, m[s + h].addr>>
  BY <1>5, HungLinks
<1>7. PICK s \in Tree(m)[l], h \in Position :
        Links(m[s + h], l) /\ l = k + 1 /\ s + h = t + i /\ m[s + h].addr = u
  BY <1>6
<1>8. s = t
  BY <1>3, <1>7, TreeTables, OneTable
<1>9. t \in Tree(m)[k + 1] /\ Links(m[t + i], k + 1) /\ m[t + i].addr = u
  BY <1>7, <1>8
<1>10. u \in Tree(m)[k]
  BY <1>1, <1>9, TreeEdge DEF Edge
<1> QED BY <1>2, <1>9, <1>10

(***************************************************************************)
(* What a walk knows: the tables it may still come to, level by level, for *)
(* the memory m and the tables sn of its history.  They were in the tree   *)
(* and are at their level if they still are; what they link is among them, *)
(* and a table that has left the tree links none that is in it.            *)
(***************************************************************************)
Family == [Level -> SUBSET Table]

Known(m, sn, C) ==
  /\ C \in Family
  /\ \A k \in Level : C[k] \subseteq sn
  /\ Tables(m) \subseteq sn
  /\ \A k \in Level : \A u \in C[k] : \A i \in Position :
       Links(m[u + i], k) => k # 1 /\ m[u + i].addr \in C[k - 1]
  /\ \A k \in Level : \A u \in C[k] : u \in Tables(m) => u \in Tree(m)[k]
  /\ \A k \in Level : \A u \in C[k] : \A i \in Position :
       Links(m[u + i], k) /\ m[u + i].addr \in Tables(m) => u \in Tables(m)

Grown(C, n) == [k \in Level |-> C[k] \cup Tree(n)[k]]

\* A change by the system, as a walk sees it that knows C.
Change(m, n, a, fresh, sn, C) ==
  Writes(m, n, a, fresh) /\ Known(m, sn, C) /\ fresh \cap sn = {}

LEMMA OwnedEntry ==
  ASSUME NEW m, NEW n, NEW a, NEW fresh, NEW sn, NEW C, Change(m, n, a, fresh, sn, C),
         NEW k \in Level, NEW u \in C[k], Holds(u, a)
  PROVE  u \in Tree(m)[k] /\ u \in Tree(n)[k]
<1>1. u \in Table /\ u \in sn
  BY DEF Change, Known, Family
<1>2. PICK t \in Tables(m) \cup fresh : Holds(t, a)
  BY SlotsHold DEF Change, Writes
<1>3. t \in Table
  BY TablesOfTree, TreeTables DEF Change, Writes
<1>4. t = u
  BY <1>1, <1>2, <1>3, OneTable DEF Holds
<1>5. u \in Tables(m)
  BY <1>1, <1>2, <1>4 DEF Change
<1>6. u \in Tree(m)[k]
  BY <1>5 DEF Change, Known
<1>7. Tree(m)[k] \subseteq Tree(n)[k]
  BY <1>6, AboveStays DEF Change, Level
<1> QED BY <1>6, <1>7

LEMMA OtherEntry ==
  ASSUME NEW m, NEW n, NEW a, NEW fresh, NEW sn, NEW C, Change(m, n, a, fresh, sn, C),
         NEW k \in Level, NEW u \in C[k], u \notin Tree(n)[k], NEW i \in Position
  PROVE  n[u + i] = m[u + i]
<1>1. u \in Table
  BY DEF Change, Known, Family
<1>2. u + i # a
  BY OwnedEntry DEF Holds
<1> QED BY <1>1, <1>2, SlotIn DEF Change, Writes

LEMMA StaysAtLevel ==
  ASSUME NEW m, NEW n, NEW a, NEW fresh, NEW sn, NEW C, Change(m, n, a, fresh, sn, C),
         NEW k \in Level, NEW u \in C[k], u \in Tables(n)
  PROVE  u \in Tree(m)[k] /\ u \in Tree(n)[k]
<1>1. PICK j \in Level : u \in Tree(n)[j]
  BY TablesOfTree
<1>2. u \in sn /\ u \notin fresh
  BY DEF Change, Known
<1>3. u \in Tree(m)[j]
  <2>1. CASE j = 4
    BY <1>1, <2>1, TreeLevels
  <2>2. CASE j # 4
    <3>1. j \in 1..3
      BY <2>2 DEF Level
    <3> QED BY <1>1, <1>2, <3>1, HangsWhereItHung DEF Change
  <2> QED BY <2>1, <2>2
<1>4. u \in Tables(m)
  BY <1>3, TablesOfTree
<1>5. u \in Tree(m)[k]
  BY <1>4 DEF Change, Known
<1>6. j = k
  BY <1>3, <1>5, OneLevel DEF Change, Writes
<1> QED BY <1>1, <1>5, <1>6

LEMMA LinksUp ==
  ASSUME NEW m, NEW n, NEW a, NEW fresh, NEW sn, NEW C, Change(m, n, a, fresh, sn, C),
         NEW k \in Level, NEW u \in C[k], NEW i \in Position,
         Links(n[u + i], k), n[u + i].addr \in Tables(n)
  PROVE  u \in Tree(n)[k]
<1> SUFFICES ASSUME u \notin Tree(n)[k] PROVE FALSE
  OBVIOUS
<1> DEFINE v == n[u + i].addr
<1>1. n[u + i] = m[u + i]
  BY OtherEntry
<1>2. Links(m[u + i], k) /\ m[u + i].addr = v
  BY <1>1
<1>3. k - 1 \in 1..3 /\ (k - 1) + 1 = k /\ k - 1 \in Level
  BY <1>2 DEF Links, IsPage, Level
<1>4. v \in C[k - 1]
  BY <1>2, <1>3 DEF Change, Known
<1>5. v \in Tree(m)[k - 1] /\ v \in Tree(n)[k - 1]
  BY <1>3, <1>4, StaysAtLevel
<1>6. v \notin fresh
  BY <1>3, <1>4 DEF Change, Known
<1>7. PICK t \in Tree(n)[k], h \in Position :
        t \in Tree(m)[k] /\ Links(m[t + h], k) /\ m[t + h].addr = v
  BY <1>3, <1>5, <1>6, HangsWhereItHung DEF Change
<1>8. v \in Tables(m)
  BY <1>3, <1>5, TablesOfTree
<1>9. u \in Tables(m)
  BY <1>2, <1>8 DEF Change, Known
<1>10. u \in Tree(m)[k]
  BY <1>9 DEF Change, Known
<1>11. u = t
  BY <1>2, <1>7, <1>10, OneSpot DEF Change, Writes
<1> QED BY <1>7, <1>11

LEMMA ChangeKnown ==
  ASSUME NEW m, NEW n, NEW a, NEW fresh, NEW sn, NEW C, Change(m, n, a, fresh, sn, C)
  PROVE  Known(n, sn \cup Tables(n), Grown(C, n))
<1> DEFINE D == Grown(C, n)
<1>1. D \in Family
  BY TreeTables DEF Grown, Family, Change, Known
<1>2. \A k \in Level : D[k] = C[k] \cup Tree(n)[k]
  BY DEF Grown
<1>3. \A k \in Level : D[k] \subseteq sn \cup Tables(n)
  BY <1>2, TablesOfTree DEF Change, Known
<1> HIDE DEF D
<1>4. ASSUME NEW k \in Level, NEW u \in D[k], NEW i \in Position, Links(n[u + i], k)
      PROVE  k # 1 /\ n[u + i].addr \in D[k - 1]
  <2>1. CASE u \in Tree(n)[k]
    <3>1. k - 1 \in 1..3 /\ k # 1 /\ n[u + i].addr \in Tree(n)[k - 1]
      BY <1>4, <2>1, LinkLeadsDown DEF Change, Writes
    <3>2. k - 1 \in Level
      BY <3>1 DEF Level
    <3> QED BY <1>2, <3>1, <3>2
  <2>2. CASE u \notin Tree(n)[k]
    <3>1. u \in C[k] /\ n[u + i] = m[u + i]
      BY <1>2, <2>2, OtherEntry
    <3>2. k # 1 /\ n[u + i].addr \in C[k - 1]
      BY <1>4, <3>1 DEF Change, Known
    <3>3. k - 1 \in Level
      BY <3>2 DEF Level
    <3> QED BY <1>2, <3>2, <3>3
  <2> QED BY <2>1, <2>2
<1>5. ASSUME NEW k \in Level, NEW u \in D[k], u \in Tables(n)
      PROVE  u \in Tree(n)[k]
  BY <1>2, <1>5, StaysAtLevel
<1>6. ASSUME NEW k \in Level, NEW u \in D[k], NEW i \in Position,
             Links(n[u + i], k), n[u + i].addr \in Tables(n)
      PROVE  u \in Tables(n)
  BY <1>2, <1>6, LinksUp, TablesOfTree
<1> QED BY <1>1, <1>3, <1>4, <1>5, <1>6 DEF Known, D

(***************************************************************************)
(* The path of an address, and the answer from a table of it downwards.    *)
(***************************************************************************)
Path(m, v, l) ==
  CASE l = 4 -> Root
    [] l = 3 -> HungAt(m, v, 4, Root)
    [] l = 2 -> HungAt(m, v, 3, HungAt(m, v, 4, Root))
    [] l = 1 -> HungAt(m, v, 2, HungAt(m, v, 3, HungAt(m, v, 4, Root)))

LinkedAt(m, v, l, t) == Links(m[t + Index(v, l)], l)

\* The walk for v has come to t at level l by the links of m, and asked for none above.
OnPath(m, v, x, l, t) ==
  /\ t = Path(m, v, l)
  /\ \A k \in Level : l < k => x # k /\ LinkedAt(m, v, k, Path(m, v, k))

From(m, v, x, l, t) ==
  CASE l = 4 -> FromPml4(m, v, x, t)
    [] l = 3 -> FromPdpt(m, v, x, t)
    [] l = 2 -> FromPd(m, v, x, t)
    [] l = 1 -> FromPt(m, v, x, t)

LEMMA PathDown ==
  ASSUME NEW m, NEW v
  PROVE  /\ Path(m, v, 4) = Root
         /\ \A k \in 1..3 : Path(m, v, k) = HungAt(m, v, k + 1, Path(m, v, k + 1))
BY DEF Path

LEMMA FromDown ==
  ASSUME NEW m, NEW v, NEW x, NEW l \in Level, NEW t
  PROVE  From(m, v, x, l, t) =
           Comes(m, v, x, l, t, IF l = 1 THEN NoAnswer ELSE From(m, v, x, l - 1, HungAt(m, v, l, t)))
<1>1. CASE l = 1
  BY <1>1 DEF From, FromPt
<1>2. CASE l = 2
  BY <1>2 DEF From, FromPd
<1>3. CASE l = 3
  BY <1>3 DEF From, FromPdpt
<1>4. CASE l = 4
  BY <1>4 DEF From, FromPml4
<1> QED BY <1>1, <1>2, <1>3, <1>4, Levels

\* At an entry that links a table the answer is that of the table.
LEMMA FromLinked ==
  ASSUME NEW m, NEW v, NEW x, NEW l \in Level, NEW t, x # l, LinkedAt(m, v, l, t)
  PROVE  From(m, v, x, l, t) = From(m, v, x, l - 1, HungAt(m, v, l, t))
<1>1. m[t + Index(v, l)].present /\ l # 1
  BY DEF LinkedAt, Links, IsPage
<1> QED BY <1>1, FromDown DEF Comes, LinkedAt

\* On the path the answer from here downwards is the answer from the root.
LEMMA FromPath ==
  ASSUME NEW m, NEW v, NEW x, NEW l \in Level, NEW t, OnPath(m, v, x, l, t)
  PROVE  From(m, v, x, l, t) = RightAnswer(m, v, x)
<1> DEFINE A(k) == From(m, v, x, k, Path(m, v, k))
<1>1. A(4) = RightAnswer(m, v, x)
  BY PathDown DEF From, RightAnswer
<1>2. ASSUME NEW k \in 1..3, l <= k
      PROVE  A(k + 1) = A(k)
  <2>1. k + 1 \in Level /\ l < k + 1 /\ (k + 1) - 1 = k
    BY <1>2 DEF Level
  <2>2. x # k + 1 /\ LinkedAt(m, v, k + 1, Path(m, v, k + 1))
    BY <2>1 DEF OnPath
  <2>3. From(m, v, x, k + 1, Path(m, v, k + 1))
          = From(m, v, x, k, HungAt(m, v, k + 1, Path(m, v, k + 1)))
    BY <2>1, <2>2, FromLinked
  <2> QED BY <2>3, PathDown
<1> HIDE DEF A
<1>3. /\ l <= 3 => A(3) = RightAnswer(m, v, x)
      /\ l <= 2 => A(2) = RightAnswer(m, v, x)
      /\ l <= 1 => A(1) = RightAnswer(m, v, x)
  BY <1>1, <1>2 DEF Level
<1>4. A(l) = RightAnswer(m, v, x)
  BY <1>1, <1>3, Levels
<1> QED BY <1>4 DEF OnPath, A

LEMMA PathInTree ==
  ASSUME NEW m, IsTree(m), NEW v \in Nat, NEW x, NEW l \in Level, NEW t, OnPath(m, v, x, l, t)
  PROVE  \A k \in Level : l <= k => Path(m, v, k) \in Tree(m)[k]
<1>1. Path(m, v, 4) \in Tree(m)[4]
  BY PathDown, TreeLevels
<1>2. ASSUME NEW k \in 1..3, l <= k, Path(m, v, k + 1) \in Tree(m)[k + 1]
      PROVE  Path(m, v, k) \in Tree(m)[k]
  <2>1. k + 1 \in Level /\ l < k + 1 /\ (k + 1) - 1 = k
    BY <1>2 DEF Level
  <2>2. Links(m[Path(m, v, k + 1) + Index(v, k + 1)], k + 1)
    BY <2>1 DEF OnPath, LinkedAt
  <2>3. m[Path(m, v, k + 1) + Index(v, k + 1)].addr \in Tree(m)[k]
    BY <1>2, <2>1, <2>2, IndexInTable, LinkLeadsDown
  <2> QED BY <2>3, PathDown DEF HungAt
<1>3. l <= 3 => Path(m, v, 3) \in Tree(m)[3]
  BY <1>1, <1>2
<1>4. l <= 2 => Path(m, v, 2) \in Tree(m)[2]
  BY <1>2, <1>3 DEF Level
<1>5. l <= 1 => Path(m, v, 1) \in Tree(m)[1]
  BY <1>2, <1>4 DEF Level
<1> QED BY <1>1, <1>3, <1>4, <1>5, Levels

\* A path stays, down to a table that is still in the tree.
LEMMA PathStays ==
  ASSUME NEW m, NEW n, NEW a, NEW fresh, NEW sn, NEW C, Change(m, n, a, fresh, sn, C),
         NEW v \in Nat, NEW x, NEW l \in Level, NEW t, OnPath(m, v, x, l, t), t \in Tree(n)[l]
  PROVE  OnPath(n, v, x, l, t)
<1> DEFINE p(k) == Path(m, v, k)
           s(k) == p(k) + Index(v, k)
<1>1. \A k \in Level : l <= k => p(k) \in Tree(m)[k]
  BY PathInTree DEF Change, Writes
<1>2. ASSUME NEW k \in 1..3, l <= k, p(k) \in Tree(n)[k]
      PROVE  /\ p(k + 1) \in Tree(n)[k + 1]
             /\ Links(n[s(k + 1)], k + 1) /\ n[s(k + 1)].addr = p(k)
  <2>1. k + 1 \in Level /\ k \in Level /\ l <= k + 1 /\ l < k + 1
    BY <1>2 DEF Level
  <2>2. p(k) \notin fresh
    BY <1>1, <1>2, <2>1, TablesOfTree DEF Change, Known
  <2>3. PICK u \in Tree(n)[k + 1], i \in Position :
          /\ u \in Tree(m)[k + 1]
          /\ Links(n[u + i], k + 1) /\ n[u + i].addr = p(k)
          /\ Links(m[u + i], k + 1) /\ m[u + i].addr = p(k)
    BY <1>2, <2>2, HangsWhereItHung DEF Change
  <2>4. Links(m[s(k + 1)], k + 1) /\ m[s(k + 1)].addr = p(k)
    BY <2>1, PathDown DEF OnPath, LinkedAt, HungAt
  <2>5. u = p(k + 1) /\ u + i = s(k + 1)
    <3>1. Index(v, k + 1) \in Position /\ p(k + 1) \in Tree(m)[k + 1]
      BY <1>1, <2>1, IndexInTable
    <3> QED BY <2>1, <2>3, <2>4, <3>1, OneSpot DEF Change, Writes
  <2> QED BY <2>3, <2>5
<1>3. p(l) \in Tree(n)[l]
  BY DEF OnPath
<1>4. \A k \in Level : l <= k => p(k) \in Tree(n)[k]
  <2>1. ASSUME NEW k \in 1..3, l <= k, p(k) \in Tree(n)[k] PROVE p(k + 1) \in Tree(n)[k + 1]
    BY <1>2, <2>1
  <2> HIDE DEF p, s
  <2>2. l <= 2 => p(2) \in Tree(n)[2]
    BY <1>3, <2>1 DEF Level
  <2>3. l <= 3 => p(3) \in Tree(n)[3]
    BY <1>3, <2>1, <2>2 DEF Level
  <2>4. p(4) \in Tree(n)[4]
    BY <1>3, <2>1, <2>3 DEF Level
  <2> QED BY <1>3, <2>2, <2>3, <2>4, Levels
<1>5. ASSUME NEW k \in 1..3, l <= k, Path(n, v, k + 1) = p(k + 1)
      PROVE  Path(n, v, k) = p(k)
  <2>1. k \in Level
    BY DEF Level
  <2>2. n[s(k + 1)].addr = p(k)
    BY <1>2, <1>4, <1>5, <2>1
  <2> QED BY <1>5, <2>2, PathDown DEF HungAt
<1>6. \A k \in Level : l <= k => Path(n, v, k) = p(k)
  <2>1. Path(n, v, 4) = p(4)
    BY PathDown
  <2> HIDE DEF p, s
  <2>2. l <= 3 => Path(n, v, 3) = p(3)
    BY <1>5, <2>1
  <2>3. l <= 2 => Path(n, v, 2) = p(2)
    BY <1>5, <2>2 DEF Level
  <2>4. l <= 1 => Path(n, v, 1) = p(1)
    BY <1>5, <2>3 DEF Level
  <2> QED BY <2>1, <2>2, <2>3, <2>4, Levels
<1>7. ASSUME NEW k \in Level, l < k
      PROVE  x # k /\ LinkedAt(n, v, k, Path(n, v, k))
  <2>1. k - 1 \in 1..3 /\ k - 1 \in Level /\ l <= k - 1 /\ (k - 1) + 1 = k /\ l <= k
    BY <1>7 DEF Level
  <2>2. Links(n[s(k)], k)
    BY <1>2, <1>4, <2>1
  <2>3. Path(n, v, k) = p(k)
    BY <1>6, <2>1
  <2> QED BY <1>7, <2>2, <2>3 DEF OnPath, LinkedAt
<1>8. t = Path(n, v, l)
  <2>1. l <= l
    BY DEF Level
  <2> QED BY <1>6, <2>1 DEF OnPath
<1> QED BY <1>7, <1>8 DEF OnPath

\* Below a table that is not in the tree a change makes no difference.
LEMMA FromStays ==
  ASSUME NEW m, NEW n, NEW a, NEW fresh, NEW sn, NEW C, Change(m, n, a, fresh, sn, C),
         NEW v \in Nat, NEW x
  PROVE  \A k \in Level : \A u \in C[k] : u \notin Tables(n) => From(n, v, x, k, u) = From(m, v, x, k, u)
<1> DEFINE Same(k) == \A u \in C[k] : u \notin Tables(n) => From(n, v, x, k, u) = From(m, v, x, k, u)
<1>1. ASSUME NEW k \in Level, k = 1 \/ Same(k - 1)
      PROVE  Same(k)
  <2> SUFFICES ASSUME NEW u \in C[k], u \notin Tables(n)
               PROVE  From(n, v, x, k, u) = From(m, v, x, k, u)
    OBVIOUS
  <2>1. Index(v, k) \in Position /\ u \notin Tree(n)[k]
    BY IndexInTable, TablesOfTree
  <2>2. n[u + Index(v, k)] = m[u + Index(v, k)]
    BY <2>1, OtherEntry
  <2>3. CASE ~LinkedAt(m, v, k, u)
    <3> DEFINE deeper(q) == IF k = 1 THEN NoAnswer ELSE From(q, v, x, k - 1, HungAt(q, v, k, u))
    <3>1. /\ From(m, v, x, k, u) = Comes(m, v, x, k, u, deeper(m))
          /\ From(n, v, x, k, u) = Comes(n, v, x, k, u, deeper(n))
      BY FromDown
    <3> HIDE DEF deeper
    <3>2. ~Links(m[u + Index(v, k)], k)
      BY <2>3 DEF LinkedAt
    <3> QED BY <2>2, <3>1, <3>2 DEF Comes
  <2>4. CASE LinkedAt(m, v, k, u)
    <3> DEFINE w == HungAt(m, v, k, u)
    <3>1. k # 1 /\ w \in C[k - 1]
      BY <2>1, <2>4 DEF LinkedAt, HungAt, Change, Known
    <3>2. w = n[u + Index(v, k)].addr /\ Links(n[u + Index(v, k)], k)
      BY <2>2, <2>4 DEF LinkedAt, HungAt
    <3>3. w \notin Tables(n)
      BY <2>1, <3>2, LinksUp
    <3>4. From(n, v, x, k - 1, w) = From(m, v, x, k - 1, w)
      BY <1>1, <3>1, <3>3
    <3>5. HungAt(n, v, k, u) = w
      BY <3>2 DEF HungAt
    <3> HIDE DEF w
    <3>6. From(n, v, x, k, u) = Comes(n, v, x, k, u, From(n, v, x, k - 1, w))
      BY <3>1, <3>5, FromDown
    <3>7. From(m, v, x, k, u) = Comes(m, v, x, k, u, From(m, v, x, k - 1, w))
      BY <3>1, FromDown DEF w
    <3> QED BY <2>2, <3>4, <3>6, <3>7 DEF Comes
  <2> QED BY <2>3, <2>4
<1> HIDE DEF Same
<1>2. Same(1)
  BY <1>1 DEF Level
<1>3. Same(2)
  BY <1>1, <1>2 DEF Level
<1>4. Same(3)
  BY <1>1, <1>3 DEF Level
<1>5. Same(4)
  BY <1>1, <1>4 DEF Level
<1>6. \A k \in Level : Same(k)
  BY <1>2, <1>3, <1>4, <1>5, Levels
<1> QED BY <1>6 DEF Same

\* What is right for a walk from the table it is at stays so, or becomes the answer.
LEMMA AnswerHeld ==
  ASSUME NEW m, NEW n, NEW a, NEW fresh, NEW sn, NEW C, Change(m, n, a, fresh, sn, C),
         NEW v \in Nat, NEW x, NEW l \in Level, NEW t \in C[l],
         t \in Tables(m) => OnPath(m, v, x, l, t)
  PROVE  /\ t \in Tables(n) => OnPath(n, v, x, l, t)
         /\ From(n, v, x, l, t) \in {From(m, v, x, l, t), RightAnswer(n, v, x)}
<1>1. CASE t \in Tables(n)
  <2>1. t \in Tree(m)[l] /\ t \in Tree(n)[l]
    BY <1>1, StaysAtLevel
  <2>2. OnPath(m, v, x, l, t)
    BY <2>1, TablesOfTree
  <2>3. OnPath(n, v, x, l, t)
    BY <2>1, <2>2, PathStays
  <2> QED BY <2>3, FromPath
<1>2. CASE t \notin Tables(n)
  BY <1>2, FromStays
<1> QED BY <1>1, <1>2

(***************************************************************************)
(* The invariant.  With b, also that the addresses of pages are aligned,   *)
(* which AnswerWasRight needs and StaysInTables does not.                  *)
(***************************************************************************)
Aligned(m, C) ==
  \A k \in 1..3 : \A u \in C[k] : \A i \in Position :
    m[u + i].present /\ IsPage(m[u + i], k) => m[u + i].addr % Region[k] = 0

\* No page of the tree has a bit of its attributes (PAT) where its address is read.
AlignedPages == Aligned(mem, Tree(mem))

Follows(b, m, sn, hd, v, x, l, t) ==
  \E C \in Family :
    /\ Known(m, sn, C)
    /\ t \in C[l]
    /\ t \in Tables(m) => OnPath(m, v, x, l, t)
    /\ From(m, v, x, l, t) \in hd
    /\ b => Aligned(m, C)

LEMMA CallFollows ==
  ASSUME NEW b, NEW m, IsTree(m), NEW v \in Nat, NEW x, b => Aligned(m, Tree(m))
  PROVE  Follows(b, m, Tables(m), {RightAnswer(m, v, x)}, v, x, 4, Root)
<1> DEFINE C == [k \in Level |-> Tree(m)[k]]
<1>1. C \in Family
  BY TreeTables DEF Family
<1>2. \A k \in Level : C[k] = Tree(m)[k]
  OBVIOUS
<1>3. 4 \in Level /\ 1..3 \subseteq Level
  BY DEF Level
<1> HIDE DEF C
<1>4. ASSUME NEW k \in Level, NEW u \in C[k], NEW i \in Position, Links(m[u + i], k)
      PROVE  k # 1 /\ m[u + i].addr \in C[k - 1]
  <2>1. k # 1 /\ k - 1 \in 1..3 /\ m[u + i].addr \in Tree(m)[k - 1]
    BY <1>2, <1>4, LinkLeadsDown
  <2> QED BY <1>2, <1>3, <2>1
<1>5. \A k \in Level : C[k] \subseteq Tables(m)
  BY <1>2, TablesOfTree
<1>6. Known(m, Tables(m), C)
  BY <1>1, <1>2, <1>4, <1>5 DEF Known
<1>7. Root \in C[4]
  BY <1>2, <1>3, TreeLevels
<1>8. OnPath(m, v, x, 4, Root)
  BY PathDown DEF OnPath, Level
<1>9. From(m, v, x, 4, Root) = RightAnswer(m, v, x)
  BY <1>3, <1>8, FromPath
<1>10. b => Aligned(m, C)
  BY <1>2, <1>3 DEF Aligned
<1> QED BY <1>1, <1>6, <1>7, <1>8, <1>9, <1>10 DEF Follows

LEMMA ChangeFollows ==
  ASSUME NEW b, NEW m, NEW n, NEW a, NEW fresh, NEW sn, NEW hd,
         Writes(m, n, a, fresh), fresh \cap sn = {},
         NEW v \in Nat, NEW x, NEW l \in Level, NEW t, Follows(b, m, sn, hd, v, x, l, t),
         b => Aligned(n, Tree(n))
  PROVE  Follows(b, n, sn \cup Tables(n), hd \cup {RightAnswer(n, v, x)}, v, x, l, t)
<1>1. PICK C \in Family :
        /\ Known(m, sn, C)
        /\ t \in C[l]
        /\ t \in Tables(m) => OnPath(m, v, x, l, t)
        /\ From(m, v, x, l, t) \in hd
        /\ b => Aligned(m, C)
  BY DEF Follows
<1>2. Change(m, n, a, fresh, sn, C)
  BY <1>1 DEF Change
<1> DEFINE D == Grown(C, n)
<1>3. Known(n, sn \cup Tables(n), D) /\ D \in Family
  BY <1>2, ChangeKnown DEF Known
<1>4. \A k \in Level : D[k] = C[k] \cup Tree(n)[k]
  BY DEF Grown
<1>5. /\ t \in Tables(n) => OnPath(n, v, x, l, t)
      /\ From(n, v, x, l, t) \in hd \cup {RightAnswer(n, v, x)}
  BY <1>1, <1>2, AnswerHeld
<1> HIDE DEF D
<1>6. ASSUME b, NEW k \in 1..3, NEW u \in D[k], NEW i \in Position,
             n[u + i].present, IsPage(n[u + i], k)
      PROVE  n[u + i].addr % Region[k] = 0
  <2>1. k \in Level
    BY DEF Level
  <2>2. CASE u \in Tree(n)[k]
    BY <1>6, <2>2 DEF Aligned
  <2>3. CASE u \notin Tree(n)[k]
    <3>1. u \in C[k] /\ n[u + i] = m[u + i]
      BY <1>2, <1>4, <2>1, <2>3, OtherEntry
    <3> QED BY <1>1, <1>6, <3>1 DEF Aligned
  <2> QED BY <2>2, <2>3
<1>7. b => Aligned(n, D)
  BY <1>6 DEF Aligned
<1> QED BY <1>1, <1>3, <1>4, <1>5, <1>7 DEF Follows

LEMMA DescendFollows ==
  ASSUME NEW b, NEW m, NEW sn, NEW hd, NEW v \in Nat, NEW x, NEW l \in Level, NEW t,
         Follows(b, m, sn, hd, v, x, l, t), x # l, LinkedAt(m, v, l, t)
  PROVE  /\ l - 1 \in Level /\ HungAt(m, v, l, t) \in Table
         /\ Follows(b, m, sn, hd, v, x, l - 1, HungAt(m, v, l, t))
<1>1. PICK C \in Family :
        /\ Known(m, sn, C)
        /\ t \in C[l]
        /\ t \in Tables(m) => OnPath(m, v, x, l, t)
        /\ From(m, v, x, l, t) \in hd
        /\ b => Aligned(m, C)
  BY DEF Follows
<1> DEFINE u == HungAt(m, v, l, t)
<1>2. Index(v, l) \in Position
  BY IndexInTable
<1>3. Links(m[t + Index(v, l)], l) /\ u = m[t + Index(v, l)].addr
  BY DEF LinkedAt, HungAt
<1>4. l # 1 /\ u \in C[l - 1]
  BY <1>1, <1>2, <1>3 DEF Known
<1>5. l - 1 \in Level /\ l - 1 \in 1..3 /\ (l - 1) + 1 = l
  BY <1>4 DEF Level
<1>6. u \in Table
  BY <1>4, <1>5 DEF Family
<1>7. From(m, v, x, l - 1, u) \in hd
  BY <1>1, FromLinked
<1>8. ASSUME u \in Tables(m) PROVE OnPath(m, v, x, l - 1, u)
  <2>1. t \in Tables(m)
    BY <1>1, <1>2, <1>3, <1>8 DEF Known
  <2>2. OnPath(m, v, x, l, t)
    BY <1>1, <2>1
  <2>3. t = Path(m, v, l)
    BY <2>2 DEF OnPath
  <2>4. u = Path(m, v, l - 1)
    BY <1>5, <2>3, PathDown
  <2>5. ASSUME NEW k \in Level, l - 1 < k PROVE x # k /\ LinkedAt(m, v, k, Path(m, v, k))
    <3>1. k = l \/ l < k
      BY <2>5 DEF Level
    <3> QED BY <2>2, <2>3, <3>1 DEF OnPath
  <2> QED BY <2>4, <2>5 DEF OnPath
<1> QED BY <1>1, <1>4, <1>5, <1>6, <1>7, <1>8 DEF Follows

Following(b, w) ==
  Follows(b, mem, seen[w], held[w], va[w], want[w], level[w], table[w])

Inv(b) ==
  /\ TypeOK
  /\ answer = [w \in Walker |-> answer[w]]
  /\ held = [w \in Walker |-> held[w]]
  /\ IsTree(mem)
  /\ \A w \in Walker : pc[w] = "walk" => Following(b, w)
  /\ b => AnswerWasRight

LEMMA Begins == ASSUME NEW b, Init PROVE Inv(b)
<1>1. IsTree(mem)
  BY StartAssumption DEF Init
<1>2. TypeOK
  BY PageWalkAssumption DEF Init, TypeOK, Translate, Level
<1> QED BY <1>1, <1>2 DEF Init, Inv, AnswerWasRight

LEMMA SystemWrites ==
  ASSUME NEW b, Inv(b), b => AlignedPages', NEW a \in Slot, NEW e \in Entry, OsWrite(a, e)
  PROVE  Inv(b)'
<1> DEFINE fresh == Table \ UNION {seen[w] : w \in Walking}
           n == [mem EXCEPT ![a] = e]
<1>1. /\ writes < MaxWrites /\ writes' = writes + 1
      /\ a \in SlotsOf(Tables(mem) \cup fresh)
      /\ IsTree(n)
      /\ {x[3] : x \in Hung(n) \ Hung(mem)} \subseteq fresh
      /\ mem' = n
      /\ held' = [w \in Walker |-> IF w \in Walking
                    THEN held[w] \cup {RightAnswer(n, va[w], want[w])} ELSE held[w]]
      /\ seen' = [w \in Walker |-> IF w \in Walking THEN seen[w] \cup Tables(n) ELSE seen[w]]
      /\ UNCHANGED walkVars
  BY DEF OsWrite
<1>2. mem \in Memory /\ n \in Memory /\ IsTree(mem)
  BY DEF Inv, TypeOK, Memory
<1>3. \A c \in Slot : c # a => n[c] = mem[c]
  BY <1>2 DEF Memory
<1>4. fresh \subseteq Table
  OBVIOUS
<1> HIDE DEF n
<1>5. Writes(mem, n, a, fresh)
  BY <1>1, <1>2, <1>3, <1>4 DEF Writes
<1>6. TypeOK'
  <2>1. writes' \in 0..MaxWrites
    BY <1>1, PageWalkAssumption DEF Inv, TypeOK
  <2>2. Tables(n) \subseteq Table
    BY TablesOfTree, TreeTables
  <2>3. seen' \in [Walker -> SUBSET Table]
    BY <1>1, <2>2 DEF Inv, TypeOK
  <2> QED BY <1>1, <1>2, <2>1, <2>3 DEF Inv, TypeOK, walkVars, Memory
<1>7. ASSUME NEW w \in Walker, pc'[w] = "walk" PROVE Following(b, w)'
  <2>1. w \in Walking /\ pc[w] = "walk"
    BY <1>1, <1>7 DEF Walking, walkVars
  <2>2. Follows(b, mem, seen[w], held[w], va[w], want[w], level[w], table[w])
    BY <2>1 DEF Inv, Following
  <2>3. fresh \cap seen[w] = {}
    BY <2>1
  <2>4. va[w] \in Nat /\ level[w] \in Level
    BY PageWalkAssumption DEF Inv, TypeOK
  <2>5. b => Aligned(n, Tree(n))
    BY <1>1 DEF AlignedPages
  <2> HIDE DEF fresh
  <2>6. Follows(b, n, seen[w] \cup Tables(n), held[w] \cup {RightAnswer(n, va[w], want[w])},
                va[w], want[w], level[w], table[w])
    BY <1>5, <2>2, <2>3, <2>4, <2>5, ChangeFollows
  <2>7. /\ seen'[w] = seen[w] \cup Tables(n)
        /\ held'[w] = held[w] \cup {RightAnswer(n, va[w], want[w])}
    BY <1>1, <2>1
  <2> QED BY <1>1, <2>6, <2>7 DEF Following, walkVars
<1>8. ASSUME b PROVE AnswerWasRight'
  <2> SUFFICES ASSUME NEW w \in Walker, pc'[w] = "returned", answer'[w] # ReadErr
               PROVE  answer'[w] \in held'[w]
    BY DEF AnswerWasRight
  <2>1. pc[w] = "returned" /\ answer'[w] = answer[w] /\ w \notin Walking
    BY <1>1 DEF walkVars, Walking
  <2>2. held'[w] = held[w]
    BY <1>1, <2>1
  <2> QED BY <1>8, <2>1, <2>2 DEF Inv, AnswerWasRight
<1>9. held' = [w \in Walker |-> held'[w]] /\ answer' = [w \in Walker |-> answer'[w]]
  BY <1>1 DEF Inv, walkVars
<1> QED BY <1>1, <1>6, <1>7, <1>8, <1>9 DEF Inv

\* A step of one walk leaves the others as they are.
LEMMA OthersFollow ==
  ASSUME NEW b, Inv(b), NEW w, mem' = mem,
         \A u \in Walker : u # w =>
           /\ pc'[u] = pc[u] /\ seen'[u] = seen[u] /\ held'[u] = held[u] /\ answer'[u] = answer[u]
           /\ va'[u] = va[u] /\ want'[u] = want[u] /\ level'[u] = level[u] /\ table'[u] = table[u],
         TypeOK', answer' = [u \in Walker |-> answer'[u]], held' = [u \in Walker |-> held'[u]],
         pc'[w] = "walk" => Following(b, w)',
         b /\ pc'[w] = "returned" /\ answer'[w] # ReadErr => answer'[w] \in held'[w]
  PROVE  Inv(b)'
<1>1. ASSUME NEW u \in Walker, pc'[u] = "walk" PROVE Following(b, u)'
  <2>1. CASE u = w
    BY <1>1, <2>1
  <2>2. CASE u # w
    <3>1. Following(b, u)
      BY <1>1, <2>2 DEF Inv
    <3> QED BY <2>2, <3>1 DEF Following
  <2> QED BY <2>1, <2>2
<1>2. b => AnswerWasRight'
  BY DEF Inv, AnswerWasRight
<1>3. IsTree(mem)'
  BY DEF Inv
<1> QED BY <1>1, <1>2, <1>3 DEF Inv

LEMMA Calls ==
  ASSUME NEW b, Inv(b), b => AlignedPages, NEW w \in Walker, Call(w)
  PROVE  Inv(b)'
<1>1. PICK v \in Va, x \in 0..5 :
        /\ va' = [va EXCEPT ![w] = v]
        /\ want' = [want EXCEPT ![w] = x]
        /\ held' = [held EXCEPT ![w] = {RightAnswer(mem, v, x)}]
  BY DEF Call
<1>2. /\ seen' = [seen EXCEPT ![w] = Tables(mem)]
      /\ pc' = [pc EXCEPT ![w] = "walk"]
      /\ level' = [level EXCEPT ![w] = 4]
      /\ table' = [table EXCEPT ![w] = Root]
      /\ UNCHANGED <<mem, answer, writes>>
  BY DEF Call
<1>3. TypeOK'
  <2>1. Tables(mem) \subseteq Table /\ Root \in Table
    BY TablesOfTree, TreeTables, PageWalkAssumption
  <2> QED BY <1>1, <1>2, <2>1 DEF Inv, TypeOK, Translate, Level
<1>4. Following(b, w)'
  <2>1. v \in Nat
    BY PageWalkAssumption
  <2>2. Follows(b, mem, Tables(mem), {RightAnswer(mem, v, x)}, v, x, 4, Root)
    BY <2>1, CallFollows DEF Inv, AlignedPages
  <2>3. /\ va'[w] = v /\ want'[w] = x /\ level'[w] = 4 /\ table'[w] = Root /\ seen'[w] = Tables(mem)
    BY <1>1, <1>2 DEF Inv, TypeOK
  <2>4. held'[w] = {RightAnswer(mem, v, x)}
    BY <1>1 DEF Inv
  <2> QED BY <1>2, <2>2, <2>3, <2>4 DEF Following
<1>5. pc'[w] = "walk"
  BY <1>2 DEF Inv, TypeOK
<1>6. held' = [u \in Walker |-> held'[u]] /\ answer' = [u \in Walker |-> answer'[u]]
  BY <1>1, <1>2 DEF Inv
<1>7. \A u \in Walker : u # w =>
        /\ pc'[u] = pc[u] /\ seen'[u] = seen[u] /\ held'[u] = held[u] /\ answer'[u] = answer[u]
        /\ va'[u] = va[u] /\ want'[u] = want[u] /\ level'[u] = level[u] /\ table'[u] = table[u]
  BY <1>1, <1>2 DEF Inv, TypeOK
<1> QED BY <1>2, <1>3, <1>4, <1>5, <1>6, <1>7, OthersFollow

LEMMA Answers ==
  ASSUME NEW b, Inv(b), NEW w \in Walker, NEW x, Answer(w, x),
         b => x = ReadErr \/ x \in held[w]
  PROVE  Inv(b)'
<1>1. /\ answer' = [answer EXCEPT ![w] = x]
      /\ pc' = [pc EXCEPT ![w] = "returned"]
      /\ UNCHANGED <<mem, va, want, level, table, held, seen, writes>>
  BY DEF Answer
<1>2. TypeOK'
  BY <1>1 DEF Inv, TypeOK
<1>3. pc'[w] = "returned" /\ answer'[w] = x
  BY <1>1 DEF Inv, TypeOK
<1>4. held' = [u \in Walker |-> held'[u]] /\ answer' = [u \in Walker |-> answer'[u]]
  BY <1>1 DEF Inv
<1>5. \A u \in Walker : u # w =>
        /\ pc'[u] = pc[u] /\ seen'[u] = seen[u] /\ held'[u] = held[u] /\ answer'[u] = answer[u]
        /\ va'[u] = va[u] /\ want'[u] = want[u] /\ level'[u] = level[u] /\ table'[u] = table[u]
  BY <1>1 DEF Inv, TypeOK
<1> QED BY <1>1, <1>2, <1>3, <1>4, <1>5, OthersFollow, ZenonT(60)

\* The answer that the entry a walk is at makes right, unless it links a table.
LEMMA EntryAnswers ==
  ASSUME NEW b, Inv(b), NEW w \in Walker, pc[w] = "walk"
  PROVE  /\ va[w] \in Nat /\ level[w] \in Level /\ At(w) = table[w] + Index(va[w], level[w])
         /\ \E deeper : Comes(mem, va[w], want[w], level[w], table[w], deeper) \in held[w]
         /\ b /\ level[w] \in 1..3 /\ Read(w).present /\ IsPage(Read(w), level[w])
              => Read(w).addr % Region[level[w]] = 0
<1>1. va[w] \in Nat /\ level[w] \in Level
  BY PageWalkAssumption DEF Inv, TypeOK
<1>2. PICK C \in Family :
        /\ table[w] \in C[level[w]]
        /\ From(mem, va[w], want[w], level[w], table[w]) \in held[w]
        /\ b => Aligned(mem, C)
  BY DEF Inv, Following, Follows
<1>3. \E deeper : Comes(mem, va[w], want[w], level[w], table[w], deeper) \in held[w]
  <2> DEFINE d == IF level[w] = 1 THEN NoAnswer
                  ELSE From(mem, va[w], want[w], level[w] - 1,
                            HungAt(mem, va[w], level[w], table[w]))
  <2>1. From(mem, va[w], want[w], level[w], table[w])
          = Comes(mem, va[w], want[w], level[w], table[w], d)
    BY <1>1, FromDown
  <2> HIDE DEF d
  <2> QED BY <1>2, <2>1
<1>4. Index(va[w], level[w]) \in Position
  BY <1>1, IndexInTable
<1>5. b /\ level[w] \in 1..3 /\ Read(w).present /\ IsPage(Read(w), level[w])
        => Read(w).addr % Region[level[w]] = 0
  BY <1>2, <1>4 DEF Aligned, Read, At
<1> QED BY <1>1, <1>3, <1>5 DEF At

LEMMA Locates ==
  ASSUME NEW b, Inv(b), NEW w \in Walker, Located(w)
  PROVE  Inv(b)'
<1>1. Translated(At(w), level[w]) \in held[w]
  BY EntryAnswers DEF Located, Comes
<1> QED BY <1>1, Answers DEF Located

LEMMA Misses ==
  ASSUME NEW b, Inv(b), NEW w \in Walker, NotPresent(w)
  PROVE  Inv(b)'
<1>1. Invalid(level[w], Read(w)) \in held[w]
  BY EntryAnswers DEF NotPresent, MustRead, Comes, Read
<1> QED BY <1>1, Answers DEF NotPresent

LEMMA HugeStops ==
  ASSUME NEW b, Inv(b), NEW w \in Walker, HugeBeforeLevel(w)
  PROVE  Inv(b)'
<1>1. /\ want[w] # level[w] /\ Read(w).present /\ want[w] # Translate /\ level[w] # 1
      /\ ~Links(Read(w), level[w])
  BY DEF HugeBeforeLevel, MustRead, Huge, Links, IsPage
<1>2. HugePageBeforeLevel \in held[w]
  BY <1>1, EntryAnswers DEF HugeBeforeLevel, MustRead, Comes, Read
<1> QED BY <1>2, Answers DEF HugeBeforeLevel

LEMMA Translates ==
  ASSUME NEW b, Inv(b), NEW w \in Walker, PageReached(w)
  PROVE  Inv(b)'
<1> DEFINE l == level[w]
           e == Read(w)
<1>1. /\ pc[w] = "walk" /\ want[w] # l /\ e.present
      /\ l = 1 \/ (l \in {2, 3} /\ e.huge /\ want[w] = Translate)
  BY DEF PageReached, MustRead, Huge
<1>2. /\ IsPage(e, l) /\ ~Links(e, l) /\ l \in 1..3 /\ ~(want[w] # Translate /\ l # 1)
  BY <1>1 DEF IsPage, Links
<1>3. Offset(va[w], l) = va[w] % Region[l]
  BY <1>1, <1>2, EntryAnswers, OffsetIsRest
<1>4. Translated(Base(e, l) + (va[w] % Region[l]), IF l = 1 THEN 0 ELSE l) \in held[w]
  BY <1>1, <1>2, EntryAnswers DEF Comes, Read
<1>5. ASSUME b PROVE Base(e, l) = e.addr
  <2>1. e.addr % Region[l] = 0
    BY <1>1, <1>2, <1>5, EntryAnswers
  <2>2. e.addr \in Nat
    <3>1. table[w] + Index(va[w], l) \in Slot
      BY <1>1, EntryAnswers, IndexInTable, SlotIn DEF Inv, TypeOK
    <3> QED BY <3>1, PageWalkAssumption DEF Inv, TypeOK, Read, At
  <2> HIDE DEF e, l
  <2> QED BY <2>1, <2>2 DEF Base
<1>6. Answer(w, Translated(e.addr + Offset(va[w], l), IF l = 1 THEN 0 ELSE l))
  BY DEF PageReached
<1> HIDE DEF e, l
<1> QED BY <1>3, <1>4, <1>5, <1>6, Answers

LEMMA Descends ==
  ASSUME NEW b, Inv(b), NEW w \in Walker, Descend(w)
  PROVE  Inv(b)'
<1> DEFINE u == HungAt(mem, va[w], level[w], table[w])
<1>1. /\ level' = [level EXCEPT ![w] = @ - 1]
      /\ table' = [table EXCEPT ![w] = Read(w).addr]
      /\ UNCHANGED <<mem, pc, va, want, answer, held, seen, writes>>
      /\ pc[w] = "walk" /\ want[w] # level[w]
  BY DEF Descend, MustRead
<1>2. LinkedAt(mem, va[w], level[w], table[w]) /\ Read(w).addr = u
  BY DEF Descend, Huge, LinkedAt, HungAt, Links, IsPage, Read, At
<1>3. /\ level[w] - 1 \in Level /\ u \in Table
      /\ Follows(b, mem, seen[w], held[w], va[w], want[w], level[w] - 1, u)
  <2>1. Follows(b, mem, seen[w], held[w], va[w], want[w], level[w], table[w])
    BY <1>1 DEF Inv, Following
  <2> QED BY <1>1, <1>2, <2>1, EntryAnswers, DescendFollows
<1> HIDE DEF u
<1>4. TypeOK'
  BY <1>1, <1>2, <1>3 DEF Inv, TypeOK
<1>5. level'[w] = level[w] - 1 /\ table'[w] = u
  BY <1>1, <1>2 DEF Inv, TypeOK
<1>6. Following(b, w)'
  BY <1>1, <1>3, <1>5 DEF Following
<1>7. held' = [v \in Walker |-> held'[v]] /\ answer' = [v \in Walker |-> answer'[v]]
  BY <1>1 DEF Inv
<1>8. \A v \in Walker : v # w =>
        /\ pc'[v] = pc[v] /\ seen'[v] = seen[v] /\ held'[v] = held[v] /\ answer'[v] = answer[v]
        /\ va'[v] = va[v] /\ want'[v] = want[v] /\ level'[v] = level[v] /\ table'[v] = table[v]
  BY <1>1 DEF Inv, TypeOK
<1>9. pc'[w] # "returned"
  BY <1>1
<1> QED BY <1>1, <1>4, <1>6, <1>7, <1>8, <1>9, OthersFollow

LEMMA Returns ==
  ASSUME NEW b, Inv(b), NEW w \in Walker, Return(w)
  PROVE  Inv(b)'
<1>1. /\ pc' = [pc EXCEPT ![w] = "idle"]
      /\ va' = [va EXCEPT ![w] = 0]
      /\ want' = [want EXCEPT ![w] = Translate]
      /\ level' = [level EXCEPT ![w] = 4]
      /\ table' = [table EXCEPT ![w] = Root]
      /\ answer' = [answer EXCEPT ![w] = NoAnswer]
      /\ held' = [held EXCEPT ![w] = {}]
      /\ seen' = [seen EXCEPT ![w] = {}]
      /\ UNCHANGED <<mem, writes>>
  BY DEF Return
<1>2. TypeOK'
  BY <1>1, PageWalkAssumption DEF Inv, TypeOK, Translate, Level
<1>3. pc'[w] = "idle"
  BY <1>1 DEF Inv, TypeOK
<1>4. held' = [u \in Walker |-> held'[u]] /\ answer' = [u \in Walker |-> answer'[u]]
  BY <1>1 DEF Inv
<1>5. \A u \in Walker : u # w =>
        /\ pc'[u] = pc[u] /\ seen'[u] = seen[u] /\ held'[u] = held[u] /\ answer'[u] = answer[u]
        /\ va'[u] = va[u] /\ want'[u] = want[u] /\ level'[u] = level[u] /\ table'[u] = table[u]
  BY <1>1 DEF Inv, TypeOK
<1> QED BY <1>1, <1>2, <1>3, <1>4, <1>5, OthersFollow

LEMMA Stutters == ASSUME NEW b, Inv(b), UNCHANGED vars PROVE Inv(b)'
<1>1. \A w \in Walker : Following(b, w)' <=> Following(b, w)
  BY DEF Following, vars, walkVars
<1>2. TypeOK' /\ IsTree(mem)' /\ AnswerWasRight' = AnswerWasRight
  BY DEF Inv, TypeOK, AnswerWasRight, vars, walkVars
<1> QED BY <1>1, <1>2 DEF Inv, vars, walkVars

LEMMA Steps ==
  ASSUME NEW b, Inv(b), [Next]_vars, b => AlignedPages /\ AlignedPages'
  PROVE  Inv(b)'
<1>1. CASE UNCHANGED vars
  BY <1>1, Stutters
<1>2. CASE \E a \in Slot, e \in Entry : OsWrite(a, e)
  BY <1>2, SystemWrites
<1>3. ASSUME NEW w \in Walker,
             \/ Call(w) \/ Return(w) \/ Located(w) \/ ReadFails(w) \/ NotPresent(w)
             \/ HugeBeforeLevel(w) \/ PageReached(w) \/ Descend(w)
      PROVE  Inv(b)'
  <2>1. CASE ReadFails(w)
    BY <2>1, Answers DEF ReadFails
  <2> QED BY <1>3, <2>1, Calls, Returns, Locates, Misses, HugeStops, Translates, Descends
<1> QED BY <1>1, <1>2, <1>3 DEF Next

\* Every variable keeps its type; in particular a walk only ever reads entries of tables.
THEOREM WalkTypes == Spec => []TypeOK
<1>1. Init => Inv(FALSE)
  BY Begins
<1>2. Inv(FALSE) /\ [Next]_vars => Inv(FALSE)'
  BY Steps
<1>3. Inv(FALSE) => TypeOK
  BY DEF Inv
<1> QED BY <1>1, <1>2, <1>3, PTL DEF Spec

\* However many walks there are and however often the system changes the tables under
\* them, a walk is only ever in pages that have been tables of the tree since its call.
THEOREM WalksStayInTables == Spec => []StaysInTables
<1>1. Init => Inv(FALSE)
  BY Begins
<1>2. Inv(FALSE) /\ [Next]_vars => Inv(FALSE)'
  BY Steps
<1>3. Inv(FALSE) => StaysInTables
  <2> SUFFICES ASSUME Inv(FALSE), NEW w \in Walker, pc[w] = "walk"
               PROVE  table[w] \in seen[w]
    BY DEF StaysInTables
  <2>1. level[w] \in Level
    BY DEF Inv, TypeOK
  <2> QED BY <2>1 DEF Inv, Following, Follows, Known
<1> QED BY <1>1, <1>2, <1>3, PTL DEF Spec

\* As long as no page's entry has an attribute bit where the code takes its address from,
\* every answer of virtual_to_physical and get_address_of_level was right at one moment.
THEOREM AnswersWereRight == Spec /\ []AlignedPages => []AnswerWasRight
<1>1. Init => Inv(TRUE)
  BY Begins
<1>2. Inv(TRUE) /\ AlignedPages /\ AlignedPages' /\ [Next]_vars => Inv(TRUE)'
  BY Steps
<1>3. Inv(TRUE) => AnswerWasRight
  BY DEF Inv
<1> QED BY <1>1, <1>2, <1>3, PTL DEF Spec
=============================================================================
