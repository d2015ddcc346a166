----------------------------- MODULE KHook_proof -----------------------------
(***************************************************************************)
(* Proofs about inline hooks for any image, any number of hooks on any     *)
(* functions, any number of processors and any history of calls, refused   *)
(* writes and drops.                                                       *)
(***************************************************************************)
EXTENDS KHook, FiniteSetTheorems, TLAPS

(***************************************************************************)
(* The shape of the state, whatever the callers do.                        *)
(***************************************************************************)
IsHook(k) ==
  /\ k = [st |-> k.st, src |-> k.src, enabled |-> k.enabled, saved |-> k.saved]
  /\ k.st \in {"none", "live", "dropped"}
  /\ k.enabled \in BOOLEAN /\ k.src \in Entry \cup {0}

IsCall(c) ==
  /\ c = [st |-> c.st, dst |-> c.dst, src |-> c.src, left |-> c.left, ok |-> c.ok]
  /\ c.st \in {"idle", "writing", "done"} /\ c.ok \in BOOLEAN

IsStub(k) ==
  /\ k = [alive |-> k.alive, code |-> k.code, back |-> k.back]
  /\ k.alive \in BOOLEAN /\ k.code \in Seq(Insns) /\ k.back \in Nat

HookType(h) ==
  /\ IsHook(hook[h]) /\ IsCall(call[h]) /\ IsStub(stub[h])
  /\ op[h] \in {"idle", "new", "enable", "disable", "drop"}
  /\ older[h] \in SUBSET Hook

Functions ==
  /\ mem = [a \in Addr |-> mem[a]]
  /\ hook = [h \in Hook |-> hook[h]]
  /\ call = [h \in Hook |-> call[h]]
  /\ stub = [h \in Hook |-> stub[h]]
  /\ op = [h \in Hook |-> op[h]]
  /\ older = [h \in Hook |-> older[h]]

HookTypes == Functions /\ \A h \in Hook : HookType(h)

\* What a hook is follows from the method it is in.
Life(h) ==
  /\ hook[h].enabled => hook[h].st = "live"
  /\ op[h] = "new" => hook[h].st = "none" /\ hook[h].src \in Entry /\ hook[h].src <= stub[h].back
  /\ op[h] = "enable" => hook[h].st = "live" /\ ~hook[h].enabled
  /\ op[h] \in {"disable", "drop"} => hook[h].enabled
  /\ hook[h].st = "live" => hook[h].src \in Entry /\ DOMAIN hook[h].saved = 1..WindowSize
  /\ stub[h].alive <=> hook[h].st = "live"
  /\ hook[h].st # "live" /\ op[h] = "idle" /\ ~panicked => stub[h].code = <<>>
  /\ call[h].st = "idle" <=> op[h] \in {"idle", "new"}
  /\ call[h].st = "idle" => call[h] = NoCall

\* The write that a method makes: of the jump or of the bytes that were saved.
Sends(h) ==
  /\ call[h].dst = hook[h].src
  /\ call[h].src = IF op[h] = "enable" THEN JumpBytes(h) ELSE hook[h].saved
  /\ call[h].left \subseteq DOMAIN call[h].src
  /\ call[h].st = "writing" => ~call[h].ok
  /\ call[h].st = "done" => IF call[h].ok THEN call[h].left = {}
                                          ELSE call[h].left = DOMAIN call[h].src

Shape == HookTypes /\ \A h \in Hook : Life(h) /\ (call[h].st # "idle" => Sends(h))

(***************************************************************************)
(* Windows.                                                                *)
(***************************************************************************)
LEMMA Sizes ==
  /\ WindowSize \in Nat
  /\ \A h \in Hook : DOMAIN JumpBytes(h) \subseteq 1..WindowSize
<1>1. /\ HOOK_SIZE_RELATIVE \in Nat /\ AbsJumpSize \in Nat /\ HOOK_SIZE_ABSOLUTE \in Nat /\ Slack \in Nat
      /\ HOOK_SIZE_RELATIVE <= AbsJumpSize /\ AbsJumpSize < HOOK_SIZE_ABSOLUTE
  BY HookAssumption
<1>2. WindowSize \in Nat /\ AbsJumpSize <= WindowSize
  BY <1>1 DEF WindowSize, MAX_HOOK_SIZE
<1>3. ASSUME NEW h \in Hook PROVE DOMAIN JumpBytes(h) \subseteq 1..WindowSize
  <2>1. JumpSize(h \in NearDst) \in Nat /\ JumpSize(h \in NearDst) <= WindowSize
    BY <1>1, <1>2 DEF JumpSize
  <2>2. DOMAIN JumpBytes(h) = 1..JumpSize(h \in NearDst)
    BY DEF JumpBytes
  <2> HIDE DEF JumpSize
  <2> QED BY <1>2, <2>1, <2>2
<1> QED BY <1>2, <1>3

LEMMA JumpLength ==
  \A h \in Hook : /\ DOMAIN JumpBytes(h) = 1..Len(JumpBytes(h)) /\ Len(JumpBytes(h)) \in Nat \ {0}
                  /\ Len(JumpBytes(h)) <= AbsJumpSize
<1> SUFFICES ASSUME NEW h \in Hook
             PROVE  /\ DOMAIN JumpBytes(h) = 1..Len(JumpBytes(h)) /\ Len(JumpBytes(h)) \in Nat \ {0}
                    /\ Len(JumpBytes(h)) <= AbsJumpSize
  OBVIOUS
<1>1. JumpSize(h \in NearDst) \in Nat \ {0} /\ JumpSize(h \in NearDst) <= AbsJumpSize
  BY HookAssumption DEF JumpSize
<1>2. DOMAIN JumpBytes(h) = 1..JumpSize(h \in NearDst)
  BY DEF JumpBytes
<1> HIDE DEF JumpSize
<1>3. Len(JumpBytes(h)) = JumpSize(h \in NearDst)
  BY <1>1, <1>2
<1> QED BY <1>1, <1>2, <1>3

LEMMA SpanCells ==
  ASSUME NEW s \in Entry
  PROVE  /\ s # 0
         /\ Span(s, WindowSize) \subseteq Addr
         /\ \A i \in 1..WindowSize : s + i - 1 \in Span(s, WindowSize)
         /\ \A a \in Span(s, WindowSize) : a - s + 1 \in 1..WindowSize /\ s + (a - s + 1) - 1 = a
         /\ \A i, j \in 1..WindowSize : s + i - 1 = s + j - 1 => i = j
<1>1. s \in Nat /\ s > 0 /\ s..(s + WindowSize - 1) \subseteq Addr
  BY HookAssumption
<1> QED BY <1>1, Sizes DEF Span

LEMMA WindowOf ==
  /\ \A h \in Hook : hook[h].src \in Entry => Window(h) = Span(hook[h].src, WindowSize)
  /\ \A h \in Hook : hook'[h].src \in Entry => Window(h)' = Span(hook'[h].src, WindowSize)
BY SpanCells DEF Window

\* What a method writes lies in the window.
LEMMA SendsInWindow ==
  ASSUME Shape, NEW h \in Hook, call[h].st # "idle"
  PROVE  /\ hook[h].st = "live" /\ hook[h].src \in Entry
         /\ DOMAIN call[h].src \subseteq 1..WindowSize
         /\ \A i \in DOMAIN call[h].src :
              call[h].dst + i - 1 \in Window(h) /\ call[h].dst + i - 1 \in Addr
<1>1. Life(h) /\ Sends(h) /\ HookType(h)
  BY DEF Shape, HookTypes
<1>2. hook[h].st = "live" /\ hook[h].src \in Entry /\ DOMAIN hook[h].saved = 1..WindowSize
  BY <1>1 DEF Life, HookType
<1>3. DOMAIN call[h].src \subseteq 1..WindowSize
  BY <1>1, <1>2, Sizes DEF Sends
<1> QED BY <1>1, <1>2, <1>3, WindowOf, SpanCells DEF Sends

LEMMA InsnIsInsn == ASSUME NEW m, NEW a \in Addr PROVE Insn(m, a) \in Insns
<1>1. CASE Intact(m, a)
  <2>1. InsnLen[a] \in Nat
    BY HookAssumption
  <2> QED BY <1>1, <2>1 DEF Insn, Insns
<1>2. CASE ~Intact(m, a) /\ JumpsAt(m, a) # {}
  <2> DEFINE h == CHOOSE h \in JumpsAt(m, a) : TRUE
  <2>1. h \in Hook
    BY <1>2 DEF JumpsAt
  <2>2. Len(JumpBytes(h)) \in Nat
    BY <2>1, JumpLength
  <2>3. Insn(m, a) = [k |-> "jmp", ip |-> a, to |-> h, len |-> Len(JumpBytes(h))]
    BY <1>2 DEF Insn
  <2> HIDE DEF h
  <2> QED BY <2>1, <2>2, <2>3 DEF Insns
<1>3. CASE ~Intact(m, a) /\ JumpsAt(m, a) = {}
  BY <1>3 DEF Insn, Insns
<1> QED BY <1>1, <1>2, <1>3

(***************************************************************************)
(* A step of h replaces what belongs to h.                                 *)
(***************************************************************************)
Replaces(h) ==
  /\ hook' = [hook EXCEPT ![h] = hook'[h]]
  /\ call' = [call EXCEPT ![h] = call'[h]]
  /\ stub' = [stub EXCEPT ![h] = stub'[h]]
  /\ op' = [op EXCEPT ![h] = op'[h]]
  /\ older' = [older EXCEPT ![h] = older'[h]]
  /\ ~panicked

OthersSame(h) == \A g \in Hook \ {h} :
  /\ hook'[g] = hook[g] /\ call'[g] = call[g] /\ stub'[g] = stub[g]
  /\ op'[g] = op[g] /\ older'[g] = older[g]

LEMMA ShapeKeeps ==
  ASSUME Shape, NEW h \in Hook, Replaces(h), mem' = [a \in Addr |-> mem'[a]],
         HookType(h)', Life(h)', call'[h].st # "idle" => Sends(h)'
  PROVE  Shape' /\ OthersSame(h)
<1>1. Functions'
  BY DEF Shape, HookTypes, Functions, Replaces
<1>2. OthersSame(h)
  BY DEF Shape, HookTypes, Functions, Replaces, OthersSame
<1>3. ASSUME NEW g \in Hook, g # h
      PROVE  HookType(g)' /\ Life(g)' /\ (call'[g].st # "idle" => Sends(g)')
  <2>1. /\ HookType(g) /\ Life(g) /\ (call[g].st # "idle" => Sends(g))
        /\ hook'[g] = hook[g] /\ call'[g] = call[g] /\ stub'[g] = stub[g]
        /\ op'[g] = op[g] /\ older'[g] = older[g] /\ ~panicked
    BY <1>2, <1>3 DEF Shape, HookTypes, OthersSame, Replaces
  <2>2. HookType(g)'
    BY <2>1 DEF HookType, IsHook, IsCall, IsStub, Insns
  <2>3. Life(g)'
    BY <2>1 DEF Life, NoCall
  <2>4. JumpBytes(g)' = JumpBytes(g)
    BY DEF JumpBytes
  <2> QED BY <2>1, <2>2, <2>3, <2>4 DEF Sends
<1> QED BY <1>1, <1>2, <1>3 DEF Shape, HookTypes

(***************************************************************************)
(* Records with some of their fields assigned.                             *)
(***************************************************************************)
LEMMA HookBuilt ==
  ASSUME NEW st \in {"none", "live", "dropped"}, NEW src \in Entry \cup {0},
         NEW enabled \in BOOLEAN, NEW saved
  PROVE  IsHook([st |-> st, src |-> src, enabled |-> enabled, saved |-> saved])
BY DEF IsHook

LEMMA HookWith ==
  ASSUME NEW k, IsHook(k), NEW a, NEW b
  PROVE  /\ [k EXCEPT !.src = a] = [st |-> k.st, src |-> a, enabled |-> k.enabled, saved |-> k.saved]
         /\ [k EXCEPT !.enabled = a] = [st |-> k.st, src |-> k.src, enabled |-> a, saved |-> k.saved]
         /\ [k EXCEPT !.st = a, !.saved = b] =
              [st |-> a, src |-> k.src, enabled |-> k.enabled, saved |-> b]
<1>1. PICK p, q, r, s : k = [st |-> p, src |-> q, enabled |-> r, saved |-> s]
  BY DEF IsHook
<1>2. p = k.st /\ q = k.src /\ r = k.enabled /\ s = k.saved
  BY <1>1
<1>3. [k EXCEPT !.src = a] = [st |-> p, src |-> a, enabled |-> r, saved |-> s]
  BY <1>1
<1>4. [k EXCEPT !.enabled = a] = [st |-> p, src |-> q, enabled |-> a, saved |-> s]
  BY <1>1
<1>5. [k EXCEPT !.st = a, !.saved = b] = [st |-> a, src |-> q, enabled |-> r, saved |-> b]
  <2> DEFINE e == [k EXCEPT !.st = a]
  <2>1. e = [st |-> a, src |-> q, enabled |-> r, saved |-> s]
    BY <1>1
  <2> HIDE DEF e
  <2>2. [e EXCEPT !.saved = b] = [st |-> a, src |-> q, enabled |-> r, saved |-> b]
    BY <2>1
  <2> QED BY <2>2 DEF e
<1> QED BY <1>2, <1>3, <1>4, <1>5

LEMMA CallBuilt ==
  ASSUME NEW st \in {"idle", "writing", "done"}, NEW dst, NEW src, NEW left, NEW ok \in BOOLEAN
  PROVE  IsCall([st |-> st, dst |-> dst, src |-> src, left |-> left, ok |-> ok])
BY DEF IsCall

LEMMA CallWith ==
  ASSUME NEW c, IsCall(c), NEW a, NEW b
  PROVE  /\ [c EXCEPT !.st = a] =
              [st |-> a, dst |-> c.dst, src |-> c.src, left |-> c.left, ok |-> c.ok]
         /\ [c EXCEPT !.left = a] =
              [st |-> c.st, dst |-> c.dst, src |-> c.src, left |-> a, ok |-> c.ok]
         /\ [c EXCEPT !.st = a, !.ok = b] =
              [st |-> a, dst |-> c.dst, src |-> c.src, left |-> c.left, ok |-> b]
<1>1. PICK p, q, r, s, t : c = [st |-> p, dst |-> q, src |-> r, left |-> s, ok |-> t]
  BY DEF IsCall
<1>2. p = c.st /\ q = c.dst /\ r = c.src /\ s = c.left /\ t = c.ok
  BY <1>1
<1>3. [c EXCEPT !.st = a] = [st |-> a, dst |-> q, src |-> r, left |-> s, ok |-> t]
  BY <1>1
<1>4. [c EXCEPT !.left = a] = [st |-> p, dst |-> q, src |-> r, left |-> a, ok |-> t]
  BY <1>1
<1>5. [c EXCEPT !.st = a, !.ok = b] = [st |-> a, dst |-> q, src |-> r, left |-> s, ok |-> b]
  <2> DEFINE e == [c EXCEPT !.st = a]
  <2>1. e = [st |-> a, dst |-> q, src |-> r, left |-> s, ok |-> t]
    BY <1>1
  <2> HIDE DEF e
  <2>2. [e EXCEPT !.ok = b] = [st |-> a, dst |-> q, src |-> r, left |-> s, ok |-> b]
    BY <2>1
  <2> QED BY <2>2 DEF e
<1> QED BY <1>2, <1>3, <1>4, <1>5

LEMMA StubBuilt ==
  ASSUME NEW alive \in BOOLEAN, NEW code \in Seq(Insns), NEW back \in Nat
  PROVE  IsStub([alive |-> alive, code |-> code, back |-> back])
BY DEF IsStub

LEMMA StubWith ==
  ASSUME NEW k, IsStub(k), NEW a, NEW b
  PROVE  /\ [k EXCEPT !.back = a] = [alive |-> k.alive, code |-> k.code, back |-> a]
         /\ [k EXCEPT !.alive = a] = [alive |-> a, code |-> k.code, back |-> k.back]
         /\ [k EXCEPT !.code = a, !.back = b] = [alive |-> k.alive, code |-> a, back |-> b]
<1>1. PICK p, q, r : k = [alive |-> p, code |-> q, back |-> r]
  BY DEF IsStub
<1>2. p = k.alive /\ q = k.code /\ r = k.back
  BY <1>1
<1>3. [k EXCEPT !.back = a] = [alive |-> p, code |-> q, back |-> a]
  BY <1>1
<1>4. [k EXCEPT !.alive = a] = [alive |-> a, code |-> q, back |-> r]
  BY <1>1
<1>5. [k EXCEPT !.code = a, !.back = b] = [alive |-> p, code |-> a, back |-> b]
  <2> DEFINE e == [k EXCEPT !.code = a]
  <2>1. e = [alive |-> p, code |-> a, back |-> r]
    BY <1>1
  <2> HIDE DEF e
  <2>2. [e EXCEPT !.back = b] = [alive |-> p, code |-> a, back |-> b]
    BY <2>1
  <2> QED BY <2>2 DEF e
<1> QED BY <1>2, <1>3, <1>4, <1>5

LEMMA NoCallIsCall == IsCall(NoCall) /\ NoCall.st = "idle"
BY DEF IsCall, NoCall

LEMMA NothingLeft ==
  /\ IsHook([st |-> "none", src |-> 0, enabled |-> FALSE, saved |-> <<>>])
  /\ IsHook([st |-> "dropped", src |-> 0, enabled |-> FALSE, saved |-> <<>>])
  /\ IsStub([alive |-> FALSE, code |-> <<>>, back |-> 0])
BY DEF IsHook, IsStub

(***************************************************************************)
(* What each step does to its hook.                                        *)
(***************************************************************************)
LEMMA NewBeginDoes ==
  ASSUME Shape, NEW h \in Hook, NEW src \in Entry, NewBegin(h, src)
  PROVE  /\ Shape' /\ OthersSame(h) /\ mem' = mem /\ ~panicked
         /\ tangled' = tangled \cup OutOfTurn(h, src) /\ shaken' = shaken
         /\ hook[h].st = "none" /\ op[h] = "idle" /\ ~hook[h].enabled /\ call[h].st = "idle"
         /\ hook'[h].st = "none" /\ hook'[h].src = src /\ ~hook'[h].enabled
         /\ stub'[h].back = src /\ stub'[h].code = <<>> /\ ~stub'[h].alive
         /\ op'[h] = "new" /\ call' = call /\ older' = older /\ UNCHANGED cpuVars
<1>1. /\ hook[h].st = "none" /\ op[h] = "idle" /\ ~hook[h].enabled /\ call[h].st = "idle"
      /\ call[h] = NoCall /\ HookTypes /\ ~panicked
      /\ stub[h].code = <<>> /\ ~stub[h].alive /\ HookType(h)
  BY DEF NewBegin, Inside, Shape, Life, HookTypes
<1>2. /\ hook' = [hook EXCEPT ![h].src = src] /\ op' = [op EXCEPT ![h] = "new"]
      /\ stub' = [stub EXCEPT ![h].back = src]
      /\ mem' = mem /\ call' = call /\ older' = older /\ UNCHANGED <<cpuVars, panicked>>
      /\ tangled' = tangled \cup OutOfTurn(h, src) /\ shaken' = shaken
  BY DEF NewBegin
<1>3. /\ hook'[h] = [st |-> hook[h].st, src |-> src, enabled |-> hook[h].enabled, saved |-> hook[h].saved]
      /\ stub'[h] = [alive |-> stub[h].alive, code |-> stub[h].code, back |-> src]
      /\ op'[h] = "new"
  <2>1. /\ hook'[h] = [hook[h] EXCEPT !.src = src] /\ op'[h] = "new"
        /\ stub'[h] = [stub[h] EXCEPT !.back = src]
    BY <1>1, <1>2 DEF HookTypes, Functions
  <2>2. IsHook(hook[h]) /\ IsStub(stub[h])
    BY <1>1 DEF HookType
  <2>3. [hook[h] EXCEPT !.src = src] =
          [st |-> hook[h].st, src |-> src, enabled |-> hook[h].enabled, saved |-> hook[h].saved]
    BY <2>2, HookWith
  <2>4. [stub[h] EXCEPT !.back = src] =
          [alive |-> stub[h].alive, code |-> stub[h].code, back |-> src]
    BY <2>2, StubWith
  <2> QED BY <2>1, <2>3, <2>4
<1>4. /\ hook'[h].st = hook[h].st /\ hook'[h].src = src /\ hook'[h].enabled = hook[h].enabled
      /\ stub'[h].back = src /\ stub'[h].code = stub[h].code /\ stub'[h].alive = stub[h].alive
  BY <1>3
<1>5. HookType(h)'
  <2>1. src \in Nat
    BY HookAssumption
  <2>2. IsHook(hook[h]) /\ IsStub(stub[h])
    BY <1>1 DEF HookType
  <2>3. IsHook(hook'[h])
    BY <1>3, <2>2, HookBuilt DEF IsHook
  <2>4. IsStub(stub'[h])
    BY <1>3, <2>1, <2>2, StubBuilt DEF IsStub
  <2> QED BY <1>1, <1>2, <1>3, <2>3, <2>4 DEF HookType
<1>6. Life(h)'
  <2>1. src <= src
    <3>1. src \in Nat
      BY HookAssumption
    <3> QED BY <3>1
  <2> QED BY <1>1, <1>2, <1>3, <1>4, <2>1 DEF Life, NoCall
<1>7. Replaces(h)
  BY <1>1, <1>2 DEF HookTypes, Functions, Replaces
<1>8. Shape' /\ OthersSame(h)
  BY <1>1, <1>2, <1>5, <1>6, <1>7, ShapeKeeps DEF HookTypes, Functions
<1> QED BY <1>1, <1>2, <1>3, <1>4, <1>8

LEMMA NewDecodeDoes ==
  ASSUME Shape, NEW h \in Hook, NewDecode(h)
  PROVE  /\ Shape' /\ OthersSame(h) /\ op[h] = "new" /\ stub[h].back \in Addr
         /\ stub'[h].code = Append(stub[h].code, Insn(mem, stub[h].back))
         /\ stub'[h].back = stub[h].back + Insn(mem, stub[h].back).len
         /\ stub[h].code \in Seq(Insns) /\ ~stub'[h].alive
         /\ UNCHANGED <<mem, call, hook, op, older, cpuVars, history>>
<1> DEFINE d == Insn(mem, stub[h].back)
<1>1. /\ op[h] = "new" /\ HookTypes /\ HookType(h) /\ Life(h) /\ ~panicked /\ ~Covered(h)
      /\ call[h].st = "idle" /\ hook[h].st = "none" /\ hook[h].src \in Entry
      /\ hook[h].src <= stub[h].back /\ IsStub(stub[h])
  BY DEF NewDecode, Inside, Shape, HookTypes, HookType, Life
<1>2. /\ stub' = [stub EXCEPT ![h].code = Append(@, d), ![h].back = @ + d.len]
      /\ UNCHANGED <<mem, call, hook, op, older, cpuVars, panicked, history>>
  BY DEF NewDecode
<1>3. stub[h].back \in Addr
  <2>1. MAX_HOOK_SIZE <= WindowSize /\ MAX_HOOK_SIZE \in Nat
    BY HookAssumption DEF MAX_HOOK_SIZE, WindowSize
  <2>2. stub[h].back \in Nat /\ hook[h].src \in Nat
    BY <1>1, HookAssumption DEF IsStub
  <2>3. stub[h].back \in Span(hook[h].src, WindowSize)
    BY <1>1, <2>1, <2>2, Sizes DEF Covered, Span
  <2> QED BY <1>1, <2>3, SpanCells
<1>4. d \in Insns
  BY <1>3, InsnIsInsn
<1> HIDE DEF d
<1>5. stub'[h] = [alive |-> stub[h].alive, code |-> Append(stub[h].code, d), back |-> stub[h].back + d.len]
  <2>1. stub'[h] = [stub[h] EXCEPT !.code = Append(stub[h].code, d), !.back = stub[h].back + d.len]
    BY <1>1, <1>2 DEF HookTypes, Functions
  <2> QED BY <1>1, <2>1, StubWith, ZenonT(60)
<1>6. /\ stub'[h].code = Append(stub[h].code, d) /\ stub'[h].back = stub[h].back + d.len
      /\ stub'[h].alive = stub[h].alive
  BY <1>5
<1>7. d.len \in Nat /\ stub[h].back \in Nat /\ stub[h].code \in Seq(Insns)
  BY <1>1, <1>4 DEF Insns, IsStub
<1>8. HookType(h)'
  <2>1. IsStub(stub'[h])
    <3>1. Append(stub[h].code, d) \in Seq(Insns)
      BY <1>4, <1>7
    <3> QED BY <1>1, <1>5, <1>7, <3>1, StubBuilt DEF IsStub
  <2> QED BY <1>1, <1>2, <2>1 DEF HookType, IsHook, IsCall
<1>9. Life(h)'
  <2>1. hook[h].src \in Nat
    BY <1>1, HookAssumption
  <2>2. hook[h].src <= stub[h].back + d.len
    BY <1>1, <1>7, <2>1
  <2> QED BY <1>1, <1>2, <1>6, <2>2 DEF Life, NoCall
<1>10. Replaces(h)
  BY <1>1, <1>2 DEF HookTypes, Functions, Replaces
<1>11. Shape' /\ OthersSame(h)
  BY <1>1, <1>2, <1>8, <1>9, <1>10, ShapeKeeps DEF HookTypes, Functions
<1> QED BY <1>1, <1>2, <1>3, <1>6, <1>7, <1>11 DEF Life, d

LEMMA NewSaveDoes ==
  ASSUME Shape, NEW h \in Hook, NewSave(h)
  PROVE  /\ Shape' /\ OthersSame(h) /\ op[h] = "new" /\ op'[h] = "idle" /\ call[h].st = "idle"
         /\ hook[h].st = "none" /\ hook[h].src \in Entry /\ ~hook[h].enabled
         /\ hook'[h].src = hook[h].src /\ ~hook'[h].enabled
         /\ stub'[h].code = stub[h].code /\ stub'[h].back = stub[h].back
         /\ IF Fits(h)
            THEN /\ hook'[h].st = "live" /\ older'[h] = Live
                 /\ hook'[h].saved = [i \in 1..WindowSize |-> mem[hook[h].src + i - 1]]
            ELSE hook' = hook /\ stub' = stub /\ older' = older
         /\ UNCHANGED <<mem, call, cpuVars, history>>
<1>1. /\ op[h] = "new" /\ HookTypes /\ HookType(h) /\ Life(h) /\ ~panicked
      /\ call[h].st = "idle" /\ hook[h].st = "none" /\ hook[h].src \in Entry /\ ~hook[h].enabled
      /\ IsHook(hook[h]) /\ IsStub(stub[h]) /\ IsCall(call[h]) /\ older[h] \in SUBSET Hook
      /\ op' = [op EXCEPT ![h] = "idle"] /\ UNCHANGED <<mem, call, cpuVars, history>>
  BY DEF NewSave, Inside, Shape, HookTypes, HookType, Life
<1>2. op'[h] = "idle"
  BY <1>1 DEF HookTypes, Functions
<1>3. CASE ~Fits(h)
  <2>1. hook' = hook /\ stub' = stub /\ older' = older /\ panicked' = TRUE
    BY <1>3 DEF NewSave
  <2>2. Replaces(h)
    BY <1>1, <2>1 DEF HookTypes, Functions, Replaces
  <2>3. HookType(h)'
    BY <1>1, <1>2, <2>1 DEF HookType, IsHook, IsStub, IsCall, Insns
  <2>4. Life(h)'
    BY <1>1, <1>2, <2>1 DEF Life, NoCall
  <2>5. Shape' /\ OthersSame(h)
    BY <1>1, <2>2, <2>3, <2>4, ShapeKeeps DEF HookTypes, Functions
  <2> QED BY <1>1, <1>2, <1>3, <2>1, <2>5
<1>4. CASE Fits(h)
  <2> DEFINE bytes == [i \in 1..WindowSize |-> mem[hook[h].src + i - 1]]
  <2>1. /\ hook' = [hook EXCEPT ![h].st = "live", ![h].saved = bytes]
        /\ stub' = [stub EXCEPT ![h].alive = TRUE]
        /\ older' = [older EXCEPT ![h] = Live] /\ panicked' = panicked
    BY <1>4 DEF NewSave
  <2>2. DOMAIN bytes = 1..WindowSize /\ Live \in SUBSET Hook
    BY DEF Live
  <2> HIDE DEF bytes
  <2>3. /\ hook'[h] = [st |-> "live", src |-> hook[h].src, enabled |-> hook[h].enabled, saved |-> bytes]
        /\ older'[h] = Live
    <3>1. hook'[h] = [hook[h] EXCEPT !.st = "live", !.saved = bytes] /\ older'[h] = Live
      BY <1>1, <2>1 DEF HookTypes, Functions
    <3> QED BY <1>1, <3>1, HookWith, ZenonT(60)
  <2>4. \E b \in BOOLEAN : b /\ stub'[h] = [alive |-> b, code |-> stub[h].code, back |-> stub[h].back]
    <3>1. ASSUME NEW b, stub' = [stub EXCEPT ![h].alive = b]
          PROVE  stub'[h] = [alive |-> b, code |-> stub[h].code, back |-> stub[h].back]
      <4>1. stub'[h] = [stub[h] EXCEPT !.alive = b]
        BY <1>1, <3>1 DEF HookTypes, Functions
      <4> QED BY <1>1, <4>1, StubWith
    <3> QED BY <2>1, <3>1, Zenon
  <2>5. /\ hook'[h].st = "live" /\ hook'[h].src = hook[h].src /\ hook'[h].saved = bytes
        /\ hook'[h].enabled = hook[h].enabled
        /\ stub'[h].alive /\ stub'[h].code = stub[h].code /\ stub'[h].back = stub[h].back
    BY <2>3, <2>4
  <2>6. Replaces(h)
    BY <1>1, <2>1 DEF HookTypes, Functions, Replaces
  <2>7. HookType(h)'
    <3>1. IsHook(hook'[h])
      BY <1>1, <2>3, HookBuilt DEF IsHook
    <3>2. IsStub(stub'[h])
      BY <1>1, <2>4, StubBuilt DEF IsStub
    <3> QED BY <1>1, <1>2, <2>2, <2>3, <3>1, <3>2 DEF HookType, IsCall
  <2>8. Life(h)'
    BY <1>1, <1>2, <2>2, <2>5 DEF Life, NoCall
  <2>9. Shape' /\ OthersSame(h)
    BY <1>1, <2>6, <2>7, <2>8, ShapeKeeps DEF HookTypes, Functions
  <2> QED BY <1>1, <1>2, <1>4, <2>3, <2>5, <2>9 DEF bytes
<1> QED BY <1>3, <1>4

\* enable, disable and drop begin their write.
LEMMA MethodDoes ==
  ASSUME Shape, NEW h \in Hook, hook[h].st = "live", Inside(h, "idle"), NEW m, NEW bytes,
         Begin(h, hook[h].src, bytes), op' = [op EXCEPT ![h] = m],
         UNCHANGED <<hook, stub, older, panicked>>,
         \/ m = "enable" /\ ~hook[h].enabled /\ bytes = JumpBytes(h)
         \/ m \in {"disable", "drop"} /\ hook[h].enabled /\ bytes = hook[h].saved
  PROVE  /\ Shape' /\ OthersSame(h) /\ mem' = mem /\ op'[h] = m
         /\ call'[h].st = "writing" /\ call'[h].dst = hook[h].src /\ call'[h].src = bytes
         /\ call'[h].left = DOMAIN bytes
<1>1. /\ HookTypes /\ HookType(h) /\ Life(h) /\ ~panicked /\ mem' = mem
      /\ call' = [call EXCEPT ![h] = [st |-> "writing", dst |-> hook[h].src, src |-> bytes,
                                      left |-> DOMAIN bytes, ok |-> FALSE]]
  BY DEF Begin, Inside, Shape, HookTypes
<1>2. \E b \in BOOLEAN : ~b /\ call'[h] = [st |-> "writing", dst |-> hook[h].src, src |-> bytes,
                                           left |-> DOMAIN bytes, ok |-> b]
  <2>1. ASSUME NEW c, call' = [call EXCEPT ![h] = c] PROVE call'[h] = c
    BY <1>1, <2>1 DEF HookTypes, Functions
  <2>2. call'[h] = [st |-> "writing", dst |-> hook[h].src, src |-> bytes,
                    left |-> DOMAIN bytes, ok |-> FALSE]
    BY <1>1, <2>1, Zenon
  <2> QED BY <2>2, Zenon
<1>3. /\ call'[h].st = "writing" /\ call'[h].dst = hook[h].src /\ call'[h].src = bytes
      /\ call'[h].left = DOMAIN bytes /\ ~call'[h].ok /\ IsCall(call'[h])
  BY <1>2, CallBuilt
<1>4. op'[h] = m
  BY <1>1 DEF HookTypes, Functions
<1>5. HookType(h)'
  BY <1>1, <1>3, <1>4 DEF HookType, IsHook, IsStub, Insns
<1>6. Life(h)' /\ Sends(h)'
  <2>1. JumpBytes(h)' = JumpBytes(h)
    BY DEF JumpBytes
  <2> QED BY <1>1, <1>3, <1>4, <2>1 DEF Life, Sends
<1>7. Replaces(h)
  BY <1>1 DEF HookTypes, Functions, Replaces
<1>8. Shape' /\ OthersSame(h)
  BY <1>1, <1>5, <1>6, <1>7, ShapeKeeps DEF HookTypes, Functions
<1> QED BY <1>1, <1>3, <1>4, <1>8

\* enable and disable look at the answer of their write.
LEMMA AnswerDoes ==
  ASSUME Shape, NEW h \in Hook, op[h] \in {"enable", "disable"}, Return(h), NEW b \in BOOLEAN,
         hook' = [hook EXCEPT ![h].enabled = b], op' = [op EXCEPT ![h] = "idle"],
         UNCHANGED <<stub, older, panicked>>, ~panicked
  PROVE  /\ Shape' /\ OthersSame(h) /\ mem' = mem /\ op'[h] = "idle" /\ call'[h].st = "idle"
         /\ hook'[h].st = hook[h].st /\ hook'[h].src = hook[h].src
         /\ hook'[h].saved = hook[h].saved /\ hook'[h].enabled = b
<1>1. /\ HookTypes /\ HookType(h) /\ Life(h) /\ mem' = mem /\ call' = [call EXCEPT ![h] = NoCall]
      /\ IsHook(hook[h]) /\ hook[h].st = "live"
  BY DEF Return, Shape, HookTypes, HookType, Life
<1>2. call'[h] = NoCall /\ op'[h] = "idle" /\ hook'[h] = [hook[h] EXCEPT !.enabled = b]
  BY <1>1 DEF HookTypes, Functions
<1>3. hook'[h] = [st |-> hook[h].st, src |-> hook[h].src, enabled |-> b, saved |-> hook[h].saved]
  BY <1>1, <1>2, HookWith, ZenonT(60)
<1>4. /\ hook'[h].st = hook[h].st /\ hook'[h].src = hook[h].src /\ hook'[h].enabled = b
      /\ hook'[h].saved = hook[h].saved
  BY <1>3
<1>5. HookType(h)'
  <2>1. IsHook(hook'[h]) /\ IsCall(call'[h])
    BY <1>1, <1>2, <1>3, HookBuilt, NoCallIsCall DEF IsHook
  <2> QED BY <1>1, <1>2, <2>1 DEF HookType, IsStub, Insns
<1>6. Life(h)'
  BY <1>1, <1>2, <1>4, NoCallIsCall DEF Life, NoCall
<1>7. Replaces(h)
  BY <1>1 DEF HookTypes, Functions, Replaces
<1>8. Shape' /\ OthersSame(h)
  BY <1>1, <1>2, <1>5, <1>6, <1>7, NoCallIsCall, ShapeKeeps DEF HookTypes, Functions
<1> QED BY <1>1, <1>2, <1>4, <1>8, NoCallIsCall

\* The fields are dropped, after a write or without one.
LEMMA ReleaseDoes ==
  ASSUME Shape, NEW h \in Hook, Release(h), mem' = mem, UNCHANGED panicked, ~panicked,
         call' = [call EXCEPT ![h] = NoCall], op' = [op EXCEPT ![h] = "idle"]
  PROVE  /\ Shape' /\ OthersSame(h) /\ op'[h] = "idle" /\ call'[h].st = "idle"
         /\ hook'[h].st = "dropped" /\ hook'[h].src = 0 /\ ~hook'[h].enabled
         /\ stub'[h].code = <<>> /\ ~stub'[h].alive /\ older'[h] = {}
<1>1. /\ HookTypes /\ older' = [older EXCEPT ![h] = {}]
      /\ hook' = [hook EXCEPT ![h] =
                     [st |-> "dropped", src |-> 0, enabled |-> FALSE, saved |-> <<>>]]
      /\ stub' = [stub EXCEPT ![h] = [alive |-> FALSE, code |-> <<>>, back |-> 0]]
  BY DEF Release, Shape
<1>2. /\ call'[h] = NoCall /\ op'[h] = "idle" /\ older'[h] = {}
      /\ hook'[h] = [st |-> "dropped", src |-> 0, enabled |-> FALSE, saved |-> <<>>]
      /\ stub'[h] = [alive |-> FALSE, code |-> <<>>, back |-> 0]
  BY <1>1 DEF HookTypes, Functions
<1>3. /\ hook'[h].st = "dropped" /\ hook'[h].src = 0 /\ ~hook'[h].enabled
      /\ stub'[h].code = <<>> /\ ~stub'[h].alive
  BY <1>2
<1>4. HookType(h)'
  <2>1. IsHook(hook'[h]) /\ IsCall(call'[h]) /\ IsStub(stub'[h])
    BY <1>2, NothingLeft, NoCallIsCall
  <2> QED BY <1>2, <2>1 DEF HookType
<1>5. Life(h)'
  BY <1>2, <1>3, NoCallIsCall DEF Life, NoCall
<1>6. Replaces(h)
  BY <1>1 DEF HookTypes, Functions, Replaces
<1>7. Shape' /\ OthersSame(h)
  BY <1>1, <1>2, <1>4, <1>5, <1>6, NoCallIsCall, ShapeKeeps DEF HookTypes, Functions
<1> QED BY <1>2, <1>3, <1>7, NoCallIsCall

\* A step of a write is one byte, or the answer.
LEMMA WriteDoes ==
  ASSUME Shape, NEW h \in Hook, WriteStep(h)
  PROVE  /\ Shape' /\ OthersSame(h) /\ UNCHANGED <<hook, stub, op, older, cpuVars, history>>
         /\ op[h] \in {"enable", "disable", "drop"} /\ call[h].st = "writing"
         /\ call'[h].dst = call[h].dst /\ call'[h].src = call[h].src
         /\ \/ \E i \in DOMAIN call[h].src :
                  /\ mem' = [mem EXCEPT ![call[h].dst + i - 1] = call[h].src[i]]
                  /\ call'[h].left = call[h].left \ {i}
                  /\ call'[h].st = "writing" /\ i \in call[h].left
            \/ /\ mem' = mem /\ call'[h].left = call[h].left /\ call'[h].st = "done"
<1>1. /\ HookTypes /\ HookType(h) /\ Life(h) /\ Sends(h) /\ ~panicked
      /\ call[h].st = "writing" /\ IsCall(call[h]) /\ ~call[h].ok
      /\ UNCHANGED <<hook, stub, op, older, cpuVars, panicked, history>>
  BY DEF WriteStep, Refuse, CopyByte, Complete, hookVars, Shape, HookTypes, HookType, Sends
<1>2. op[h] \in {"enable", "disable", "drop"}
  BY <1>1 DEF Life, HookType
<1>3. JumpBytes(h)' = JumpBytes(h)
  BY DEF JumpBytes
<1>4. ASSUME call' = [call EXCEPT ![h] = call'[h]], IsCall(call'[h]), call'[h].st # "idle",
             mem' = [a \in Addr |-> mem'[a]], Sends(h)'
      PROVE  Shape' /\ OthersSame(h)
  <2>1. Replaces(h)
    BY <1>1, <1>4 DEF HookTypes, Functions, Replaces
  <2>2. HookType(h)'
    BY <1>1, <1>4 DEF HookType, IsHook, IsStub, Insns
  <2>3. Life(h)'
    BY <1>1, <1>2, <1>4 DEF Life
  <2> QED BY <1>4, <2>1, <2>2, <2>3, ShapeKeeps
<1>5. CASE CopyByte(h)
  <2>1. PICK i \in call[h].left :
          /\ mem' = [mem EXCEPT ![call[h].dst + i - 1] = call[h].src[i]]
          /\ call' = [call EXCEPT ![h].left = @ \ {i}]
    BY <1>5 DEF CopyByte
  <2>2. /\ call'[h] = [call[h] EXCEPT !.left = call[h].left \ {i}]
        /\ call' = [call EXCEPT ![h] = call'[h]]
        /\ mem' = [a \in Addr |-> mem'[a]]
    BY <1>1, <2>1 DEF HookTypes, Functions
  <2>3. call'[h] = [st |-> call[h].st, dst |-> call[h].dst, src |-> call[h].src,
                    left |-> call[h].left \ {i}, ok |-> call[h].ok]
    BY <1>1, <2>2, CallWith
  <2>4. /\ call'[h].st = "writing" /\ call'[h].dst = call[h].dst /\ call'[h].src = call[h].src
        /\ call'[h].left = call[h].left \ {i} /\ call'[h].ok = call[h].ok /\ IsCall(call'[h])
    BY <1>1, <2>3, CallBuilt DEF IsCall
  <2>5. i \in DOMAIN call[h].src
    BY <1>1 DEF Sends
  <2>6. Sends(h)'
    BY <1>1, <1>3, <2>4 DEF Sends
  <2> QED BY <1>1, <1>2, <1>4, <2>1, <2>2, <2>4, <2>5, <2>6
<1>6. CASE Refuse(h)
  <2>1. call' = [call EXCEPT ![h].st = "done"] /\ call[h].left = DOMAIN call[h].src /\ mem' = mem
    BY <1>6 DEF Refuse
  <2>2. call'[h] = [call[h] EXCEPT !.st = "done"] /\ call' = [call EXCEPT ![h] = call'[h]]
    BY <1>1, <2>1 DEF HookTypes, Functions
  <2>3. call'[h] = [st |-> "done", dst |-> call[h].dst, src |-> call[h].src,
                    left |-> call[h].left, ok |-> call[h].ok]
    BY <1>1, <2>2, CallWith
  <2>4. /\ call'[h].st = "done" /\ call'[h].dst = call[h].dst /\ call'[h].src = call[h].src
        /\ call'[h].left = call[h].left /\ ~call'[h].ok /\ IsCall(call'[h])
    BY <1>1, <2>3, CallBuilt DEF IsCall
  <2>5. Sends(h)'
    BY <1>1, <1>3, <2>1, <2>4 DEF Sends
  <2> QED BY <1>1, <1>2, <1>4, <1>6, <2>1, <2>2, <2>4, <2>5 DEF HookTypes, Functions
<1>7. CASE Complete(h)
  <2>1. /\ call' = [call EXCEPT ![h].st = "done", ![h].ok = TRUE]
        /\ call[h].left = {} /\ mem' = mem
    BY <1>7 DEF Complete
  <2>2. \E b \in BOOLEAN :
          b /\ call'[h] = [st |-> "done", dst |-> call[h].dst, src |-> call[h].src,
                           left |-> call[h].left, ok |-> b]
    <3>1. ASSUME NEW b, call' = [call EXCEPT ![h].st = "done", ![h].ok = b]
          PROVE  call'[h] = [st |-> "done", dst |-> call[h].dst, src |-> call[h].src,
                             left |-> call[h].left, ok |-> b]
      <4>1. call'[h] = [call[h] EXCEPT !.st = "done", !.ok = b]
        BY <1>1, <3>1 DEF HookTypes, Functions
      <4> QED BY <1>1, <4>1, CallWith
    <3> QED BY <2>1, <3>1, Zenon
  <2>3. /\ call'[h].st = "done" /\ call'[h].dst = call[h].dst /\ call'[h].src = call[h].src
        /\ call'[h].left = call[h].left /\ call'[h].ok /\ IsCall(call'[h])
    <3>1. PICK b \in BOOLEAN :
            b /\ call'[h] = [st |-> "done", dst |-> call[h].dst, src |-> call[h].src,
                             left |-> call[h].left, ok |-> b]
      BY <2>2
    <3>2. IsCall(call'[h])
      BY <3>1, CallBuilt
    <3> QED BY <3>1, <3>2
  <2>4. Sends(h)'
    BY <1>1, <1>3, <2>1, <2>3 DEF Sends
  <2>5. call' = [call EXCEPT ![h] = call'[h]]
    BY <1>1, <2>1 DEF HookTypes, Functions
  <2> QED BY <1>1, <1>2, <1>4, <2>1, <2>3, <2>4, <2>5 DEF HookTypes, Functions
<1> QED BY <1>5, <1>6, <1>7 DEF WriteStep

(***************************************************************************)
(* The steps of a hook after `new`, by their effect.                       *)
(***************************************************************************)
Begins(h, m) ==
  /\ Ready(h) /\ op'[h] = m /\ mem' = mem /\ UNCHANGED <<hook, stub, older, cpuVars>>
  /\ \/ m = "enable" /\ ~hook[h].enabled /\ call'[h].src = JumpBytes(h)
     \/ m \in {"disable", "drop"} /\ hook[h].enabled /\ call'[h].src = hook[h].saved
  /\ tangled' = tangled \cup OutOfTurn(h, hook[h].src) /\ shaken' = shaken \cup Caught(h)
  /\ call'[h].st = "writing" /\ call'[h].dst = hook[h].src /\ call'[h].left = DOMAIN call'[h].src

Answers(h) ==
  /\ op[h] \in {"enable", "disable"} /\ call[h].st = "done"
  /\ op'[h] = "idle" /\ call'[h].st = "idle" /\ mem' = mem
  /\ UNCHANGED <<stub, older, cpuVars, history>>
  /\ hook'[h].st = hook[h].st /\ hook'[h].src = hook[h].src /\ hook'[h].saved = hook[h].saved
  /\ hook'[h].enabled <=> IF op[h] = "enable" THEN call[h].ok ELSE ~call[h].ok

Releases(h) ==
  /\ \/ Ready(h) /\ ~hook[h].enabled
     \/ op[h] = "drop" /\ call[h].st = "done"
  /\ op'[h] = "idle" /\ call'[h].st = "idle" /\ mem' = mem /\ UNCHANGED cpuVars
  /\ hook'[h].st = "dropped" /\ hook'[h].src = 0 /\ ~hook'[h].enabled
  /\ stub'[h].code = <<>> /\ ~stub'[h].alive /\ older'[h] = {}
  /\ tangled' = IF op[h] = "drop" /\ ~call[h].ok THEN tangled \cup Window(h) ELSE tangled
  /\ shaken' = shaken \cup Guests(h)

Stores(h, i) ==
  /\ op[h] \in {"enable", "disable", "drop"} /\ call[h].st = "writing" /\ call'[h].st = "writing"
  /\ UNCHANGED <<hook, stub, op, older, cpuVars, history>>
  /\ i \in DOMAIN call[h].src /\ i \in call[h].left /\ call'[h].left = call[h].left \ {i}
  /\ mem' = [mem EXCEPT ![call[h].dst + i - 1] = call[h].src[i]]
  /\ call'[h].dst = call[h].dst /\ call'[h].src = call[h].src

Finishes(h) ==
  /\ op[h] \in {"enable", "disable", "drop"} /\ call[h].st = "writing" /\ call'[h].st = "done"
  /\ mem' = mem /\ UNCHANGED <<hook, stub, op, older, cpuVars, history>>
  /\ call'[h].dst = call[h].dst /\ call'[h].src = call[h].src /\ call'[h].left = call[h].left

LEMMA Effects ==
  ASSUME Shape, NEW h \in Hook, HookStep(h)
  PROVE  /\ Shape' /\ OthersSame(h)
         /\ \/ \E src \in Entry : NewBegin(h, src)
            \/ NewDecode(h) \/ NewSave(h)
            \/ \E m \in {"enable", "disable", "drop"} : Begins(h, m)
            \/ Answers(h) \/ Releases(h)
            \/ \E i \in DOMAIN call[h].src : Stores(h, i)
            \/ Finishes(h)
<1> USE DEF cpuVars, history
<1>1. CASE \E src \in Entry : NewBegin(h, src)
  BY <1>1, NewBeginDoes
<1>2. CASE NewDecode(h)
  BY <1>2, NewDecodeDoes
<1>3. CASE NewSave(h)
  BY <1>3, NewSaveDoes
<1>4. CASE Enable(h) \/ Disable(h) \/ (Drop(h) /\ hook[h].enabled)
  <2>1. CASE Enable(h)
    <3>1. /\ hook[h].st = "live" /\ Inside(h, "idle") /\ Ready(h) /\ ~hook[h].enabled
          /\ Begin(h, hook[h].src, JumpBytes(h)) /\ op' = [op EXCEPT ![h] = "enable"]
          /\ UNCHANGED <<hook, stub, older, panicked>> /\ UNCHANGED cpuVars
          /\ tangled' = tangled \cup OutOfTurn(h, hook[h].src) /\ shaken' = shaken \cup Caught(h)
      BY <2>1 DEF Enable, Ready, Patch
    <3>2. /\ Shape' /\ OthersSame(h) /\ mem' = mem /\ op'[h] = "enable"
          /\ call'[h].st = "writing" /\ call'[h].dst = hook[h].src /\ call'[h].src = JumpBytes(h)
          /\ call'[h].left = DOMAIN JumpBytes(h)
      BY <3>1, MethodDoes, ZenonT(60)
    <3>3. Begins(h, "enable")
      BY <3>1, <3>2 DEF Begins
    <3> QED BY <3>2, <3>3
  <2>2. CASE Disable(h)
    <3>1. /\ hook[h].st = "live" /\ Inside(h, "idle") /\ Ready(h) /\ hook[h].enabled
          /\ Begin(h, hook[h].src, hook[h].saved) /\ op' = [op EXCEPT ![h] = "disable"]
          /\ UNCHANGED <<hook, stub, older, panicked>> /\ UNCHANGED cpuVars
          /\ tangled' = tangled \cup OutOfTurn(h, hook[h].src) /\ shaken' = shaken \cup Caught(h)
      BY <2>2 DEF Disable, Ready, Patch
    <3>2. /\ Shape' /\ OthersSame(h) /\ mem' = mem /\ op'[h] = "disable"
          /\ call'[h].st = "writing" /\ call'[h].dst = hook[h].src /\ call'[h].src = hook[h].saved
          /\ call'[h].left = DOMAIN hook[h].saved
      BY <3>1, MethodDoes, ZenonT(60)
    <3>3. Begins(h, "disable")
      BY <3>1, <3>2 DEF Begins
    <3> QED BY <3>2, <3>3
  <2>3. CASE Drop(h) /\ hook[h].enabled
    <3>1. /\ hook[h].st = "live" /\ Inside(h, "idle") /\ Ready(h) /\ hook[h].enabled
          /\ Begin(h, hook[h].src, hook[h].saved) /\ op' = [op EXCEPT ![h] = "drop"]
          /\ UNCHANGED <<hook, stub, older, panicked>> /\ UNCHANGED cpuVars
          /\ tangled' = tangled \cup OutOfTurn(h, hook[h].src) /\ shaken' = shaken \cup Caught(h)
      BY <2>3 DEF Drop, Ready, Patch
    <3>2. /\ Shape' /\ OthersSame(h) /\ mem' = mem /\ op'[h] = "drop"
          /\ call'[h].st = "writing" /\ call'[h].dst = hook[h].src /\ call'[h].src = hook[h].saved
          /\ call'[h].left = DOMAIN hook[h].saved
      BY <3>1, MethodDoes, ZenonT(60)
    <3>3. Begins(h, "drop")
      BY <3>1, <3>2 DEF Begins
    <3> QED BY <3>2, <3>3
  <2> QED BY <1>4, <2>1, <2>2, <2>3
<1>5. CASE EnableReturns(h) \/ DisableReturns(h)
  <2>1. PICK b \in BOOLEAN :
          /\ op[h] \in {"enable", "disable"} /\ Return(h) /\ ~panicked
          /\ hook' = [hook EXCEPT ![h].enabled = b] /\ op' = [op EXCEPT ![h] = "idle"]
          /\ UNCHANGED <<stub, older, cpuVars, panicked, history>>
          /\ b <=> IF op[h] = "enable" THEN call[h].ok ELSE ~call[h].ok
    <3>1. call[h].ok \in BOOLEAN /\ (~call[h].ok) \in BOOLEAN
      BY DEF Shape, HookTypes, HookType, IsCall
    <3>2. CASE EnableReturns(h)
      BY <3>1, <3>2 DEF EnableReturns, Inside
    <3>3. CASE DisableReturns(h)
      BY <3>1, <3>3 DEF DisableReturns, Inside
    <3> QED BY <1>5, <3>2, <3>3
  <2>2. /\ Shape' /\ OthersSame(h) /\ mem' = mem /\ op'[h] = "idle" /\ call'[h].st = "idle"
        /\ hook'[h].st = hook[h].st /\ hook'[h].src = hook[h].src
        /\ hook'[h].saved = hook[h].saved /\ hook'[h].enabled = b
    BY <2>1, AnswerDoes
  <2> QED BY <2>1, <2>2 DEF Answers, Return
<1>6. CASE (Drop(h) /\ ~hook[h].enabled) \/ DropReturns(h)
  <2>1. /\ Release(h) /\ mem' = mem /\ UNCHANGED <<cpuVars, panicked>> /\ ~panicked
        /\ call' = [call EXCEPT ![h] = NoCall] /\ op' = [op EXCEPT ![h] = "idle"]
        /\ \/ Ready(h) /\ ~hook[h].enabled
           \/ op[h] = "drop" /\ call[h].st = "done"
        /\ tangled' = IF op[h] = "drop" /\ ~call[h].ok THEN tangled \cup Window(h) ELSE tangled
    <3>1. CASE Drop(h) /\ ~hook[h].enabled
      <4>1. op[h] = "idle" /\ call[h] = NoCall
        BY <3>1 DEF Drop, Ready, Inside, Shape, Life
      <4> QED BY <3>1, <4>1 DEF Drop, Ready, Inside, Shape, HookTypes, Functions
    <3>2. CASE DropReturns(h)
      BY <3>2 DEF DropReturns, Return, Inside
    <3> QED BY <1>6, <3>1, <3>2
  <2>2. /\ Shape' /\ OthersSame(h) /\ op'[h] = "idle" /\ call'[h].st = "idle"
        /\ hook'[h].st = "dropped" /\ hook'[h].src = 0 /\ ~hook'[h].enabled
        /\ stub'[h].code = <<>> /\ ~stub'[h].alive /\ older'[h] = {}
    BY <2>1, ReleaseDoes
  <2> QED BY <2>1, <2>2 DEF Releases, Release
<1>7. CASE WriteStep(h)
  BY <1>7, WriteDoes DEF Stores, Finishes
<1> QED BY <1>1, <1>2, <1>3, <1>4, <1>5, <1>6, <1>7 DEF HookStep

\* Steps of processors leave the hooks and the code alone.
LEMMA CpuStill ==
  ASSUME NEW c \in Cpu, CpuStep(c)
  PROVE  UNCHANGED <<mem, call, hook, stub, op, older, panicked, tangled>>
BY DEF CpuStep, CpuCall, CpuFetch, CpuDestination, CpuTrampoline, Running, hookVars

LEMMA StillShape ==
  ASSUME Shape, UNCHANGED <<mem, call, hook, stub, op, older, panicked>>
  PROVE  Shape'
<1>1. HookTypes'
  BY DEF Shape, HookTypes, Functions, HookType, IsHook, IsCall, IsStub, Insns
<1>2. ASSUME NEW h \in Hook PROVE Life(h)' /\ (call'[h].st # "idle" => Sends(h)')
  <2>1. JumpBytes(h)' = JumpBytes(h)
    BY DEF JumpBytes
  <2> QED BY <2>1 DEF Shape, Life, NoCall, Sends
<1> QED BY <1>1, <1>2 DEF Shape

LEMMA ShapeInit == Init => Shape
<1> SUFFICES ASSUME Init PROVE Shape
  OBVIOUS
<1>1. ASSUME NEW h \in Hook
      PROVE  /\ IsHook(hook[h]) /\ hook[h].st = "none" /\ ~hook[h].enabled
             /\ IsStub(stub[h]) /\ ~stub[h].alive /\ stub[h].code = <<>>
             /\ op[h] = "idle" /\ older[h] = {} /\ call[h] = NoCall
  <2>1. /\ hook[h] = [st |-> "none", src |-> 0, enabled |-> FALSE, saved |-> <<>>]
        /\ stub[h] = [alive |-> FALSE, code |-> <<>>, back |-> 0]
        /\ op[h] = "idle" /\ older[h] = {} /\ call[h] = NoCall
    BY DEF Init, CallIdle
  <2> QED BY <2>1, NothingLeft
<1>2. HookTypes
  <2>1. Functions
    BY DEF Init, Functions, CallIdle
  <2> QED BY <1>1, <2>1, NoCallIsCall DEF HookTypes, HookType
<1>3. \A h \in Hook : Life(h) /\ call[h].st = "idle"
  BY <1>1, NoCallIsCall DEF Life
<1> QED BY <1>2, <1>3 DEF Shape

LEMMA ShapeNext == Shape /\ [Next]_vars => Shape'
BY Effects, CpuStill, StillShape DEF Next, vars

(***************************************************************************)
(* Where jumps and processors go, whatever the callers do.  A hook has one *)
(* address for life: s[h], which the KHook forgets when it is dropped and  *)
(* its bytes do not.  Every byte that is not of the image is a byte of a   *)
(* jump at the address of its hook; a trampoline goes on where the         *)
(* instruction before it ended; so a processor that is at a jump, at a     *)
(* destination or in a trampoline is where the original function would be. *)
(***************************************************************************)
Made == {h \in Hook : hook[h].st # "none"}

Byte(s, M, b, a) ==
  b = Text(a) \/ \E h \in M, i \in 1..AbsJumpSize : b = <<"jmp", h, i>> /\ s[h] + i - 1 = a

Decoded(s, M, d) ==
  /\ d.k \in {"text", "jmp", "junk"}
  /\ d.k = "text" => d.ip \in Addr /\ d.len = InsnLen[d.ip]
  /\ d.k = "jmp" => d.to \in M /\ s[d.to] = d.ip

\* The address of instruction i of a trampoline, or that of the jump back.
At(code, back, i) == IF i <= Len(code) THEN code[i].ip ELSE back

Chained(s, M, h, code, back) ==
  /\ At(code, back, 1) = s[h]
  /\ \A i \in 1..Len(code) :
       Decoded(s, M, code[i]) /\ At(code, back, i + 1) = code[i].ip + code[i].len

Straight(s, c) ==
  \/ ip[c] = <<"idle">>
  \/ ip[c] = <<"text", due[c]>> /\ due[c] \in Nat
  \/ \E h \in Made : ip[c] = <<"dst", h>> /\ due[c] = s[h]
  \/ \E h \in Made, i \in Nat \ {0} :
       /\ ip[c] = <<"stub", h, i>>
       /\ stub[h].alive => /\ i <= Len(stub[h].code) + 1
                           /\ due[c] = At(stub[h].code, stub[h].back, i)
  \/ ip[c] = <<"fault", "torn">>
  \/ ip[c] = <<"fault", "freed">>

HookPath(s, h) ==
  /\ hook[h].src # 0 => s[h] = hook[h].src
  /\ hook[h].st = "live" =>
       \A i \in 1..WindowSize : Byte(s, Made, hook[h].saved[i], hook[h].src + i - 1)
  /\ op[h] = "new" \/ hook[h].st = "live" =>
       Chained(s, Made, h, stub[h].code, stub[h].back)

Paths(s) ==
  /\ s \in [Hook -> Nat]
  /\ ip = [c \in Cpu |-> ip[c]] /\ due = [c \in Cpu |-> due[c]]
  /\ \A a \in Addr : Byte(s, Made, mem[a], a)
  /\ \A h \in Hook : HookPath(s, h)
  /\ \A c \in Cpu : Straight(s, c)

PathInv == Shape /\ \E s \in [Hook -> Nat] : Paths(s)

LEMMA Carry ==
  ASSUME NEW s, NEW t, NEW M, NEW N, M \subseteq N, \A h \in M : t[h] = s[h]
  PROVE  /\ \A b, a : Byte(s, M, b, a) => Byte(t, N, b, a)
         /\ \A d : Decoded(s, M, d) => Decoded(t, N, d)
         /\ \A h, code, back : Chained(s, M, h, code, back) /\ t[h] = s[h]
                                => Chained(t, N, h, code, back)
<1>1. \A b, a : Byte(s, M, b, a) => Byte(t, N, b, a)
  BY DEF Byte
<1>2. \A d : Decoded(s, M, d) => Decoded(t, N, d)
  BY DEF Decoded
<1> QED BY <1>1, <1>2 DEF Chained

\* What is decoded at an address.
LEMMA DecodesRight ==
  ASSUME NEW s \in [Hook -> Nat], \A a \in Addr : Byte(s, Made, mem[a], a), NEW a \in Nat
  PROVE  Decoded(s, Made, Insn(mem, a)) /\ Insn(mem, a).ip = a
<1>1. CASE Intact(mem, a)
  BY <1>1 DEF Insn, Decoded, Intact
<1>2. CASE ~Intact(mem, a) /\ JumpsAt(mem, a) # {}
  <2> DEFINE h == CHOOSE h \in JumpsAt(mem, a) : TRUE
  <2>1. h \in JumpsAt(mem, a)
    BY <1>2
  <2>2. Insn(mem, a) = [k |-> "jmp", ip |-> a, to |-> h, len |-> Len(JumpBytes(h))]
    BY <1>2 DEF Insn
  <2> HIDE DEF h
  <2>3. h \in Hook /\ 1 \in DOMAIN JumpBytes(h)
    <3>1. h \in Hook
      BY <2>1 DEF JumpsAt
    <3> QED BY <3>1, JumpLength
  <2>4. a + 1 - 1 \in Addr /\ mem[a + 1 - 1] = <<"jmp", h, 1>> /\ a + 1 - 1 = a
    BY <2>1, <2>3 DEF JumpsAt
  <2>5. Byte(s, Made, <<"jmp", h, 1>>, a)
    BY <2>4
  <2>6. h \in Made /\ s[h] = a
    BY <2>3, <2>5 DEF Byte, Text
  <2> QED BY <2>2, <2>6 DEF Decoded
<1>3. CASE ~Intact(mem, a) /\ JumpsAt(mem, a) = {}
  BY <1>3 DEF Insn, Decoded
<1> QED BY <1>1, <1>2, <1>3

\* A step of h carries the paths of everything else on.
LEMMA PathsCarry ==
  ASSUME Shape, NEW s, Paths(s), NEW h \in Hook, OthersSame(h),
         NEW t \in [Hook -> Nat], \A g \in Hook \ {h} : t[g] = s[g],
         hook[h].st # "none" => hook'[h].st # "none" /\ t[h] = s[h],
         hook[h].st # "none" /\ stub'[h].alive => stub'[h] = stub[h],
         UNCHANGED cpuVars,
         \A a \in Addr : Byte(t, Made', mem'[a], a),
         HookPath(t, h)'
  PROVE  Paths(t)'
<1>1. Made \subseteq Made' /\ \A g \in Made : t[g] = s[g]
  BY DEF Made, OthersSame
<1>2. ASSUME NEW g \in Hook, g # h PROVE HookPath(t, g)'
  <2>1. /\ hook'[g] = hook[g] /\ stub'[g] = stub[g] /\ op'[g] = op[g] /\ t[g] = s[g]
        /\ HookPath(s, g)
    BY <1>2 DEF OthersSame, Paths
  <2>2. /\ \A b, a : Byte(s, Made, b, a) => Byte(t, Made', b, a)
        /\ \A k, code, back : Chained(s, Made, k, code, back) /\ t[k] = s[k]
                              => Chained(t, Made', k, code, back)
    BY <1>1, Carry
  <2> QED BY <2>1, <2>2 DEF HookPath
<1>3. ASSUME NEW c \in Cpu PROVE Straight(t, c)'
  <2>1. Straight(s, c) /\ ip'[c] = ip[c] /\ due'[c] = due[c]
    BY DEF Paths, cpuVars
  <2>2. CASE \E g \in Made : ip[c] = <<"dst", g>> /\ due[c] = s[g]
    BY <1>1, <2>1, <2>2 DEF Straight
  <2>3. CASE \E g \in Made, i \in Nat \ {0} :
               /\ ip[c] = <<"stub", g, i>>
               /\ stub[g].alive => /\ i <= Len(stub[g].code) + 1
                                   /\ due[c] = At(stub[g].code, stub[g].back, i)
    <3>1. PICK g \in Made, i \in Nat \ {0} :
               /\ ip[c] = <<"stub", g, i>>
               /\ stub[g].alive => /\ i <= Len(stub[g].code) + 1
                                   /\ due[c] = At(stub[g].code, stub[g].back, i)
      BY <2>3
    <3>2. g \in Hook /\ hook[g].st # "none"
      BY DEF Made
    <3>3. stub'[g].alive => stub'[g] = stub[g]
      BY <3>2 DEF OthersSame
    <3>4. /\ ip'[c] = <<"stub", g, i>> /\ g \in Made'
          /\ stub'[g].alive => /\ i <= Len(stub'[g].code) + 1
                               /\ due'[c] = At(stub'[g].code, stub'[g].back, i)
      BY <1>1, <2>1, <3>1, <3>3
    <3> QED BY <3>4 DEF Straight
  <2> QED BY <2>1, <2>2, <2>3 DEF Straight
<1>4. ip' = [c \in Cpu |-> ip'[c]] /\ due' = [c \in Cpu |-> due'[c]]
  BY DEF Paths, cpuVars
<1> QED BY <1>2, <1>3, <1>4 DEF Paths

LEMMA ChainGrows ==
  ASSUME NEW s, NEW M, NEW h, NEW code \in Seq(Insns), NEW back, NEW d \in Insns,
         Chained(s, M, h, code, back), Decoded(s, M, d), d.ip = back
  PROVE  Chained(s, M, h, Append(code, d), back + d.len)
<1> DEFINE new == Append(code, d)
           n == Len(code)
<1>1. n \in Nat /\ Len(new) = n + 1 /\ new[n + 1] = d /\ \A i \in 1..n : new[i] = code[i]
  OBVIOUS
<1> HIDE DEF new, n
<1>2. ASSUME NEW i \in 1..(n + 1) PROVE At(new, back + d.len, i) = At(code, back, i)
  <2>1. CASE i \in 1..n
    BY <1>1, <2>1 DEF At, n
  <2>2. CASE i = n + 1
    BY <1>1, <2>2 DEF At, n
  <2> QED BY <1>1, <2>1, <2>2
<1>3. ASSUME NEW i \in 1..(n + 1)
      PROVE  Decoded(s, M, new[i]) /\ At(new, back + d.len, i + 1) = new[i].ip + new[i].len
  <2>1. CASE i \in 1..n
    <3>1. Decoded(s, M, code[i]) /\ At(code, back, i + 1) = code[i].ip + code[i].len
      BY <2>1 DEF Chained, n
    <3>2. At(new, back + d.len, i + 1) = At(code, back, i + 1)
      BY <1>1, <1>2, <2>1
    <3> QED BY <1>1, <2>1, <3>1, <3>2
  <2>2. CASE i = n + 1
    <3>1. ~(i + 1 <= n + 1)
      BY <1>1, <2>2
    <3> QED BY <1>1, <2>2, <3>1 DEF At
  <2> QED BY <1>1, <2>1, <2>2
<1>4. At(new, back + d.len, 1) = s[h]
  BY <1>1, <1>2 DEF Chained
<1> QED BY <1>1, <1>3, <1>4 DEF Chained, new

LEMMA HookPaths ==
  ASSUME Shape, NEW s, Paths(s), NEW h \in Hook, HookStep(h)
  PROVE  \E t \in [Hook -> Nat] : Paths(t)'
<1>1. /\ Shape' /\ OthersSame(h) /\ s \in [Hook -> Nat] /\ HookPath(s, h)
      /\ \A a \in Addr : Byte(s, Made, mem[a], a)
  BY Effects DEF Paths
<1>2. ASSUME hook[h].st # "none" => hook'[h].st # "none", UNCHANGED cpuVars,
             hook[h].st # "none" /\ stub'[h].alive => stub'[h] = stub[h],
             \A a \in Addr : Byte(s, Made, mem'[a], a),
             Made \subseteq Made' => HookPath(s, h)'
      PROVE  \E t \in [Hook -> Nat] : Paths(t)'
  <2>1. Made \subseteq Made'
    BY <1>1, <1>2 DEF Made, OthersSame
  <2>2. \A a \in Addr : Byte(s, Made', mem'[a], a)
    BY <1>2, <2>1, Carry
  <2> QED BY <1>1, <1>2, <2>1, <2>2, PathsCarry
\* The window and the trampoline of h are what they were.
<1>3. ASSUME hook'[h].src = hook[h].src, hook'[h].st = hook[h].st, hook'[h].saved = hook[h].saved,
             stub'[h] = stub[h], op'[h] # "new",
             UNCHANGED cpuVars, \A a \in Addr : Byte(s, Made, mem'[a], a)
      PROVE  \E t \in [Hook -> Nat] : Paths(t)'
  <2>1. ASSUME Made \subseteq Made' PROVE HookPath(s, h)'
    BY <1>1, <1>3, <2>1, Carry DEF HookPath
  <2> QED BY <1>2, <1>3, <2>1
<1>4. CASE \E src \in Entry : NewBegin(h, src)
  <2>1. PICK src \in Entry : NewBegin(h, src)
    BY <1>4
  <2>2. /\ mem' = mem /\ UNCHANGED cpuVars /\ hook[h].st = "none" /\ hook'[h].st = "none"
        /\ hook'[h].src = src /\ stub'[h].back = src /\ stub'[h].code = <<>>
    BY <2>1, NewBeginDoes
  <2> DEFINE t == [s EXCEPT ![h] = src]
  <2>3. t \in [Hook -> Nat] /\ t[h] = src /\ \A g \in Hook \ {h} : t[g] = s[g]
    BY <1>1, HookAssumption
  <2> HIDE DEF t
  <2>4. Made \subseteq Made' /\ \A g \in Made : t[g] = s[g]
    BY <1>1, <2>2, <2>3 DEF Made, OthersSame
  <2>5. \A a \in Addr : Byte(t, Made', mem'[a], a)
    BY <1>1, <2>2, <2>4, Carry
  <2>6. HookPath(t, h)'
    BY <2>2, <2>3 DEF HookPath, Chained, At
  <2> QED BY <1>1, <2>2, <2>3, <2>5, <2>6, PathsCarry
<1>5. CASE NewDecode(h)
  <2> DEFINE d == Insn(mem, stub[h].back)
  <2>1. /\ op[h] = "new" /\ stub[h].back \in Addr /\ ~stub'[h].alive
        /\ stub'[h].code = Append(stub[h].code, d) /\ stub'[h].back = stub[h].back + d.len
        /\ stub[h].code \in Seq(Insns) /\ UNCHANGED <<mem, call, hook, op, older, cpuVars>>
    BY <1>5, NewDecodeDoes
  <2>2. d \in Insns /\ Decoded(s, Made, d) /\ d.ip = stub[h].back
    BY <1>1, <2>1, InsnIsInsn, DecodesRight, HookAssumption
  <2> HIDE DEF d
  <2>3. ASSUME Made \subseteq Made' PROVE HookPath(s, h)'
    <3>1. Chained(s, Made, h, Append(stub[h].code, d), stub[h].back + d.len)
      <4>1. Chained(s, Made, h, stub[h].code, stub[h].back) /\ stub[h].code \in Seq(Insns)
        BY <1>1, <2>1 DEF HookPath
      <4>2. \A code \in Seq(Insns) : \A back : \A e \in Insns :
              Chained(s, Made, h, code, back) /\ Decoded(s, Made, e) /\ e.ip = back
                => Chained(s, Made, h, Append(code, e), back + e.len)
        BY ChainGrows
      <4> QED BY <2>2, <4>1, <4>2
    <3>2. Chained(s, Made', h, stub'[h].code, stub'[h].back)
      <4>1. \A code, back : Chained(s, Made, h, code, back) => Chained(s, Made', h, code, back)
        BY <2>3, Carry
      <4> QED BY <2>1, <3>1, <4>1
    <3>3. \A b, a : Byte(s, Made, b, a) => Byte(s, Made', b, a)
      BY <2>3, Carry
    <3> QED BY <1>1, <2>1, <3>2, <3>3 DEF HookPath
  <2> QED BY <1>1, <1>2, <2>1, <2>3
<1>6. CASE NewSave(h)
  <2>1. /\ op[h] = "new" /\ op'[h] = "idle" /\ hook[h].st = "none" /\ hook[h].src \in Entry
        /\ hook'[h].src = hook[h].src /\ UNCHANGED <<mem, cpuVars>>
        /\ stub'[h].code = stub[h].code /\ stub'[h].back = stub[h].back
        /\ \/ hook'[h].saved = [i \in 1..WindowSize |-> mem[hook[h].src + i - 1]]
           \/ hook'[h].st = "none"
    BY <1>6, NewSaveDoes
  <2>2. \A i \in 1..WindowSize : hook[h].src + i - 1 \in Addr
    BY <2>1, SpanCells
  <2>3. ASSUME Made \subseteq Made' PROVE HookPath(s, h)'
    <3>1. hook'[h].st = "live" => \A i \in 1..WindowSize :
            Byte(s, Made, hook'[h].saved[i], hook'[h].src + i - 1)
      BY <1>1, <2>1, <2>2
    <3>2. \A b, a : Byte(s, Made, b, a) => Byte(s, Made', b, a)
      BY <2>3, Carry
    <3>3. hook'[h].st = "live" =>
            \A i \in 1..WindowSize : Byte(s, Made', hook'[h].saved[i], hook'[h].src + i - 1)
      BY <3>1, <3>2
    <3>4. \A code, back : Chained(s, Made, h, code, back) => Chained(s, Made', h, code, back)
      BY <2>3, Carry
    <3>5. Chained(s, Made, h, stub[h].code, stub[h].back) /\ s[h] = hook[h].src
      <4>1. hook[h].src # 0
        BY <2>1, HookAssumption
      <4> QED BY <1>1, <2>1, <4>1 DEF HookPath
    <3>6. Chained(s, Made', h, stub'[h].code, stub'[h].back)
      BY <2>1, <3>4, <3>5
    <3> QED BY <2>1, <3>3, <3>5, <3>6 DEF HookPath
  <2> QED BY <1>1, <1>2, <2>1, <2>3
<1>7. CASE \E m \in {"enable", "disable", "drop"} : Begins(h, m)
  BY <1>1, <1>3, <1>7 DEF Begins
<1>8. CASE Answers(h)
  BY <1>1, <1>3, <1>8 DEF Answers
<1>9. CASE Releases(h)
  <2>1. HookPath(s, h)'
    BY <1>9 DEF Releases, HookPath
  <2> QED BY <1>1, <1>2, <1>9, <2>1 DEF Releases
<1>10. CASE \E i \in DOMAIN call[h].src : Stores(h, i)
  <2>1. PICK i \in DOMAIN call[h].src : Stores(h, i)
    BY <1>10
  <2>2. Life(h) /\ Sends(h) /\ hook[h].st = "live" /\ hook[h].src \in Entry
        /\ i \in 1..WindowSize /\ call[h].dst + i - 1 \in Addr
    BY <2>1, SendsInWindow DEF Stores, Shape
  <2>3. Byte(s, Made, call[h].src[i], call[h].dst + i - 1)
    <3>1. CASE op[h] = "enable"
      <4>1. s[h] = hook[h].src /\ h \in Made
        BY <1>1, <2>2, SpanCells DEF HookPath, Made
      <4>2. call[h].src = JumpBytes(h) /\ call[h].dst = hook[h].src
        BY <2>2, <3>1 DEF Sends
      <4>3. i \in 1..AbsJumpSize
        BY <2>1, <4>2, JumpLength, HookAssumption
      <4>4. call[h].src[i] = <<"jmp", h, i>>
        BY <2>1, <4>2 DEF JumpBytes
      <4> QED BY <4>1, <4>2, <4>3, <4>4 DEF Byte
    <3>2. CASE op[h] # "enable"
      BY <1>1, <2>2, <3>2 DEF HookPath, Sends
    <3> QED BY <3>1, <3>2
  <2>4. \A a \in Addr : Byte(s, Made, mem'[a], a)
    <3> DEFINE c == call[h].dst + i - 1
    <3>1. mem' = [mem EXCEPT ![c] = call[h].src[i]] /\ mem = [a \in Addr |-> mem[a]] /\ c \in Addr
      BY <2>1, <2>2 DEF Stores, Shape, HookTypes, Functions
    <3>2. Byte(s, Made, call[h].src[i], c)
      BY <2>3
    <3> HIDE DEF c
    <3>3. mem'[c] = call[h].src[i] /\ \A a \in Addr : a # c => mem'[a] = mem[a]
      BY <3>1
    <3> QED BY <1>1, <3>2, <3>3
  <2> QED BY <1>3, <2>1, <2>4 DEF Stores
<1>11. CASE Finishes(h)
  BY <1>1, <1>3, <1>11 DEF Finishes
<1> QED BY <1>4, <1>5, <1>6, <1>7, <1>8, <1>9, <1>10, <1>11, Effects

\* Where the execution of an instruction that is due leads.
LEMMA Dispatched ==
  ASSUME NEW s, Paths(s), NEW c \in Cpu, NEW d, NEW next,
         Decoded(s, Made, d), d.ip = due[c], Dispatch(c, d, next)
  PROVE  /\ ip' = [ip EXCEPT ![c] = ip'[c]] /\ due' = [due EXCEPT ![c] = due'[c]]
         /\ \/ ip'[c] = <<"idle">>
            \/ d.k = "text" /\ ip'[c] = next /\ due'[c] = d.ip + d.len /\ due'[c] \in Nat
            \/ d.to \in Made /\ ip'[c] = <<"dst", d.to>> /\ due'[c] = s[d.to]
            \/ ip'[c] = <<"fault", "torn">>
<1>1. ip = [x \in Cpu |-> ip[x]] /\ due = [x \in Cpu |-> due[x]]
  BY DEF Paths
<1>2. CASE d.k = "text"
  <2>1. d.ip \in Addr /\ d.len = InsnLen[d.ip]
    BY <1>2 DEF Decoded
  <2>2. InsnLen[d.ip] \in Nat /\ d.ip \in Nat
    <3>1. \A a \in Addr : InsnLen[a] \in Nat /\ a \in Nat
      BY HookAssumption
    <3> QED BY <2>1, <3>1
  <2>3. Execute(c, d.ip, next)
    BY <1>2 DEF Dispatch
  <2>4. CASE d.ip \in Ret
    BY <1>1, <2>3, <2>4 DEF Execute
  <2>5. CASE d.ip \notin Ret
    BY <1>1, <1>2, <2>1, <2>2, <2>3, <2>5 DEF Execute
  <2> QED BY <2>4, <2>5
<1>3. CASE d.k = "jmp"
  BY <1>1, <1>3 DEF Decoded, Dispatch
<1>4. CASE d.k = "junk"
  BY <1>1, <1>4 DEF Dispatch, Fault
<1> QED BY <1>2, <1>3, <1>4 DEF Decoded

\* A step of one processor.
LEMMA OneCpu ==
  ASSUME NEW s, Paths(s), NEW c \in Cpu, UNCHANGED <<mem, call, hook, stub, op, older>>,
         ip' = [ip EXCEPT ![c] = ip'[c]], due' = [due EXCEPT ![c] = due'[c]], Straight(s, c)'
  PROVE  Paths(s)'
<1>1. Made' = Made /\ \A h \in Hook : HookPath(s, h)'
  BY DEF Paths, Made, HookPath
<1>2. ip' = [x \in Cpu |-> ip'[x]] /\ due' = [x \in Cpu |-> due'[x]]
  BY DEF Paths
<1>3. ASSUME NEW x \in Cpu, x # c PROVE Straight(s, x)'
  <2>1. Straight(s, x) /\ ip'[x] = ip[x] /\ due'[x] = due[x]
    BY <1>3 DEF Paths
  <2> QED BY <1>1, <2>1 DEF Straight
<1> QED BY <1>1, <1>2, <1>3 DEF Paths

LEMMA CpuPaths ==
  ASSUME Shape, NEW s, Paths(s), NEW c \in Cpu, CpuStep(c)
  PROVE  Paths(s)'
<1>1. /\ UNCHANGED <<mem, call, hook, stub, op, older>> /\ Made' = Made
      /\ Straight(s, c) /\ s \in [Hook -> Nat]
      /\ ip = [x \in Cpu |-> ip[x]] /\ due = [x \in Cpu |-> due[x]]
  BY CpuStill DEF Paths, Made
<1>2. CASE CpuCall(c)
  <2>1. PICK src \in Entry : /\ ip' = [ip EXCEPT ![c] = <<"text", src>>]
                             /\ due' = [due EXCEPT ![c] = src]
    BY <1>2 DEF CpuCall
  <2>2. ip'[c] = <<"text", src>> /\ due'[c] = src /\ src \in Nat
    BY <1>1, <2>1, HookAssumption
  <2>3. Straight(s, c)'
    BY <2>2 DEF Straight
  <2> QED BY <1>1, <2>1, <2>2, <2>3, OneCpu
<1>3. CASE CpuFetch(c)
  <2> DEFINE d == Insn(mem, ip[c][2])
  <2>1. ip[c] = <<"text", due[c]>> /\ due[c] \in Nat
    BY <1>1, <1>3 DEF CpuFetch, Straight
  <2>2. Decoded(s, Made, d) /\ d.ip = due[c]
    BY <1>1, <2>1, DecodesRight DEF Paths
  <2>3. Dispatch(c, d, <<"text", d.ip + d.len>>)
    BY <1>3 DEF CpuFetch
  <2> HIDE DEF d
  <2>4. /\ ip' = [ip EXCEPT ![c] = ip'[c]] /\ due' = [due EXCEPT ![c] = due'[c]]
        /\ \/ ip'[c] = <<"idle">>
           \/ ip'[c] = <<"text", d.ip + d.len>> /\ due'[c] = d.ip + d.len /\ due'[c] \in Nat
           \/ d.to \in Made /\ ip'[c] = <<"dst", d.to>> /\ due'[c] = s[d.to]
           \/ ip'[c] = <<"fault", "torn">>
    BY <2>2, <2>3, Dispatched
  <2>5. Straight(s, c)'
    BY <1>1, <2>4 DEF Straight
  <2> QED BY <1>1, <2>4, <2>5, OneCpu
<1>4. CASE CpuDestination(c)
  <2>1. PICK h \in Made : ip[c] = <<"dst", h>> /\ due[c] = s[h]
    BY <1>1, <1>4 DEF CpuDestination, Straight
  <2>2. ip[c][2] = h
    BY <2>1
  <2>3. CASE ip' = [ip EXCEPT ![c] = <<"stub", ip[c][2], 1>>] /\ UNCHANGED due
    <3>1. ip'[c] = <<"stub", h, 1>> /\ due'[c] = s[h]
      BY <1>1, <2>1, <2>2, <2>3
    <3>2. ASSUME stub[h].alive
          PROVE  1 <= Len(stub[h].code) + 1 /\ s[h] = At(stub[h].code, stub[h].back, 1)
      <4>1. h \in Hook /\ hook[h].st = "live" /\ stub[h].code \in Seq(Insns)
        BY <3>2 DEF Made, Shape, HookTypes, HookType, IsStub, Life
      <4> QED BY <4>1 DEF Paths, HookPath, Chained
    <3>3. Straight(s, c)'
      BY <1>1, <3>1, <3>2 DEF Straight
    <3>4. due' = [due EXCEPT ![c] = due'[c]] /\ ip' = [ip EXCEPT ![c] = ip'[c]]
      BY <1>1, <2>3
    <3> QED BY <1>1, <3>3, <3>4, OneCpu
  <2>4. CASE ip' = [ip EXCEPT ![c] = <<"idle">>] /\ due' = [due EXCEPT ![c] = 0]
    <3>1. ip'[c] = <<"idle">>
      BY <1>1, <2>4
    <3>2. Straight(s, c)'
      BY <3>1 DEF Straight
    <3>3. due' = [due EXCEPT ![c] = due'[c]] /\ ip' = [ip EXCEPT ![c] = ip'[c]]
      BY <1>1, <2>4
    <3> QED BY <1>1, <3>2, <3>3, OneCpu
  <2> QED BY <1>4, <2>3, <2>4 DEF CpuDestination
<1>5. CASE CpuTrampoline(c)
  <2>1. PICK h \in Made, i \in Nat \ {0} :
               /\ ip[c] = <<"stub", h, i>>
               /\ stub[h].alive => /\ i <= Len(stub[h].code) + 1
                                   /\ due[c] = At(stub[h].code, stub[h].back, i)
    BY <1>1, <1>5 DEF CpuTrampoline, Straight
  <2>2. ip[c][2] = h /\ ip[c][3] = i
    BY <2>1
  <2> DEFINE code == stub[h].code
             back == stub[h].back
  <2>3. h \in Hook /\ code \in Seq(Insns) /\ back \in Nat
    BY DEF Made, Shape, HookTypes, HookType, IsStub
  <2>4. CASE ~stub[h].alive
    <3>1. Fault(c, "freed")
      BY <1>5, <2>2, <2>4 DEF CpuTrampoline
    <3>2. ip' = [ip EXCEPT ![c] = <<"fault", "freed">>] /\ due' = [due EXCEPT ![c] = 0]
      BY <3>1 DEF Fault
    <3>3. ip'[c] = <<"fault", "freed">> /\ ip' = [ip EXCEPT ![c] = ip'[c]]
          /\ due' = [due EXCEPT ![c] = due'[c]]
      BY <1>1, <3>2
    <3>4. Straight(s, c)'
      BY <3>3 DEF Straight
    <3> QED BY <1>1, <3>3, <3>4, OneCpu
  <2>5. CASE stub[h].alive
    <3>1. Chained(s, Made, h, code, back) /\ i <= Len(code) + 1 /\ due[c] = At(code, back, i)
      BY <2>1, <2>3, <2>5 DEF Paths, HookPath, Shape, Life
    <3>2. CASE i <= Len(code)
      <4> DEFINE d == code[i]
                 next == <<"stub", h, i + 1>>
      <4>1. Dispatch(c, d, next)
        BY <1>5, <2>2, <2>5, <3>2 DEF CpuTrampoline
      <4>2. i \in 1..Len(code)
        BY <2>3, <3>2
      <4>3. Decoded(s, Made, d) /\ d.ip = due[c] /\ At(code, back, i + 1) = d.ip + d.len
        BY <3>1, <3>2, <4>2 DEF Chained, At
      <4> HIDE DEF d, code, back, next
      <4>4. /\ ip' = [ip EXCEPT ![c] = ip'[c]] /\ due' = [due EXCEPT ![c] = due'[c]]
            /\ \/ ip'[c] = <<"idle">>
               \/ ip'[c] = next /\ due'[c] = d.ip + d.len
               \/ d.to \in Made /\ ip'[c] = <<"dst", d.to>> /\ due'[c] = s[d.to]
               \/ ip'[c] = <<"fault", "torn">>
        BY <4>1, <4>3, Dispatched
      <4>5. i + 1 \in Nat \ {0} /\ i + 1 <= Len(code) + 1
        BY <2>3, <4>2 DEF code
      <4>6. ASSUME ip'[c] = next, due'[c] = d.ip + d.len PROVE Straight(s, c)'
        <5>1. ip'[c] = <<"stub", h, i + 1>>
          BY <4>6 DEF next
        <5>2. /\ i + 1 <= Len(stub'[h].code) + 1
              /\ due'[c] = At(stub'[h].code, stub'[h].back, i + 1)
          BY <1>1, <4>3, <4>5, <4>6 DEF code, back
        <5> QED BY <1>1, <4>5, <5>1, <5>2 DEF Straight
      <4>7. ASSUME ip'[c] = <<"idle">> \/ ip'[c] = <<"fault", "torn">> PROVE Straight(s, c)'
        BY <4>7 DEF Straight
      <4>8. ASSUME d.to \in Made, ip'[c] = <<"dst", d.to>>, due'[c] = s[d.to]
            PROVE  Straight(s, c)'
        BY <1>1, <4>8 DEF Straight
      <4> QED BY <1>1, <4>4, <4>6, <4>7, <4>8, OneCpu
    <3>3. CASE ~(i <= Len(code))
      <4>1. ip' = [ip EXCEPT ![c] = <<"text", back>>] /\ due' = due
        BY <1>5, <2>2, <2>5, <3>3 DEF CpuTrampoline, JumpBack
      <4>2. due[c] = back
        BY <3>1, <3>3 DEF At
      <4> HIDE DEF back
      <4>3. ip'[c] = <<"text", due'[c]>> /\ due'[c] \in Nat /\ ip' = [ip EXCEPT ![c] = ip'[c]]
            /\ due' = [due EXCEPT ![c] = due'[c]]
        BY <1>1, <2>3, <4>1, <4>2
      <4>4. Straight(s, c)'
        BY <4>3 DEF Straight
      <4> QED BY <1>1, <4>3, <4>4, OneCpu
    <3> QED BY <3>2, <3>3
  <2> QED BY <2>4, <2>5
<1> QED BY <1>2, <1>3, <1>4, <1>5 DEF CpuStep

LEMMA PathsInit == Init => PathInv
<1> SUFFICES ASSUME Init PROVE PathInv
  OBVIOUS
<1> DEFINE s == [h \in Hook |-> 0]
<1>1. s \in [Hook -> Nat]
  OBVIOUS
<1> HIDE DEF s
<1>2. \A h \in Hook : HookPath(s, h)
  BY DEF Init, HookPath
<1>3. \A c \in Cpu : Straight(s, c)
  BY DEF Init, Straight
<1>4. \A a \in Addr : Byte(s, Made, mem[a], a)
  BY DEF Init, Byte
<1>5. ip = [c \in Cpu |-> ip[c]] /\ due = [c \in Cpu |-> due[c]]
  BY DEF Init
<1> QED BY <1>1, <1>2, <1>3, <1>4, <1>5, ShapeInit DEF PathInv, Paths

LEMMA PathsNext == PathInv /\ [Next]_vars => PathInv'
<1> SUFFICES ASSUME PathInv, [Next]_vars PROVE PathInv'
  OBVIOUS
<1>1. PICK s \in [Hook -> Nat] : Paths(s)
  BY DEF PathInv
<1>2. Shape /\ Shape'
  BY ShapeNext DEF PathInv
<1>3. ASSUME NEW h \in Hook, HookStep(h) PROVE PathInv'
  BY <1>1, <1>2, <1>3, HookPaths DEF PathInv
<1>4. ASSUME NEW c \in Cpu, CpuStep(c) PROVE PathInv'
  BY <1>1, <1>2, <1>4, CpuPaths DEF PathInv
<1>5. CASE UNCHANGED vars
  <2>1. Paths(s)'
    BY <1>1, <1>5 DEF vars, cpuVars, Paths, HookPath, Straight, Made
  <2> QED BY <1>1, <1>2, <2>1 DEF PathInv
<1> QED BY <1>3, <1>4, <1>5 DEF Next

LEMMA PathsHold == Spec => []PathInv
BY PathsInit, PathsNext, PTL DEF Spec

\* Whatever the callers race with, a processor that leaves the order of the original
\* instructions (khook.rs:16) does so on a torn instruction or in a freed trampoline: no
\* jump, captured jump, jump back or restored byte leads to a wrong instruction, for any
\* image, any number of hooks and processors and any interleaving of their steps.
THEOREM NeverAstray == Spec => []NoWrongPath
<1>1. PathInv => NoWrongPath
  BY DEF PathInv, Paths, Straight, NoWrongPath
<1> QED BY <1>1, PathsHold, PTL

\* What is recorded of the processors and of the bytes.
Records == /\ rax \in [Cpu -> {"kept", "lost", "misread"}]
           /\ tangled \subseteq Addr /\ shaken \subseteq Cpu

LEMMA WindowInAddr == ASSUME Shape, NEW h \in Hook PROVE Window(h) \subseteq Addr
BY SpanCells DEF Window, Shape, HookTypes, HookType, IsHook

LEMMA RecordsOfHooks ==
  ASSUME Shape, Records, NEW h \in Hook, HookStep(h)
  PROVE  Records'
<1> USE DEF cpuVars, history
<1>1. CASE \E src \in Entry : NewBegin(h, src)
  <2>1. PICK src \in Entry : NewBegin(h, src)
    BY <1>1
  <2> QED BY <2>1, SpanCells DEF NewBegin, Records, OutOfTurn
<1>2. CASE NewDecode(h)
  BY <1>2 DEF NewDecode, Records
<1>3. CASE NewSave(h)
  BY <1>3 DEF NewSave, Records
<1>4. ASSUME NEW m, Begins(h, m) PROVE Records'
  <2>1. hook[h].src \in Entry
    BY <1>4 DEF Begins, Ready, Shape, Life
  <2> QED BY <1>4, <2>1, SpanCells DEF Begins, Records, OutOfTurn, Caught
<1>5. CASE Answers(h)
  BY <1>5 DEF Answers, Records
<1>6. CASE Releases(h)
  BY <1>6, WindowInAddr DEF Releases, Records, Guests
<1>7. ASSUME NEW i, Stores(h, i) PROVE Records'
  BY <1>7 DEF Stores, Records
<1>8. CASE Finishes(h)
  BY <1>8 DEF Finishes, Records
<1> QED BY <1>1, <1>2, <1>3, <1>4, <1>5, <1>6, <1>7, <1>8, Effects

LEMMA RecordsOfCpus ==
  ASSUME Records, NEW c \in Cpu, CpuStep(c)
  PROVE  Records'
<1> DEFINE R == {"kept", "lost", "misread"}
<1>1. tangled' = tangled /\ shaken' \subseteq Cpu
  <2>1. tangled' = tangled
    BY CpuStill
  <2>2. shaken' \in {shaken, shaken \ {c}, shaken \cup {c}}
    BY DEF CpuStep, CpuCall, CpuFetch, CpuDestination, CpuTrampoline
  <2> QED BY <2>1, <2>2 DEF Records
<1>2. \A v \in R : rax' = [rax EXCEPT ![c] = v] => rax' \in [Cpu -> R]
  BY DEF Records
<1>3. rax' = rax \/ \E v \in R : rax' = [rax EXCEPT ![c] = v]
  <2>1. rax[c] \in R
    BY DEF Records
  <2>2. LoseRax(c) => \E v \in R : rax' = [rax EXCEPT ![c] = v]
    BY <2>1 DEF LoseRax
  <2>3. ASSUME NEW a, UseRax(c, a) PROVE \E v \in R : rax' = [rax EXCEPT ![c] = v]
    BY <2>1, <2>3 DEF UseRax
  <2>4. ASSUME NEW why, Fault(c, why) PROVE \E v \in R : rax' = [rax EXCEPT ![c] = v]
    BY <2>4 DEF Fault
  <2> HIDE DEF R
  <2>5. ASSUME NEW d, NEW next, Dispatch(c, d, next)
        PROVE  \E v \in R : rax' = [rax EXCEPT ![c] = v]
    BY <2>2, <2>3, <2>4, <2>5 DEF Dispatch, Execute
  <2>6. CASE CpuCall(c)
    BY <2>6 DEF CpuCall, R
  <2>7. CASE CpuFetch(c)
    BY <2>5, <2>7 DEF CpuFetch
  <2>8. CASE CpuDestination(c)
    BY <2>8 DEF CpuDestination
  <2>9. CASE CpuTrampoline(c)
    BY <2>2, <2>4, <2>5, <2>9 DEF CpuTrampoline, JumpBack
  <2> QED BY <2>6, <2>7, <2>8, <2>9 DEF CpuStep
<1> QED BY <1>1, <1>2, <1>3 DEF Records

LEMMA RecordsHold == Spec => []Records
<1>1. Init => Records
  BY DEF Init, Records
<1>2. Shape /\ Records /\ [Next]_vars => Records'
  <2>1. Records /\ UNCHANGED vars => Records'
    BY DEF Records, vars
  <2> QED BY <2>1, RecordsOfHooks, RecordsOfCpus DEF Next
<1> QED BY <1>1, <1>2, ShapeInit, ShapeNext, PTL DEF Spec

\* Type correctness of the hooks (khook.rs:80-95), of the code bytes and of the processors.
THEOREM HookTypesHold == Spec => []TypeOK
<1>1. PathInv /\ Records => TypeOK
  <2> SUFFICES ASSUME PathInv, Records PROVE TypeOK
    OBVIOUS
  <2>1. PICK s \in [Hook -> Nat] : Paths(s)
    BY DEF PathInv
  <2>2. \A a \in Addr :
          mem[a] \in {Text(a)} \cup {<<"jmp", h, i>> : h \in Hook, i \in 1..AbsJumpSize}
    <3>1. ASSUME NEW a \in Addr
          PROVE  mem[a] = Text(a) \/ \E h \in Hook, i \in 1..AbsJumpSize : mem[a] = <<"jmp", h, i>>
      <4>1. Byte(s, Made, mem[a], a) /\ Made \subseteq Hook
        BY <2>1 DEF Paths, Made
      <4> QED BY <4>1 DEF Byte
    <3> QED BY <3>1
  <2>3. ASSUME NEW h \in Hook
        PROVE  /\ hook[h].st \in {"none", "live", "dropped"} /\ hook[h].src \in Entry \cup {0}
               /\ hook[h].enabled \in BOOLEAN /\ stub[h].alive \in BOOLEAN
               /\ \A i \in DOMAIN stub[h].code : stub[h].code[i] \in Insns
               /\ op[h] \in {"idle", "new", "enable", "disable", "drop"}
               /\ call[h].st \in {"idle", "writing", "done"}
    <3>1. HookType(h)
      BY DEF PathInv, Shape, HookTypes
    <3>2. stub[h].code \in Seq(Insns)
      BY <3>1 DEF HookType, IsStub
    <3> QED BY <3>1, <3>2 DEF HookType, IsHook, IsCall, IsStub
  <2>4. \A c \in Cpu : ip[c][1] \in {"idle", "text", "dst", "stub", "fault"}
    BY <2>1 DEF Paths, Straight
  <2> QED BY <2>2, <2>3, <2>4 DEF TypeOK, Records
<1> QED BY <1>1, PathsHold, RecordsHold, PTL

(***************************************************************************)
(* The bytes come back.  OriginalBytesRestored is not inductive: a hook    *)
(* restores what it saved, and what it saved is the image only if no older *)
(* hook was installed then and none of them has come or gone since.  That  *)
(* is so where hooks are used like a stack, and every byte where they are  *)
(* not is entangled.                                                       *)
(***************************************************************************)
\* Two hooks share a byte that is not entangled.
Overlaps(g, h) == (Window(g) \cap Window(h)) \ tangled # {}

\* Of hooks that overlap only the newest is in a method.
Stacks(h) ==
  /\ op[h] # "idle" => \A g \in Hook \ {h} :
       Overlaps(g, h) => op[g] = "idle" /\ (hook[h].st = "live" => g \in older[h])
  /\ \A g \in older[h] : hook[g].st # "none" /\ h \notin older[g]

\* Where no older hook is installed the saved bytes are the image.
SavedRight(h) == hook[h].st = "live" => \A i \in 1..WindowSize :
  hook[h].src + i - 1 \notin tangled
  /\ (\A g \in older[h] : hook[h].src + i - 1 \in Window(g) => ~hook[g].enabled)
    => hook[h].saved[i] = Text(hook[h].src + i - 1)

\* What disable and drop have written so far is in place.
Restores(h) == call[h].st # "idle" /\ op[h] # "enable" =>
  \A i \in DOMAIN call[h].src \ call[h].left :
    call[h].dst + i - 1 \notin tangled => mem[call[h].dst + i - 1] = call[h].src[i]

\* A byte may differ from the image: the hook is installed or about to be.
Touched(h) == hook[h].enabled \/ (op[h] = "enable" /\ call[h].left # DOMAIN call[h].src)

Untouched(a) == \A h \in Hook : a \in Window(h) => ~Touched(h)

BytesRight == \A a \in Addr \ tangled : Untouched(a) => mem[a] = Text(a)

HookInv ==
  /\ Shape
  /\ \A h \in Hook : Stacks(h) /\ SavedRight(h) /\ Restores(h)
  /\ BytesRight

Discipline(h) ==
  /\ tangled \subseteq tangled'
  /\ \A g \in Hook \ {h} : Overlaps(g, h)' => op[g] = "idle"
  /\ hook[h].st \in {"none", "live"}
  /\ hook[h].st = "live" => hook'[h].st # "none" /\ older'[h] \subseteq older[h]
  /\ hook[h].enabled => \A g \in Hook \ {h} : \A a \in Window(g) \cap Window(h) :
                          a \notin tangled' => g \in older[h]
  /\ \A a \in Addr : mem'[a] # mem[a] =>
       a \in Window(h) /\ \A g \in Hook \ {h} : a \in Window(g) \ tangled' => op[g] = "idle"

LEMMA OlderHooks == ASSUME Shape, NEW h \in Hook PROVE older[h] \subseteq Hook
BY DEF Shape, HookTypes, HookType

LEMMA OthersKeep ==
  ASSUME HookInv, NEW h \in Hook, OthersSame(h), Discipline(h), NEW g \in Hook, g # h
  PROVE  Stacks(g)' /\ SavedRight(g)' /\ Restores(g)'
<1>1. /\ hook'[g] = hook[g] /\ op'[g] = op[g] /\ call'[g] = call[g] /\ older'[g] = older[g]
      /\ Window(g)' = Window(g)
  BY DEF OthersSame, Window
<1>3. \A k \in Hook \ {h} : Overlaps(k, g)' => Overlaps(k, g)
  BY <1>1 DEF OthersSame, Overlaps, Window, Discipline
<1>4. Overlaps(h, g)' => Overlaps(g, h)'
  BY DEF Overlaps
<1>5. older[g] \subseteq Hook
  BY OlderHooks DEF HookInv
<1>6. h \in older[g] => hook[h].st = "live" /\ g \notin older[h]
  BY DEF HookInv, Stacks, Discipline
<1>7. Stacks(g)'
  <2>1. ASSUME op'[g] # "idle", NEW k \in Hook \ {g}, Overlaps(k, g)'
        PROVE  op'[k] = "idle" /\ (hook'[g].st = "live" => k \in older'[g])
    <3>1. k # h
      BY <2>1, <1>1, <1>4 DEF Discipline
    <3> QED BY <2>1, <3>1, <1>1, <1>3 DEF OthersSame, HookInv, Stacks
  <2>2. ASSUME NEW k \in older'[g]
        PROVE  hook'[k].st # "none" /\ g \notin older'[k]
    <3>1. CASE k = h
      BY <2>2, <3>1, <1>1, <1>6 DEF Discipline
    <3>2. CASE k # h
      BY <2>2, <3>2, <1>1, <1>5 DEF OthersSame, HookInv, Stacks
    <3> QED BY <3>1, <3>2
  <2> QED BY <2>1, <2>2 DEF Stacks
<1>8. ASSUME NEW a \in Window(g) \ tangled', h \in older[g], hook[h].enabled
      PROVE  a \notin Window(h)
  BY <1>6, <1>8 DEF Discipline
<1>9. SavedRight(g)'
  <2> SUFFICES ASSUME hook[g].st = "live", NEW i \in 1..WindowSize,
                      hook[g].src + i - 1 \notin tangled',
                      \A k \in older[g] : hook[g].src + i - 1 \in Window(k)' => ~hook'[k].enabled
               PROVE  hook[g].saved[i] = Text(hook[g].src + i - 1)
    BY <1>1 DEF SavedRight, Text
  <2>1. hook[g].src + i - 1 \in Window(g)
    BY SpanCells, WindowOf DEF HookInv, Shape, Life
  <2>2. ASSUME NEW k \in older[g], hook[g].src + i - 1 \in Window(k) PROVE ~hook[k].enabled
    <3> SUFFICES ASSUME hook[k].enabled PROVE FALSE
      OBVIOUS
    <3>1. k # h
      BY <1>8, <2>1, <2>2
    <3>2. hook'[k] = hook[k] /\ Window(k)' = Window(k)
      BY <3>1, <1>5 DEF OthersSame, Window
    <3> QED BY <2>2, <3>2
  <2> QED BY <2>2 DEF HookInv, SavedRight, Discipline
<1>10. Restores(g)'
  <2> SUFFICES ASSUME call[g].st # "idle" PROVE Restores(g)'
    BY <1>1 DEF Restores
  <2>1. op[g] # "idle" /\ \A i \in DOMAIN call[g].src :
          call[g].dst + i - 1 \in Window(g) /\ call[g].dst + i - 1 \in Addr
    BY SendsInWindow DEF HookInv, Shape, Life
  <2>2. ASSUME NEW i \in DOMAIN call[g].src, call[g].dst + i - 1 \notin tangled'
        PROVE  /\ mem'[call[g].dst + i - 1] = mem[call[g].dst + i - 1]
               /\ call[g].dst + i - 1 \notin tangled
    BY <2>1, <2>2 DEF Discipline
  <2> QED BY <1>1, <2>2 DEF HookInv, Restores
<1> QED BY <1>7, <1>9, <1>10

\* A byte is the image where no hook has touched it, before as after.
LEMMA BytesKeep ==
  ASSUME HookInv, NEW h \in Hook, OthersSame(h), UNCHANGED mem, tangled \subseteq tangled',
         \A a \in Addr \ tangled' : Untouched(a)' /\ a \in Window(h) /\ Touched(h) => mem[a] = Text(a)
  PROVE  BytesRight'
<1> SUFFICES ASSUME NEW a \in Addr \ tangled', Untouched(a)' PROVE mem[a] = Text(a)
  BY DEF BytesRight, Text
<1>1. ASSUME NEW g \in Hook, g # h, a \in Window(g) PROVE ~Touched(g)
  <2>1. a \in Window(g)'
    BY <1>1 DEF OthersSame, Window
  <2>2. ~Touched(g)'
    BY <2>1 DEF Untouched
  <2> QED BY <1>1, <2>2 DEF OthersSame, Touched
<1>2. CASE a \in Window(h) /\ Touched(h)
  BY <1>2
<1>3. CASE ~(a \in Window(h) /\ Touched(h))
  BY <1>1, <1>3 DEF Untouched, HookInv, BytesRight
<1> QED BY <1>2, <1>3

LEMMA OneHook ==
  ASSUME HookInv, NEW h \in Hook, OthersSame(h), Discipline(h), Shape', BytesRight',
         Stacks(h)', SavedRight(h)', Restores(h)'
  PROVE  HookInv'
BY OthersKeep DEF HookInv

\* The newest of the hooks that overlap it.
Newest(h) ==
  /\ hook[h].st = "live" /\ hook[h].src \in Entry
  /\ \A g \in Hook \ {h} : Overlaps(g, h) => op[g] = "idle" /\ g \in older[h]

LEMMA BusyNewest ==
  ASSUME HookInv, NEW h \in Hook, op[h] \in {"enable", "disable", "drop"}
  PROVE  Newest(h) /\ call[h].st # "idle" /\ Sends(h)
BY DEF HookInv, Shape, Life, Stacks, Newest

LEMMA NewestDiscipline ==
  ASSUME HookInv, NEW h \in Hook, Newest(h), OthersSame(h),
         tangled' = tangled,
         Window(h)' \in {Window(h), {}}, hook'[h].st # "none", older'[h] \subseteq older[h],
         \A a \in Addr : mem'[a] # mem[a] => a \in Window(h)
  PROVE  Discipline(h)
<1>1. ASSUME NEW g \in Hook \ {h}, Overlaps(g, h)' PROVE Overlaps(g, h)
  BY <1>1 DEF Overlaps, Window, OthersSame
<1>2. ASSUME NEW g \in Hook \ {h}, NEW a \in Window(g) \cap Window(h), a \notin tangled
      PROVE  Overlaps(g, h)
  BY <1>2 DEF Overlaps
<1> QED BY <1>1, <1>2 DEF Newest, Discipline

\* The hook keeps its place among the others.
LEMMA StaysNewest ==
  ASSUME HookInv, NEW h \in Hook, Newest(h), OthersSame(h), tangled' = tangled,
         hook'[h].src = hook[h].src, hook'[h].st = hook[h].st, older'[h] = older[h],
         \A a \in Addr : mem'[a] # mem[a] => a \in Window(h)
  PROVE  Stacks(h)' /\ Window(h)' = Window(h) /\ Discipline(h)
<1>1. Window(h)' = Window(h)
  BY DEF Window
<1>2. \A g \in Hook \ {h} : Overlaps(g, h)' <=> Overlaps(g, h)
  BY <1>1 DEF Overlaps, Window, OthersSame
<1>3. ASSUME NEW g \in older[h] PROVE g \in Hook \ {h} /\ hook'[g].st # "none" /\ h \notin older'[g]
  <2>1. g \in Hook /\ hook[g].st # "none" /\ h \notin older[g]
    BY OlderHooks DEF HookInv, Stacks
  <2> QED BY <2>1 DEF OthersSame
<1>4. Discipline(h)
  BY <1>1, NewestDiscipline DEF Newest
<1> QED BY <1>1, <1>2, <1>3, <1>4 DEF Stacks, Newest, OthersSame

\* What it saved is right as long as its saved bytes are the same.
LEMMA StaysSaved ==
  ASSUME HookInv, NEW h \in Hook, OthersSame(h), hook'[h].src = hook[h].src,
         hook'[h].st = hook[h].st, hook'[h].saved = hook[h].saved, older'[h] = older[h],
         tangled \subseteq tangled'
  PROVE  SavedRight(h)'
<1>1. \A g \in older[h] : g \in Hook \ {h}
  BY OlderHooks DEF HookInv, Stacks
<1>2. \A g \in older[h] : hook'[g] = hook[g] /\ Window(g)' = Window(g)
  BY <1>1 DEF OthersSame, Window
<1> QED BY <1>2 DEF HookInv, SavedRight, Text

\* A write that has been made in full by disable brings the image back wherever no
\* other hook is installed.
LEMMA BytesRestored ==
  ASSUME HookInv, NEW h \in Hook, OthersSame(h), op[h] \in {"disable", "drop"},
         call[h].st = "done", call[h].ok,
         NEW a \in Addr \ tangled, Untouched(a)', a \in Window(h)
  PROVE  mem[a] = Text(a)
<1>1. Newest(h) /\ Sends(h)
  BY BusyNewest
<1> DEFINE i == a - hook[h].src + 1
<1>2. i \in 1..WindowSize /\ hook[h].src + i - 1 = a
  BY <1>1, WindowOf, SpanCells DEF Newest
<1>3. DOMAIN hook[h].saved = 1..WindowSize
  BY <1>1 DEF Newest, HookInv, Shape, Life
<1>4. mem[a] = hook[h].saved[i]
  <2>1. call[h].src = hook[h].saved /\ call[h].dst = hook[h].src /\ call[h].left = {}
    BY <1>1 DEF Sends
  <2>2. \A j \in 1..WindowSize : hook[h].src + j - 1 \notin tangled
                                 => mem[hook[h].src + j - 1] = hook[h].saved[j]
    BY <1>3, <2>1, ZenonT(60) DEF HookInv, Restores
  <2> QED BY <1>2, <2>2
<1>5. ASSUME NEW g \in older[h], a \in Window(g) PROVE ~hook[g].enabled
  <2>1. g \in Hook /\ g # h
    BY OlderHooks DEF HookInv, Stacks
  <2>2. a \in Window(g)' /\ hook'[g] = hook[g]
    BY <1>5, <2>1 DEF OthersSame, Window
  <2> QED BY <2>1, <2>2 DEF Untouched, Touched
<1> HIDE DEF i
<1> QED BY <1>1, <1>2, <1>4, <1>5 DEF HookInv, SavedRight, Newest

LEMMA HookInit == Init => HookInv
<1> SUFFICES ASSUME Init PROVE HookInv
  OBVIOUS
<1>1. BytesRight
  BY DEF Init, BytesRight, Text
<1>2. ASSUME NEW h \in Hook PROVE Stacks(h) /\ SavedRight(h) /\ Restores(h)
  BY DEF Init, Stacks, SavedRight, Restores, CallIdle, NoCall
<1> QED BY <1>1, <1>2, ShapeInit DEF HookInv

LEMMA NewBeginKeeps ==
  ASSUME HookInv, NEW h \in Hook, NEW src \in Entry, NewBegin(h, src)
  PROVE  HookInv'
<1>1. /\ Shape' /\ OthersSame(h) /\ mem' = mem /\ tangled' = tangled \cup OutOfTurn(h, src)
      /\ hook[h].st = "none" /\ op[h] = "idle" /\ ~hook[h].enabled /\ call[h].st = "idle"
      /\ hook'[h].st = "none" /\ hook'[h].src = src
      /\ op'[h] = "new" /\ call' = call /\ older' = older
  BY NewBeginDoes DEF HookInv
<1>2. Window(h)' = Span(src, WindowSize)
  BY <1>1, WindowOf
<1>3. \A g \in Hook \ {h} : Overlaps(g, h)' => op[g] = "idle"
  BY <1>1, <1>2 DEF OutOfTurn, Overlaps, OthersSame, Window
<1>4. Discipline(h)
  BY <1>1, <1>3 DEF Discipline
<1>5. SavedRight(h)' /\ Restores(h)'
  BY <1>1 DEF SavedRight, Restores
<1>6. Stacks(h)'
  <2>1. \A g \in older[h] : g \in Hook \ {h} /\ hook[g].st # "none" /\ h \notin older[g]
    BY OlderHooks DEF HookInv, Stacks
  <2> QED BY <2>1, <1>1, <1>3 DEF Stacks, OthersSame
<1>7. BytesRight'
  BY <1>1, BytesKeep DEF Touched
<1> QED BY <1>1, <1>4, <1>5, <1>6, <1>7, OneHook

LEMMA NewSaveKeeps ==
  ASSUME HookInv, NEW h \in Hook, NewSave(h)
  PROVE  HookInv'
<1>1. /\ Shape' /\ OthersSame(h) /\ op[h] = "new" /\ op'[h] = "idle" /\ call[h].st = "idle"
      /\ hook[h].st = "none" /\ hook[h].src \in Entry /\ ~hook[h].enabled
      /\ hook'[h].src = hook[h].src /\ ~hook'[h].enabled
      /\ UNCHANGED <<mem, call, tangled>>
      /\ IF Fits(h)
         THEN /\ hook'[h].st = "live" /\ older'[h] = Live
              /\ hook'[h].saved = [i \in 1..WindowSize |-> mem[hook[h].src + i - 1]]
         ELSE hook' = hook /\ older' = older
  BY NewSaveDoes DEF HookInv, history
<1>2. \A g \in Hook \ {h} : Overlaps(g, h) => op[g] = "idle"
  BY <1>1 DEF HookInv, Stacks
<1>3. Window(h)' = Window(h) /\ \A g \in Hook \ {h} : Window(g)' = Window(g)
  BY <1>1 DEF Window, OthersSame
<1>4. Discipline(h)
  BY <1>1, <1>2, <1>3 DEF Discipline, Overlaps
<1>5. BytesRight' /\ Restores(h)'
  BY <1>1, BytesKeep DEF Touched, Restores
<1>6. CASE ~Fits(h)
  <2>1. Stacks(h)' /\ SavedRight(h)'
    BY <1>1, <1>6 DEF HookInv, Stacks, SavedRight
  <2> QED BY <1>1, <1>4, <1>5, <2>1, OneHook
<1>7. CASE Fits(h)
  <2>1. Stacks(h)'
    <3>1. ASSUME NEW g \in Live PROVE g \in Hook \ {h} /\ hook'[g].st # "none" /\ h \notin older'[g]
      <4>1. g \in Hook /\ g # h /\ hook[g].st = "live"
        BY <1>1 DEF Live
      <4>2. h \notin older[g]
        BY <1>1, <4>1 DEF HookInv, Stacks
      <4> QED BY <4>1, <4>2, <1>1 DEF OthersSame
    <3> QED BY <1>1, <1>7, <3>1 DEF Stacks
  <2>2. SavedRight(h)'
    <3> SUFFICES ASSUME NEW i \in 1..WindowSize, hook[h].src + i - 1 \notin tangled,
                        \A g \in Live : hook[h].src + i - 1 \in Window(g)' => ~hook'[g].enabled
                 PROVE  mem[hook[h].src + i - 1] = Text(hook[h].src + i - 1)
      BY <1>1, <1>7 DEF SavedRight, Text
    <3>1. hook[h].src + i - 1 \in Window(h) /\ hook[h].src + i - 1 \in Addr
      BY <1>1, WindowOf, SpanCells
    <3>2. ASSUME NEW g \in Hook, hook[h].src + i - 1 \in Window(g) PROVE ~Touched(g)
      <4>1. CASE g = h
        BY <1>1, <4>1 DEF Touched
      <4>2. CASE g # h
        <5>1. op[g] = "idle"
          BY <1>2, <3>1, <3>2, <4>2 DEF Overlaps
        <5>2. ~hook[g].enabled
          <6>1. hook[g].enabled => g \in Live
            BY DEF HookInv, Shape, Life, Live
          <6> QED BY <6>1, <1>1, <1>3, <3>2, <4>2 DEF OthersSame
        <5> QED BY <5>1, <5>2 DEF Touched
      <4> QED BY <4>1, <4>2
    <3> QED BY <3>1, <3>2 DEF HookInv, BytesRight, Untouched
  <2> QED BY <1>1, <1>4, <1>5, <2>1, <2>2, OneHook
<1> QED BY <1>6, <1>7

\* enable, disable and drop begin their write: the hook is now the newest wherever it
\* shares a byte that is not entangled.
LEMMA BeginsNewest ==
  ASSUME Shape, NEW h \in Hook, OthersSame(h), NEW m, Begins(h, m)
  PROVE  /\ hook[h].st = "live" /\ hook[h].src \in Entry /\ op[h] = "idle" /\ call[h].st = "idle"
         /\ mem' = mem /\ hook' = hook /\ older' = older /\ stub' = stub /\ op'[h] = m
         /\ tangled \subseteq tangled' /\ \A g \in Hook : Window(g)' = Window(g)
         /\ \A g \in Hook \ {h} : \A a \in Window(g) \cap Window(h) :
              a \notin tangled' => op[g] = "idle" /\ g \in older[h]
         /\ Newest(h)'
<1>1. /\ hook[h].st = "live" /\ op[h] = "idle" /\ call[h].st = "idle" /\ hook[h].src \in Entry
      /\ mem' = mem /\ hook' = hook /\ older' = older /\ stub' = stub /\ op'[h] = m
      /\ tangled' = tangled \cup OutOfTurn(h, hook[h].src)
  BY DEF Begins, Ready, Inside, Shape, Life
<1>2. Window(h) = Span(hook[h].src, WindowSize) /\ \A g \in Hook : Window(g)' = Window(g)
  BY <1>1, WindowOf DEF Window
<1>3. ASSUME NEW g \in Hook \ {h}, NEW a \in Window(g) \cap Window(h), a \notin tangled'
      PROVE  op[g] = "idle" /\ g \in older[h]
  BY <1>1, <1>2, <1>3 DEF OutOfTurn
<1>4. Newest(h)'
  BY <1>1, <1>2, <1>3 DEF Newest, Overlaps, OthersSame
<1> QED BY <1>1, <1>2, <1>3, <1>4

LEMMA BeginsKeeps ==
  ASSUME HookInv, Shape', NEW h \in Hook, OthersSame(h),
         NEW m \in {"enable", "disable", "drop"}, Begins(h, m)
  PROVE  HookInv'
<1>1. /\ hook[h].st = "live" /\ op[h] = "idle" /\ mem' = mem /\ hook' = hook /\ older' = older
      /\ tangled \subseteq tangled' /\ Newest(h)' /\ \A g \in Hook : Window(g)' = Window(g)
      /\ \A g \in Hook \ {h} : \A a \in Window(g) \cap Window(h) :
           a \notin tangled' => op[g] = "idle" /\ g \in older[h]
  BY BeginsNewest DEF HookInv
<1>2. Discipline(h)
  BY <1>1 DEF Discipline, Overlaps
<1>3. Stacks(h)' /\ SavedRight(h)'
  <2>1. \A g \in older[h] : hook[g].st # "none" /\ h \notin older[g]
    BY DEF HookInv, Stacks
  <2> QED BY <1>1, <2>1, StaysSaved DEF Stacks, Newest
<1>4. Restores(h)'
  BY DEF Begins, Restores
<1>5. BytesRight'
  <2>1. Touched(h) => Touched(h)'
    BY <1>1 DEF Touched
  <2> QED BY <1>1, <2>1, BytesKeep DEF Untouched
<1> QED BY <1>2, <1>3, <1>4, <1>5, OneHook

\* enable and disable look at the answer of their write.
LEMMA AnswersKeeps ==
  ASSUME HookInv, Shape', NEW h \in Hook, OthersSame(h), Answers(h)
  PROVE  HookInv'
<1>1. /\ mem' = mem /\ older' = older /\ op'[h] = "idle" /\ call'[h].st = "idle"
      /\ call[h].st = "done" /\ op[h] \in {"enable", "disable"} /\ Newest(h) /\ Sends(h)
      /\ tangled' = tangled
      /\ hook'[h].st = hook[h].st /\ hook'[h].src = hook[h].src /\ hook'[h].saved = hook[h].saved
      /\ hook'[h].enabled <=> IF op[h] = "enable" THEN call[h].ok ELSE ~call[h].ok
  BY BusyNewest DEF Answers, history
<1>2. Stacks(h)' /\ SavedRight(h)' /\ Window(h)' = Window(h) /\ Discipline(h)
  BY <1>1, StaysNewest, StaysSaved
<1>3. Restores(h)'
  BY <1>1 DEF Restores
<1>4. BytesRight'
  <2>1. CASE op[h] = "disable" /\ call[h].ok
    BY <1>1, <2>1, BytesRestored, BytesKeep
  <2>2. CASE ~(op[h] = "disable" /\ call[h].ok)
    <3>1. Touched(h) => Touched(h)'
      <4>1. CASE op[h] = "enable"
        <5>1. ~call[h].ok => call[h].left = DOMAIN call[h].src
          BY <1>1 DEF Sends
        <5>2. ~hook[h].enabled
          BY <4>1 DEF HookInv, Shape, Life
        <5> QED BY <1>1, <4>1, <5>1, <5>2 DEF Touched
      <4>2. CASE op[h] = "disable"
        BY <1>1, <2>2, <4>2 DEF Touched
      <4> QED BY <1>1, <4>1, <4>2
    <3> QED BY <1>1, <1>2, <3>1, BytesKeep DEF Untouched
  <2> QED BY <2>1, <2>2
<1> QED BY <1>2, <1>3, <1>4, OneHook

\* drop ends: the hook was not installed, or its bytes have been written back, or the
\* write was refused and its window is entangled from now on.
LEMMA ReleasesKeeps ==
  ASSUME HookInv, Shape', NEW h \in Hook, OthersSame(h), Releases(h)
  PROVE  HookInv'
<1>1. /\ mem' = mem /\ op'[h] = "idle" /\ call'[h].st = "idle" /\ older'[h] = {}
      /\ hook'[h].st = "dropped" /\ hook'[h].src = 0
      /\ tangled' = IF op[h] = "drop" /\ ~call[h].ok THEN tangled \cup Window(h) ELSE tangled
  BY DEF Releases
<1>2. tangled \subseteq tangled' /\ Window(h)' = {}
  BY <1>1 DEF Window
<1>3. Stacks(h)' /\ SavedRight(h)' /\ Restores(h)'
  BY <1>1 DEF Stacks, SavedRight, Restores
<1>4. CASE Ready(h) /\ ~hook[h].enabled
  <2>1. hook[h].st = "live" /\ op[h] = "idle" /\ tangled' = tangled
    BY <1>1, <1>4 DEF Ready, Inside
  <2>2. Discipline(h)
    BY <1>1, <1>2, <1>4, <2>1 DEF Discipline, Overlaps
  <2>3. ~Touched(h)
    BY <1>4, <2>1 DEF Touched
  <2>4. BytesRight'
    BY <1>1, <1>2, <2>3, BytesKeep
  <2> QED BY <1>3, <2>2, <2>4, OneHook
<1>5. CASE op[h] = "drop" /\ call[h].st = "done"
  <2>1. Newest(h)
    BY <1>5, BusyNewest
  <2>2. Discipline(h)
    <3>1. ASSUME NEW g \in Hook \ {h}, NEW a \in Window(g) \cap Window(h), a \notin tangled'
          PROVE  Overlaps(g, h)
      BY <1>2, <3>1 DEF Overlaps
    <3> QED BY <1>1, <1>2, <2>1, <3>1 DEF Discipline, Overlaps, Newest
  <2>3. ASSUME NEW a \in Addr \ tangled', Untouched(a)', a \in Window(h) PROVE mem[a] = Text(a)
    <3>1. call[h].ok /\ a \notin tangled
      BY <1>1, <1>5, <2>3
    <3> QED BY <1>5, <2>3, <3>1, BytesRestored
  <2>4. BytesRight'
    BY <1>1, <1>2, <2>3, BytesKeep
  <2> QED BY <1>3, <2>2, <2>4, OneHook
<1> QED BY <1>4, <1>5 DEF Releases

\* A byte is stored.
LEMMA StoresKeeps ==
  ASSUME HookInv, Shape', NEW h \in Hook, OthersSame(h), NEW i \in DOMAIN call[h].src, Stores(h, i)
  PROVE  HookInv'
<1> DEFINE c == call[h].dst + i - 1
<1>1. /\ hook' = hook /\ op' = op /\ older' = older /\ tangled' = tangled
      /\ op[h] \in {"enable", "disable", "drop"} /\ call[h].st = "writing" /\ call'[h].st = "writing"
      /\ call'[h].left = call[h].left \ {i} /\ call'[h].dst = call[h].dst /\ call'[h].src = call[h].src
  BY DEF Stores, history
<1>2. Newest(h) /\ Sends(h) /\ c \in Window(h) /\ c \in Addr
      /\ i \in 1..WindowSize /\ DOMAIN call[h].src \subseteq 1..WindowSize
      /\ call[h].dst = hook[h].src
  BY <1>1, BusyNewest, SendsInWindow DEF HookInv, Sends
<1>3. mem' = [mem EXCEPT ![c] = call[h].src[i]] /\ mem = [a \in Addr |-> mem[a]]
  BY DEF Stores, HookInv, Shape, HookTypes, Functions
<1> HIDE DEF c
<1>4. mem'[c] = call[h].src[i] /\ \A a \in Addr : a # c => mem'[a] = mem[a]
  BY <1>2, <1>3
<1>5. Stacks(h)' /\ SavedRight(h)' /\ Window(h)' = Window(h) /\ Discipline(h)
  <2>1. \A a \in Addr : mem'[a] # mem[a] => a \in Window(h)
    BY <1>2, <1>4
  <2> QED BY <1>1, <1>2, <2>1, StaysNewest, StaysSaved
<1>6. Restores(h)'
  <2>1. ASSUME op[h] # "enable", NEW j \in DOMAIN call[h].src, j \notin call'[h].left,
               call[h].dst + j - 1 \notin tangled
        PROVE  mem'[call[h].dst + j - 1] = call[h].src[j]
    <3>1. CASE j = i
      BY <1>4, <3>1 DEF c
    <3>2. CASE j # i
      <4>1. mem[call[h].dst + j - 1] = call[h].src[j]
        BY <1>1, <2>1, <3>2 DEF HookInv, Restores
      <4>2. call[h].dst + j - 1 # c /\ call[h].dst + j - 1 \in Addr
        BY <1>2, <2>1, <3>2, SpanCells DEF Newest, c
      <4> QED BY <1>4, <4>1, <4>2
    <3> QED BY <3>1, <3>2
  <2> QED BY <1>1, <2>1 DEF Restores
<1>7. BytesRight'
  <2> SUFFICES ASSUME NEW a \in Addr \ tangled, Untouched(a)' PROVE mem'[a] = Text(a)
    BY <1>1 DEF BytesRight, Text
  <2>1. Touched(h)'
    <3>1. call'[h].left # DOMAIN call'[h].src
      BY <1>1
    <3>2. op[h] \in {"disable", "drop"} => hook[h].enabled
      BY DEF HookInv, Shape, Life
    <3> QED BY <1>1, <3>1, <3>2 DEF Touched
  <2>2. a \notin Window(h)
    BY <1>5, <2>1 DEF Untouched
  <2>3. Untouched(a)
    <3>1. \A g \in Hook \ {h} : Touched(g)' <=> Touched(g)
      BY DEF Touched, OthersSame
    <3> QED BY <1>1, <2>2, <3>1 DEF Untouched, Window
  <2> QED BY <1>2, <1>4, <2>2, <2>3 DEF HookInv, BytesRight
<1> QED BY <1>5, <1>6, <1>7, OneHook

\* A write is refused or has been made.
LEMMA FinishesKeeps ==
  ASSUME HookInv, Shape', NEW h \in Hook, OthersSame(h), Finishes(h)
  PROVE  HookInv'
<1>1. /\ mem' = mem /\ hook' = hook /\ op' = op /\ older' = older /\ tangled' = tangled
      /\ op[h] \in {"enable", "disable", "drop"} /\ call[h].st = "writing" /\ call'[h].st = "done"
      /\ call'[h].left = call[h].left /\ call'[h].dst = call[h].dst /\ call'[h].src = call[h].src
  BY DEF Finishes, history
<1>2. Stacks(h)' /\ SavedRight(h)' /\ Window(h)' = Window(h) /\ Discipline(h)
  BY <1>1, BusyNewest, StaysNewest, StaysSaved
<1>3. Restores(h)'
  BY <1>1 DEF HookInv, Restores
<1>4. BytesRight'
  <2>1. Touched(h) => Touched(h)'
    BY <1>1 DEF Touched
  <2> QED BY <1>1, <1>2, <2>1, BytesKeep DEF Untouched
<1> QED BY <1>2, <1>3, <1>4, OneHook

LEMMA StillKeeps ==
  ASSUME HookInv, Shape', UNCHANGED <<mem, call, hook, op, older, tangled>>
  PROVE  HookInv'
<1>1. \A h \in Hook : Window(h)' = Window(h)
  BY DEF Window
<1>2. ASSUME NEW h \in Hook PROVE Stacks(h)' /\ SavedRight(h)' /\ Restores(h)'
  <2>1. Stacks(h) /\ SavedRight(h) /\ Restores(h) /\ older[h] \subseteq Hook
    BY OlderHooks DEF HookInv
  <2>2. Stacks(h)'
    BY <1>1, <2>1 DEF Stacks, Overlaps
  <2>3. SavedRight(h)'
    BY <1>1, <2>1 DEF SavedRight, Text
  <2> QED BY <2>1, <2>2, <2>3 DEF Restores
<1>3. BytesRight'
  BY <1>1 DEF HookInv, BytesRight, Untouched, Touched, Text
<1> QED BY <1>2, <1>3 DEF HookInv

LEMMA HookNext ==
  ASSUME HookInv, [Next]_vars
  PROVE  HookInv'
<1>1. Shape'
  BY ShapeNext DEF HookInv
<1>2. ASSUME NEW h \in Hook, HookStep(h) PROVE HookInv'
  <2>1. /\ OthersSame(h)
        /\ \/ \E src \in Entry : NewBegin(h, src)
           \/ NewDecode(h) \/ NewSave(h)
           \/ \E m \in {"enable", "disable", "drop"} : Begins(h, m)
           \/ Answers(h) \/ Releases(h)
           \/ \E i \in DOMAIN call[h].src : Stores(h, i)
           \/ Finishes(h)
    BY <1>2, Effects DEF HookInv
  <2>2. CASE \E src \in Entry : NewBegin(h, src)
    BY <2>2, NewBeginKeeps
  <2>3. CASE NewDecode(h)
    BY <1>1, <2>3, StillKeeps DEF NewDecode, history
  <2>4. CASE NewSave(h)
    BY <2>4, NewSaveKeeps
  <2>5. CASE \E m \in {"enable", "disable", "drop"} : Begins(h, m)
    BY <1>1, <2>1, <2>5, BeginsKeeps
  <2>6. CASE Answers(h)
    BY <1>1, <2>1, <2>6, AnswersKeeps
  <2>7. CASE Releases(h)
    BY <1>1, <2>1, <2>7, ReleasesKeeps
  <2>8. CASE \E i \in DOMAIN call[h].src : Stores(h, i)
    BY <1>1, <2>1, <2>8, StoresKeeps
  <2>9. CASE Finishes(h)
    BY <1>1, <2>1, <2>9, FinishesKeeps
  <2> QED BY <2>1, <2>2, <2>3, <2>4, <2>5, <2>6, <2>7, <2>8, <2>9
<1>3. ASSUME NEW c \in Cpu, CpuStep(c) PROVE HookInv'
  BY <1>1, <1>3, CpuStill, StillKeeps
<1>4. CASE UNCHANGED vars
  BY <1>1, <1>4, StillKeeps DEF vars
<1> QED BY <1>2, <1>3, <1>4 DEF Next

\* "Dropping a hook automatically restores the original function bytes" (khook.rs:79):
\* after any history of hooks, of calls in any order and of refused writes and drops,
\* with the processors doing what they will, the code is the image wherever no hook is
\* installed or in a method, except at the bytes where hooks were used out of turn and
\* in the windows of hooks whose destructor was refused.
THEOREM BytesComeBack == Spec => []OriginalBytesRestored
<1>1. HookInv => OriginalBytesRestored
  BY DEF HookInv, BytesRight, Untouched, Touched, Shape, Life, OriginalBytesRestored
<1>2. HookInv /\ [Next]_vars => HookInv'
  BY HookNext
<1> QED BY <1>1, <1>2, HookInit, PTL DEF Spec


(***************************************************************************)
(* Jumps lie in layers.  Where several hooks show their jump at a byte,    *)
(* memory holds that of the newest, and what a hook saved holds that of    *)
(* the newest of the older ones.  Hence no jump is left behind in memory,  *)
(* in saved bytes or in a trampoline when its hook goes.  All of this is   *)
(* said of the bytes that are not entangled, whatever the others hold.     *)
(***************************************************************************)
\* Byte i of the jump of h lies at a.
Covers(h, i, a) == i \in DOMAIN JumpBytes(h) /\ a = hook[h].src + i - 1

\* Byte i of the jump of h has been written and not been restored.
Shows(h, i) ==
  IF op[h] = "enable" THEN i \notin call[h].left
  ELSE IF op[h] \in {"disable", "drop"} THEN i \in call[h].left
  ELSE hook[h].enabled

Top(a) ==
  \/ mem[a] = Text(a) /\ \A h \in Hook, i \in Nat : Covers(h, i, a) => ~Shows(h, i)
  \/ \E h \in Hook, i \in Nat :
       /\ mem[a] = <<"jmp", h, i>> /\ Covers(h, i, a) /\ Shows(h, i)
       /\ \A k \in Hook \ {h}, j \in Nat : Covers(k, j, a) /\ Shows(k, j) => k \in older[h]

\* The bytes of a hook, with what its older hooks show.
Below(g, n) ==
  LET a == hook[g].src + n - 1
  IN  \/ /\ hook[g].saved[n] = Text(a)
         /\ \A h \in older[g], i \in Nat : Covers(h, i, a) => ~hook[h].enabled
      \/ \E h \in older[g], i \in Nat :
           /\ hook[g].saved[n] = <<"jmp", h, i>> /\ Covers(h, i, a) /\ hook[h].enabled
           /\ \A k \in older[g] \ {h}, j \in Nat :
                Covers(k, j, a) /\ hook[k].enabled => k \in older[h]

Beneath(g) == hook[g].st = "live" => \A n \in 1..WindowSize :
  hook[g].src + n - 1 \notin tangled => Below(g, n)

\* The jump of h that g captured at address a: h is older, installed, and at a too.
Captured(g, h, a) == a \notin tangled =>
  /\ h # g /\ hook[h].enabled /\ a \in Window(g) /\ a \in Window(h)
  /\ hook[g].st = "live" => h \in older[g]

Captures(g) == \A i \in DOMAIN stub[g].code, h \in Hook :
  stub[g].code[i].k = "jmp" /\ stub[g].code[i].to = h => Captured(g, h, stub[g].code[i].ip)

LayerInv ==
  /\ HookInv
  /\ \A a \in Addr \ tangled : Top(a)
  /\ \A g \in Hook : Beneath(g) /\ Captures(g)

LEMMA NotStopped == ASSUME NEW h \in Hook, HookStep(h) PROVE ~panicked
BY DEF HookStep, NewBegin, NewDecode, NewSave, Enable, EnableReturns, Disable, DisableReturns,
       Drop, DropReturns, WriteStep, Ready, Inside

LEMMA SameJump == \A h \in Hook : JumpBytes(h)' = JumpBytes(h)
BY DEF JumpBytes

\* A hook that shows its jump exists.
LEMMA ShownLives ==
  ASSUME Shape, NEW h \in Hook, hook[h].enabled \/ \E i \in Nat : Shows(h, i)
  PROVE  /\ hook[h].st = "live" /\ hook[h].src \in Entry /\ hook[h].src \in Nat
         /\ stub[h].alive /\ op[h] # "new"
<1>1. Life(h)
  BY DEF Shape
<1>2. hook[h].st = "live" /\ op[h] # "new"
  BY <1>1 DEF Life, Shows
<1> QED BY <1>1, <1>2, HookAssumption DEF Life

LEMMA CoveredLies ==
  ASSUME NEW h \in Hook, hook[h].src \in Entry, NEW i, NEW a, Covers(h, i, a)
  PROVE  a \in Window(h) /\ a \in Addr /\ i \in 1..WindowSize /\ i \in Nat
<1>1. i \in 1..WindowSize /\ a = hook[h].src + i - 1
  BY Sizes DEF Covers
<1>2. a \in Span(hook[h].src, WindowSize) /\ Span(hook[h].src, WindowSize) \subseteq Addr
  BY <1>1, SpanCells
<1> QED BY <1>1, <1>2, WindowOf

\* A byte shows the same as long as its hooks do.
LEMMA TopKeeps ==
  ASSUME NEW h \in Hook, OthersSame(h), NEW a \in Addr, mem'[a] = mem[a], Top(a),
         \A i \in Nat : Covers(h, i, a)' /\ Shows(h, i)' <=> Covers(h, i, a) /\ Shows(h, i),
         \A i \in Nat : Covers(h, i, a) /\ Shows(h, i) => older'[h] = older[h]
  PROVE  Top(a)'
<1>1. ASSUME NEW k \in Hook \ {h}, NEW j \in Nat
      PROVE  /\ Covers(k, j, a)' <=> Covers(k, j, a)
             /\ Shows(k, j)' <=> Shows(k, j)
             /\ older'[k] = older[k]
  BY SameJump DEF OthersSame, Covers, Shows
<1>2. \A k \in Hook, j \in Nat :
        Covers(k, j, a)' /\ Shows(k, j)' <=> Covers(k, j, a) /\ Shows(k, j)
  BY <1>1
<1>3. CASE mem[a] = Text(a) /\ \A k \in Hook, i \in Nat : Covers(k, i, a) => ~Shows(k, i)
  <2>1. mem'[a] = Text(a)' /\ \A k \in Hook, i \in Nat : Covers(k, i, a)' => ~Shows(k, i)'
    BY <1>2, <1>3 DEF Text
  <2> QED BY <2>1 DEF Top
<1>4. ASSUME NEW k \in Hook, NEW i \in Nat,
             mem[a] = <<"jmp", k, i>>, Covers(k, i, a), Shows(k, i),
             \A g \in Hook \ {k}, j \in Nat : Covers(g, j, a) /\ Shows(g, j) => g \in older[k]
      PROVE  Top(a)'
  <2>1. older'[k] = older[k]
    BY <1>1, <1>4
  <2>2. Covers(k, i, a)' /\ Shows(k, i)'
    BY <1>2, <1>4
  <2>3. \A g \in Hook \ {k}, j \in Nat : Covers(g, j, a)' /\ Shows(g, j)' => g \in older'[k]
    BY <1>2, <1>4, <2>1
  <2> QED BY <1>4, <2>2, <2>3 DEF Top
<1> QED BY <1>3, <1>4 DEF Top

\* A step of h leaves alone what older hooks show below g, and what g captured.
Clear(h) ==
  /\ tangled \subseteq tangled'
  /\ \A g \in Hook \ {h} : hook[g].st = "live" /\ h \in older[g] =>
       \/ ~hook[h].enabled /\ ~hook'[h].enabled
       \/ Window(g) \cap Window(h) \subseteq tangled'
  /\ \A g \in Hook \ {h} : \A i \in DOMAIN stub[g].code :
       stub[g].code[i].k = "jmp" /\ stub[g].code[i].to = h => stub[g].code[i].ip \in tangled'
  /\ hook'[h].enabled => hook'[h].src = hook[h].src

LEMMA ClearOff ==
  ASSUME LayerInv, NEW h \in Hook, ~hook[h].enabled, ~hook'[h].enabled, tangled \subseteq tangled'
  PROVE  Clear(h)
<1>1. \A g \in Hook : Captures(g)
  BY DEF LayerInv
<1> QED BY <1>1 DEF Clear, Captures, Captured

LEMMA ClearTop ==
  ASSUME LayerInv, ~panicked, NEW h \in Hook, tangled \subseteq tangled',
         \A g \in Hook \ {h} : \A a \in Window(g) \cap Window(h) :
           a \notin tangled' => op[g] = "idle" /\ g \in older[h],
         hook'[h].enabled => hook'[h].src = hook[h].src
  PROVE  Clear(h)
<1>1. ASSUME NEW g \in Hook \ {h}, hook[g].st = "live", h \in older[g]
      PROVE  Window(g) \cap Window(h) \subseteq tangled'
  <2>1. g \notin older[h]
    BY <1>1 DEF LayerInv, HookInv, Stacks
  <2> QED BY <2>1
<1>2. ASSUME NEW g \in Hook \ {h}, NEW i \in DOMAIN stub[g].code, stub[g].code[i].k = "jmp",
             stub[g].code[i].to = h, stub[g].code[i].ip \notin tangled'
      PROVE  FALSE
  <2>1. Captured(g, h, stub[g].code[i].ip) /\ stub[g].code[i].ip \notin tangled
    BY <1>2 DEF LayerInv, Captures
  <2>2. stub[g].code[i].ip \in Window(g) \cap Window(h) /\ (hook[g].st = "live" => h \in older[g])
    BY <2>1 DEF Captured
  <2>3. op[g] = "idle" /\ hook[g].st # "live"
    BY <1>1, <1>2, <2>2
  <2>4. stub[g].code = <<>>
    BY <2>3 DEF LayerInv, HookInv, Shape, Life
  <2> QED BY <1>2, <2>4
<1> QED BY <1>1, <1>2 DEF Clear

LEMMA ClearNewest ==
  ASSUME LayerInv, ~panicked, NEW h \in Hook, Newest(h), tangled \subseteq tangled',
         hook'[h].enabled => hook'[h].src = hook[h].src
  PROVE  Clear(h)
<1>1. ASSUME NEW g \in Hook \ {h}, NEW a \in Window(g) \cap Window(h), a \notin tangled'
      PROVE  op[g] = "idle" /\ g \in older[h]
  BY <1>1 DEF Newest, Overlaps
<1> QED BY <1>1, ClearTop

LEMMA OthersLayer ==
  ASSUME LayerInv, Shape', NEW h \in Hook, OthersSame(h), Clear(h), NEW g \in Hook, g # h
  PROVE  Beneath(g)' /\ Captures(g)'
<1>1. /\ hook'[g] = hook[g] /\ stub'[g] = stub[g] /\ older'[g] = older[g]
      /\ Beneath(g) /\ Captures(g) /\ older[g] \subseteq Hook
  BY OlderHooks DEF OthersSame, LayerInv, HookInv
<1>2. ASSUME NEW k \in Hook \ {h}
      PROVE  /\ hook'[k] = hook[k] /\ older'[k] = older[k] /\ Window(k)' = Window(k)
             /\ \A i \in Nat : \A a : Covers(k, i, a)' <=> Covers(k, i, a)
  BY SameJump DEF OthersSame, Window, Covers
<1>3. Captures(g)'
  <2> SUFFICES ASSUME NEW i \in DOMAIN stub[g].code, NEW k \in Hook,
                      stub[g].code[i].k = "jmp", stub[g].code[i].to = k
               PROVE  Captured(g, k, stub[g].code[i].ip)'
    BY <1>1 DEF Captures
  <2> SUFFICES ASSUME stub[g].code[i].ip \notin tangled'
               PROVE  Captured(g, k, stub[g].code[i].ip)'
    BY <1>1 DEF Captured
  <2>1. k # h /\ stub[g].code[i].ip \notin tangled
    BY <1>1 DEF Clear
  <2>2. Captured(g, k, stub[g].code[i].ip)
    BY <1>1 DEF Captures
  <2> QED BY <1>1, <1>2, <2>1, <2>2 DEF Captured
<1>4. Beneath(g)'
  <2> SUFFICES ASSUME hook[g].st = "live", NEW n \in 1..WindowSize,
                      hook[g].src + n - 1 \notin tangled'
               PROVE  Below(g, n)'
    BY <1>1 DEF Beneath
  <2>0. PICK a : a = hook[g].src + n - 1
    OBVIOUS
  <2>1. a \in Window(g)
    <3>1. hook[g].src \in Entry
      BY DEF LayerInv, HookInv, Shape, Life
    <3> QED BY <2>0, <3>1, SpanCells, WindowOf
  <2>2. h \in older[g] => a \notin Window(h) \/ (~hook[h].enabled /\ ~hook'[h].enabled)
    BY <2>0, <2>1 DEF Clear
  <2>3. ASSUME h \in older[g], NEW i \in Nat, Covers(h, i, a) PROVE ~hook[h].enabled
    <3>1. hook[h].enabled => hook[h].src \in Entry
      BY DEF LayerInv, HookInv, Shape, Life
    <3> QED BY <2>2, <2>3, <3>1, CoveredLies
  <2>4. ASSUME h \in older[g], NEW i \in Nat, Covers(h, i, a)' PROVE ~hook'[h].enabled
    <3>1. hook'[h].enabled => hook[h].src \in Entry /\ Covers(h, i, a)
      <4>1. hook'[h].enabled => hook'[h].src \in Entry
        BY DEF Shape, Life
      <4>2. hook'[h].enabled => hook'[h].src = hook[h].src
        BY DEF Clear
      <4>3. hook'[h].src = hook[h].src => Covers(h, i, a)
        BY <2>4, SameJump DEF Covers
      <4> QED BY <4>1, <4>2, <4>3
    <3> QED BY <2>2, <2>4, <3>1, CoveredLies
  <2>5. ASSUME NEW k \in older[g], NEW i \in Nat
        PROVE  Covers(k, i, a)' /\ hook'[k].enabled <=> Covers(k, i, a) /\ hook[k].enabled
    <3>1. CASE k = h
      BY <2>3, <2>4, <3>1
    <3>2. CASE k # h
      BY <1>1, <1>2, <3>2
    <3> QED BY <3>1, <3>2
  <2>6. Below(g, n)
    BY <1>1 DEF Beneath, Clear
  <2>7. /\ hook'[g].saved = hook[g].saved /\ hook'[g].src = hook[g].src
        /\ older'[g] = older[g] /\ Text(a)' = Text(a)
    BY <1>1 DEF Text
  <2>8. CASE /\ hook[g].saved[n] = Text(a)
             /\ \A k \in older[g], i \in Nat : Covers(k, i, a) => ~hook[k].enabled
    BY <2>0, <2>5, <2>7, <2>8 DEF Below
  <2>9. ASSUME NEW k \in older[g], NEW i \in Nat,
               hook[g].saved[n] = <<"jmp", k, i>>, Covers(k, i, a), hook[k].enabled,
               \A x \in older[g] \ {k}, j \in Nat :
                 Covers(x, j, a) /\ hook[x].enabled => x \in older[k]
        PROVE  Below(g, n)'
    <3>1. k # h
      BY <2>3, <2>9
    <3>2. older'[k] = older[k]
      BY <1>1, <1>2, <3>1
    <3>3. Covers(k, i, a)' /\ hook'[k].enabled
      BY <2>5, <2>9
    <3>4. \A x \in older[g] \ {k}, j \in Nat :
            Covers(x, j, a)' /\ hook'[x].enabled => x \in older'[k]
      BY <2>5, <2>9, <3>2
    <3> QED BY <2>0, <2>7, <2>9, <3>3, <3>4 DEF Below
  <2> QED BY <2>0, <2>6, <2>8, <2>9 DEF Below
<1> QED BY <1>3, <1>4

LEMMA OneLayer ==
  ASSUME LayerInv, HookInv', NEW h \in Hook, OthersSame(h), Clear(h),
         Beneath(h)', Captures(h)', \A a \in Addr \ tangled' : Top(a)'
  PROVE  LayerInv'
<1>1. \A g \in Hook : g # h => Beneath(g)' /\ Captures(g)'
  BY OthersLayer DEF HookInv
<1> QED BY <1>1 DEF LayerInv

LEMMA TopSame ==
  ASSUME LayerInv, NEW h \in Hook, OthersSame(h), mem' = mem, tangled \subseteq tangled',
         \A i \in Nat, a \in Addr \ tangled' :
           /\ Covers(h, i, a)' /\ Shows(h, i)' <=> Covers(h, i, a) /\ Shows(h, i)
           /\ Covers(h, i, a) /\ Shows(h, i) => older'[h] = older[h]
  PROVE  \A a \in Addr \ tangled' : Top(a)'
<1> SUFFICES ASSUME NEW a \in Addr \ tangled' PROVE Top(a)'
  OBVIOUS
<1>1. mem'[a] = mem[a] /\ Top(a)
  BY DEF LayerInv
<1> QED BY <1>1, TopKeeps

\* What h saved and captured is right as long as both are the same.
LEMMA OwnBeneath ==
  ASSUME LayerInv, NEW h \in Hook, OthersSame(h), hook'[h].st = hook[h].st,
         hook'[h].src = hook[h].src, hook'[h].saved = hook[h].saved, older'[h] = older[h],
         tangled \subseteq tangled'
  PROVE  Beneath(h)'
<1> SUFFICES ASSUME hook[h].st = "live", NEW n \in 1..WindowSize,
                    hook[h].src + n - 1 \notin tangled
             PROVE  Below(h, n)'
  BY DEF Beneath
<1>1. PICK a : a = hook[h].src + n - 1
  OBVIOUS
<1>2. \A k \in older[h] : k \in Hook \ {h}
  BY OlderHooks DEF LayerInv, HookInv, Stacks
<1>3. ASSUME NEW k \in older[h]
      PROVE  /\ hook'[k] = hook[k] /\ older'[k] = older[k]
             /\ \A i \in Nat : Covers(k, i, a)' <=> Covers(k, i, a)
  <2>1. k \in Hook \ {h}
    BY <1>2
  <2> QED BY <2>1, SameJump DEF OthersSame, Covers
<1>4. Text(a)' = Text(a)
  BY DEF Text
<1>5. Below(h, n)
  BY DEF LayerInv, Beneath
<1>6. CASE /\ hook[h].saved[n] = Text(a)
           /\ \A k \in older[h], i \in Nat : Covers(k, i, a) => ~hook[k].enabled
  BY <1>1, <1>3, <1>4, <1>6 DEF Below
<1>7. ASSUME NEW k \in older[h], NEW i \in Nat,
             hook[h].saved[n] = <<"jmp", k, i>>, Covers(k, i, a), hook[k].enabled,
             \A x \in older[h] \ {k}, j \in Nat :
               Covers(x, j, a) /\ hook[x].enabled => x \in older[k]
      PROVE  Below(h, n)'
  <2>1. \A x \in older[h] \ {k}, j \in Nat :
          Covers(x, j, a)' /\ hook'[x].enabled => x \in older'[k]
    BY <1>3, <1>7
  <2> QED BY <1>1, <1>3, <1>7, <2>1 DEF Below
<1> QED BY <1>1, <1>5, <1>6, <1>7 DEF Below

LEMMA OwnCaptures ==
  ASSUME LayerInv, NEW h \in Hook, OthersSame(h), Window(h)' = Window(h),
         stub'[h].code = stub[h].code, hook'[h].st = "live" => hook[h].st = "live",
         older'[h] = older[h], tangled \subseteq tangled'
  PROVE  Captures(h)'
<1>1. ASSUME NEW x \in Hook, x # h
      PROVE  hook'[x].enabled = hook[x].enabled /\ Window(x)' = Window(x)
  BY <1>1 DEF OthersSame, Window
<1> SUFFICES ASSUME NEW i \in DOMAIN stub[h].code, NEW x \in Hook,
                    stub[h].code[i].k = "jmp", stub[h].code[i].to = x
             PROVE  Captured(h, x, stub[h].code[i].ip)'
  BY DEF Captures
<1>2. Captured(h, x, stub[h].code[i].ip)
  BY DEF LayerInv, Captures
<1> QED BY <1>1, <1>2 DEF Captured

LEMMA NewBeginLayers ==
  ASSUME LayerInv, HookInv', NEW h \in Hook, NEW src \in Entry, NewBegin(h, src)
  PROVE  LayerInv'
<1>1. /\ OthersSame(h) /\ mem' = mem
      /\ hook[h].st = "none" /\ op[h] = "idle" /\ ~hook[h].enabled
      /\ hook'[h].st = "none" /\ ~hook'[h].enabled
      /\ stub'[h].code = <<>> /\ op'[h] = "new" /\ older' = older /\ tangled \subseteq tangled'
  BY NewBeginDoes DEF LayerInv, HookInv
<1>2. \A i \in Nat : ~Shows(h, i) /\ ~Shows(h, i)'
  BY <1>1 DEF Shows
<1>3. \A a \in Addr \ tangled' : Top(a)'
  BY <1>1, <1>2, TopSame
<1>4. Beneath(h)' /\ Captures(h)'
  BY <1>1 DEF Beneath, Captures
<1> QED BY <1>1, <1>3, <1>4, ClearOff, OneLayer

\* What a jump in memory says of its hook.
LEMMA JumpShown ==
  ASSUME LayerInv, NEW a \in Addr \ tangled, NEW h \in Hook, NEW i, mem[a] = <<"jmp", h, i>>
  PROVE  /\ i \in Nat /\ Covers(h, i, a) /\ Shows(h, i) /\ a \in Window(h)
         /\ \A k \in Hook \ {h}, j \in Nat : Covers(k, j, a) /\ Shows(k, j) => k \in older[h]
<1>1. Top(a)
  BY DEF LayerInv
<1>2. mem[a] # Text(a)
  BY DEF Text
<1>3. PICK g \in Hook, n \in Nat :
        /\ mem[a] = <<"jmp", g, n>> /\ Covers(g, n, a) /\ Shows(g, n)
        /\ \A k \in Hook \ {g}, j \in Nat : Covers(k, j, a) /\ Shows(k, j) => k \in older[g]
  BY <1>1, <1>2 DEF Top
<1>4. g = h /\ n = i
  BY <1>3
<1>5. hook[h].src \in Entry
  BY <1>3, <1>4, ShownLives DEF LayerInv, HookInv
<1> QED BY <1>3, <1>4, <1>5, CoveredLies

LEMMA JumpStart ==
  ASSUME NEW a \in Addr, NEW h \in Hook, h \in JumpsAt(mem, a)
  PROVE  mem[a] = <<"jmp", h, 1>>
<1>1. 1 \in DOMAIN JumpBytes(h)
  BY JumpLength
<1>2. a + 1 - 1 = a
  <2>1. a \in Nat
    BY HookAssumption
  <2> QED BY <2>1
<1>3. mem[a + 1 - 1] = <<"jmp", h, 1>>
  BY <1>1 DEF JumpsAt
<1> QED BY <1>2, <1>3

LEMMA NewDecodeLayers ==
  ASSUME LayerInv, HookInv', NEW h \in Hook, NewDecode(h)
  PROVE  LayerInv'
<1> DEFINE d == Insn(mem, stub[h].back)
<1>1. /\ OthersSame(h) /\ op[h] = "new" /\ stub[h].back \in Addr
      /\ stub'[h].code = Append(stub[h].code, d) /\ stub[h].code \in Seq(Insns)
      /\ UNCHANGED <<mem, call, hook, op, older, tangled>>
  BY NewDecodeDoes DEF LayerInv, HookInv, history
<1>2. /\ hook[h].st = "none" /\ ~hook[h].enabled /\ hook[h].src \in Entry
      /\ hook[h].src <= stub[h].back /\ ~Covered(h)
  BY <1>1 DEF NewDecode, LayerInv, HookInv, Shape, Life
<1>3. \A i \in Nat : ~Shows(h, i) /\ ~Shows(h, i)'
  BY <1>1, <1>2 DEF Shows
<1>4. \A a \in Addr \ tangled' : Top(a)'
  BY <1>1, <1>3, TopSame
<1>5. Clear(h)
  BY <1>1, <1>2, ClearOff
<1>6. stub[h].back \in Window(h)
  <2>1. MAX_HOOK_SIZE <= WindowSize /\ MAX_HOOK_SIZE \in Nat /\ Addr \subseteq Nat
    BY HookAssumption DEF MAX_HOOK_SIZE, WindowSize
  <2>2. stub[h].back \in Nat /\ hook[h].src \in Nat
    BY <1>1, <1>2, <2>1, HookAssumption
  <2>3. stub[h].back \in Span(hook[h].src, WindowSize)
    BY <1>2, <2>1, <2>2, Sizes DEF Covered, Span
  <2> QED BY <1>2, <2>3, WindowOf
<1>7. ASSUME NEW x \in Hook, d.k = "jmp", d.to = x
      PROVE  Captured(h, x, d.ip)
  <2> SUFFICES ASSUME stub[h].back \notin tangled
               PROVE  x # h /\ hook[x].enabled /\ stub[h].back \in Window(x)
    BY <1>2, <1>6 DEF Insn, Captured
  <2>1. x \in JumpsAt(mem, stub[h].back)
    BY <1>7 DEF Insn
  <2>2. mem[stub[h].back] = <<"jmp", x, 1>>
    BY <1>1, <2>1, JumpStart
  <2>3. Shows(x, 1) /\ stub[h].back \in Window(x)
    BY <1>1, <2>2, JumpShown
  <2>4. x # h
    BY <1>3, <2>3
  <2>5. Overlaps(x, h)
    BY <1>6, <2>3 DEF Overlaps
  <2>6. op[x] = "idle"
    BY <1>1, <2>4, <2>5 DEF LayerInv, HookInv, Stacks
  <2> QED BY <2>3, <2>4, <2>6 DEF Shows
<1> HIDE DEF d
<1>8. Captures(h)'
  <2> SUFFICES ASSUME NEW i \in DOMAIN stub'[h].code, NEW x \in Hook,
                      stub'[h].code[i].k = "jmp", stub'[h].code[i].to = x
               PROVE  Captured(h, x, stub'[h].code[i].ip)
    BY <1>1 DEF Captures, Captured, Window
  <2>1. CASE i \in DOMAIN stub[h].code
    <3>1. stub'[h].code[i] = stub[h].code[i]
      BY <1>1, <2>1
    <3> QED BY <2>1, <3>1 DEF LayerInv, Captures
  <2>2. CASE i \notin DOMAIN stub[h].code
    <3>1. stub'[h].code[i] = d
      BY <1>1, <2>2
    <3> QED BY <1>7, <3>1
  <2> QED BY <2>1, <2>2
<1>9. Beneath(h)'
  BY <1>1, <1>2 DEF Beneath
<1> QED BY <1>1, <1>4, <1>5, <1>8, <1>9, OneLayer

LEMMA NewSaveLayers ==
  ASSUME LayerInv, HookInv', NEW h \in Hook, NewSave(h)
  PROVE  LayerInv'
<1>1. /\ OthersSame(h) /\ op[h] = "new" /\ op'[h] = "idle" /\ mem' = mem
      /\ hook[h].st = "none" /\ hook[h].src \in Entry /\ ~hook[h].enabled
      /\ hook'[h].src = hook[h].src /\ ~hook'[h].enabled /\ stub'[h].code = stub[h].code
      /\ IF Fits(h)
         THEN /\ hook'[h].st = "live" /\ older'[h] = Live
              /\ hook'[h].saved = [i \in 1..WindowSize |-> mem[hook[h].src + i - 1]]
         ELSE hook' = hook /\ older' = older
      /\ tangled' = tangled
  BY NewSaveDoes DEF LayerInv, HookInv, history
<1>2. \A i \in Nat : ~Shows(h, i) /\ ~Shows(h, i)'
  BY <1>1 DEF Shows
<1>3. \A a \in Addr \ tangled' : Top(a)'
  BY <1>1, <1>2, TopSame
<1>4. Clear(h)
  BY <1>1, ClearOff
<1>5. ASSUME NEW x \in Hook
      PROVE  (x # h => hook'[x] = hook[x] /\ older'[x] = older[x]) /\ Window(x)' = Window(x)
             /\ \A i \in Nat : \A a : Covers(x, i, a)' <=> Covers(x, i, a)
  BY <1>1, SameJump DEF OthersSame, Window, Covers
<1>6. CASE ~Fits(h)
  <2>1. Beneath(h)'
    BY <1>1, <1>6 DEF Beneath
  <2>2. Captures(h)'
    BY <1>1, <1>5, <1>6, OwnCaptures
  <2> QED BY <1>1, <1>3, <1>4, <2>1, <2>2, OneLayer
<1>7. CASE Fits(h)
  <2>1. Captures(h)'
    <3> SUFFICES ASSUME NEW i \in DOMAIN stub[h].code, NEW x \in Hook,
                        stub[h].code[i].k = "jmp", stub[h].code[i].to = x
                 PROVE  Captured(h, x, stub[h].code[i].ip)'
      BY <1>1 DEF Captures
    <3>1. Captured(h, x, stub[h].code[i].ip)
      BY DEF LayerInv, Captures
    <3>2. hook[x].enabled => x \in Live
      BY ShownLives DEF LayerInv, HookInv, Live
    <3> QED BY <1>1, <1>5, <1>7, <3>1, <3>2 DEF Captured
  <2>2. ASSUME NEW n \in 1..WindowSize, hook[h].src + n - 1 \notin tangled PROVE Below(h, n)'
    <3>1. PICK a : a = hook[h].src + n - 1
      OBVIOUS
    <3>2. a \in Window(h) /\ a \in Addr \ tangled /\ hook'[h].saved[n] = mem[a] /\ a = hook'[h].src + n - 1
      <4>1. hook'[h].saved[n] = mem[hook[h].src + n - 1]
        BY <1>1, <1>7
      <4>2. a \in Span(hook[h].src, WindowSize) /\ Span(hook[h].src, WindowSize) \subseteq Addr
        BY <1>1, <3>1, SpanCells
      <4> QED BY <1>1, <2>2, <3>1, <4>1, <4>2, WindowOf
    <3>3. ASSUME NEW x \in Live, NEW i \in Nat, Covers(x, i, a), hook[x].enabled
          PROVE  Shows(x, i)
      <4>1. x \in Hook /\ x # h /\ hook[x].src \in Entry
        BY <1>1, <3>3, ShownLives DEF Live, LayerInv, HookInv
      <4>2. Overlaps(x, h)
        BY <3>2, <3>3, <4>1, CoveredLies DEF Overlaps
      <4>3. op[x] = "idle"
        BY <1>1, <4>1, <4>2 DEF LayerInv, HookInv, Stacks
      <4> QED BY <3>3, <4>3 DEF Shows
    <3>4. \A x \in Live : x \in Hook /\ x # h /\ hook'[x] = hook[x]
      BY <1>1, <1>5 DEF Live
    <3>5. CASE mem[a] = Text(a) /\ \A x \in Hook, i \in Nat : Covers(x, i, a) => ~Shows(x, i)
      <4>1. \A x \in Live, i \in Nat : Covers(x, i, a)' => ~hook'[x].enabled
        BY <1>5, <3>3, <3>4, <3>5
      <4> QED BY <1>1, <1>7, <3>2, <3>5, <4>1 DEF Below, Text
    <3>6. ASSUME NEW x \in Hook, NEW i \in Nat,
                 mem[a] = <<"jmp", x, i>>, Covers(x, i, a), Shows(x, i),
                 \A k \in Hook \ {x}, j \in Nat : Covers(k, j, a) /\ Shows(k, j) => k \in older[x]
          PROVE  Below(h, n)'
      <4>1. x # h /\ x \in Live /\ hook[x].src \in Entry
        BY <1>2, <3>6, ShownLives DEF Live, LayerInv, HookInv
      <4>2. hook[x].enabled
        <5>1. Overlaps(x, h)
          BY <3>2, <3>6, <4>1, CoveredLies DEF Overlaps
        <5>2. op[x] = "idle"
          BY <1>1, <4>1, <5>1 DEF LayerInv, HookInv, Stacks
        <5> QED BY <3>6, <5>2 DEF Shows
      <4>3. \A k \in Live \ {x}, j \in Nat : Covers(k, j, a)' /\ hook'[k].enabled => k \in older'[x]
        BY <1>5, <3>3, <3>4, <3>6, <4>1
      <4>4. Covers(x, i, a)' /\ hook'[x].enabled
        BY <1>5, <3>4, <3>6, <4>1, <4>2
      <4> QED BY <1>1, <1>7, <3>2, <3>6, <4>1, <4>3, <4>4 DEF Below
    <3>7. Top(a)
      BY <3>2 DEF LayerInv
    <3> QED BY <3>5, <3>6, <3>7 DEF Top
  <2>3. Beneath(h)'
    BY <1>1, <2>2 DEF Beneath
  <2> QED BY <1>1, <1>3, <1>4, <2>1, <2>3, OneLayer
<1> QED BY <1>6, <1>7

LEMMA BeginsLayers ==
  ASSUME LayerInv, ~panicked, HookInv', NEW h \in Hook, OthersSame(h),
         NEW m \in {"enable", "disable", "drop"}, Begins(h, m)
  PROVE  LayerInv'
<1>1. /\ hook[h].st = "live" /\ op[h] = "idle" /\ op'[h] = m
      /\ UNCHANGED <<mem, hook, stub, older>> /\ tangled \subseteq tangled'
      /\ \A g \in Hook \ {h} : \A a \in Window(g) \cap Window(h) :
           a \notin tangled' => op[g] = "idle" /\ g \in older[h]
  BY BeginsNewest DEF LayerInv, HookInv
<1>2. Clear(h)
  BY <1>1, ClearTop
<1>3. Beneath(h)' /\ Captures(h)'
  BY <1>1, OwnBeneath, OwnCaptures DEF Window
<1>4. ASSUME NEW i \in Nat, NEW a \in Addr
      PROVE  Covers(h, i, a)' /\ Shows(h, i)' <=> Covers(h, i, a) /\ Shows(h, i)
  <2>1. Covers(h, i, a)' <=> Covers(h, i, a)
    BY <1>1, SameJump DEF Covers
  <2>2. ASSUME i \in DOMAIN JumpBytes(h) PROVE Shows(h, i)' <=> Shows(h, i)
    <3>1. Shows(h, i) <=> hook[h].enabled
      BY <1>1 DEF Shows
    <3>2. CASE m = "enable"
      BY <1>1, <2>2, <3>1, <3>2 DEF Begins, Shows
    <3>3. CASE m \in {"disable", "drop"}
      <4>1. i \in DOMAIN hook[h].saved
        BY <1>1, <2>2, Sizes DEF LayerInv, HookInv, Shape, Life
      <4> QED BY <1>1, <3>1, <3>3, <4>1 DEF Begins, Shows
    <3> QED BY <3>2, <3>3
  <2> QED BY <2>1, <2>2 DEF Covers
<1>5. \A a \in Addr \ tangled' : Top(a)'
  BY <1>1, <1>4, TopSame
<1> QED BY <1>2, <1>3, <1>5, OneLayer

LEMMA AnswersLayers ==
  ASSUME LayerInv, ~panicked, HookInv', NEW h \in Hook, OthersSame(h), Answers(h)
  PROVE  LayerInv'
<1>1. /\ op[h] \in {"enable", "disable"} /\ call[h].st = "done" /\ op'[h] = "idle"
      /\ UNCHANGED <<mem, stub, older, tangled>> /\ hook'[h].st = hook[h].st
      /\ hook'[h].src = hook[h].src /\ hook'[h].saved = hook[h].saved
      /\ hook'[h].enabled <=> IF op[h] = "enable" THEN call[h].ok ELSE ~call[h].ok
  BY DEF Answers, history
<1>2. Newest(h) /\ Sends(h)
  BY <1>1, BusyNewest DEF LayerInv
<1>3. Clear(h)
  BY <1>1, <1>2, ClearNewest
<1>4. Beneath(h)' /\ Captures(h)'
  BY <1>1, OwnBeneath, OwnCaptures DEF Window
<1>5. ASSUME NEW i \in Nat, NEW a \in Addr
      PROVE  Covers(h, i, a)' /\ Shows(h, i)' <=> Covers(h, i, a) /\ Shows(h, i)
  <2>1. Covers(h, i, a)' <=> Covers(h, i, a)
    BY <1>1, SameJump DEF Covers
  <2>2. ASSUME i \in DOMAIN JumpBytes(h) PROVE Shows(h, i)' <=> Shows(h, i)
    <3>1. Shows(h, i)' <=> hook'[h].enabled
      BY <1>1 DEF Shows
    <3>2. CASE op[h] = "enable"
      <4>1. call[h].left = IF call[h].ok THEN {} ELSE DOMAIN JumpBytes(h)
        BY <1>1, <1>2, <3>2 DEF Sends
      <4> QED BY <1>1, <2>2, <3>1, <3>2, <4>1 DEF Shows
    <3>3. CASE op[h] = "disable"
      <4>1. call[h].left = IF call[h].ok THEN {} ELSE DOMAIN hook[h].saved
        BY <1>1, <1>2, <3>3 DEF Sends
      <4>2. i \in DOMAIN hook[h].saved
        BY <1>2, <2>2, Sizes DEF Newest, LayerInv, HookInv, Shape, Life
      <4> QED BY <1>1, <3>1, <3>3, <4>1, <4>2 DEF Shows
    <3> QED BY <1>1, <3>2, <3>3
  <2> QED BY <2>1, <2>2 DEF Covers
<1>6. \A a \in Addr \ tangled' : Top(a)'
  BY <1>1, <1>5, TopSame
<1> QED BY <1>3, <1>4, <1>6, OneLayer

LEMMA ReleasesLayers ==
  ASSUME LayerInv, ~panicked, HookInv', NEW h \in Hook, OthersSame(h), Releases(h)
  PROVE  LayerInv'
<1>1. /\ op'[h] = "idle" /\ mem' = mem /\ hook'[h].st = "dropped" /\ ~hook'[h].enabled
      /\ stub'[h].code = <<>>
      /\ tangled' = IF op[h] = "drop" /\ ~call[h].ok THEN tangled \cup Window(h) ELSE tangled
  BY DEF Releases
<1>2. Beneath(h)' /\ Captures(h)'
  BY <1>1 DEF Beneath, Captures
<1>3. \A i \in Nat : ~Shows(h, i)'
  BY <1>1 DEF Shows
<1>4. Clear(h) /\ \A i \in Nat, a \in Addr \ tangled' : Covers(h, i, a) => ~Shows(h, i)
  <2>1. CASE Ready(h) /\ ~hook[h].enabled
    <3>1. \A i \in Nat : ~Shows(h, i)
      BY <2>1 DEF Shows, Ready, Inside
    <3> QED BY <1>1, <2>1, <3>1, ClearOff
  <2>2. CASE op[h] = "drop" /\ call[h].st = "done"
    <3>1. Newest(h) /\ Sends(h)
      BY <2>2, BusyNewest DEF LayerInv
    <3>2. Clear(h)
      BY <1>1, <3>1, ClearNewest
    <3>3. ASSUME NEW i \in Nat, NEW a \in Addr \ tangled', Covers(h, i, a) PROVE ~Shows(h, i)
      <4>1. a \in Window(h)
        BY <3>1, <3>3, CoveredLies DEF Newest
      <4>2. call[h].left = {}
        BY <1>1, <2>2, <3>1, <4>1 DEF Sends
      <4> QED BY <2>2, <4>2 DEF Shows
    <3> QED BY <3>2, <3>3
  <2> QED BY <2>1, <2>2 DEF Releases
<1>5. \A a \in Addr \ tangled' : Top(a)'
  BY <1>1, <1>3, <1>4, TopSame
<1> QED BY <1>2, <1>4, <1>5, OneLayer

LEMMA FinishesLayers ==
  ASSUME LayerInv, ~panicked, HookInv', NEW h \in Hook, OthersSame(h), Finishes(h)
  PROVE  LayerInv'
<1>1. /\ op[h] \in {"enable", "disable", "drop"} /\ UNCHANGED <<mem, hook, stub, op, older, tangled>>
      /\ call'[h].left = call[h].left
  BY DEF Finishes, history
<1>2. Clear(h)
  BY <1>1, BusyNewest, ClearNewest DEF LayerInv
<1>3. Beneath(h)' /\ Captures(h)'
  BY <1>1, OwnBeneath, OwnCaptures DEF Window
<1>4. \A i \in Nat, a \in Addr :
        Covers(h, i, a)' /\ Shows(h, i)' <=> Covers(h, i, a) /\ Shows(h, i)
  BY <1>1, SameJump DEF Covers, Shows
<1>5. \A a \in Addr \ tangled' : Top(a)'
  BY <1>1, <1>4, TopSame
<1> QED BY <1>2, <1>3, <1>5, OneLayer

LEMMA StoresLayers ==
  ASSUME LayerInv, ~panicked, HookInv', NEW h \in Hook, OthersSame(h),
         NEW i \in DOMAIN call[h].src, Stores(h, i)
  PROVE  LayerInv'
<1>0. PICK c : c = call[h].dst + i - 1
  OBVIOUS
<1>1. /\ op[h] \in {"enable", "disable", "drop"} /\ call[h].st = "writing"
      /\ UNCHANGED <<hook, stub, op, older, tangled>>
      /\ i \in call[h].left /\ call'[h].left = call[h].left \ {i}
      /\ mem' = [mem EXCEPT ![c] = call[h].src[i]]
  BY <1>0 DEF Stores, history
<1>2. /\ Newest(h) /\ Sends(h) /\ c \in Window(h) /\ c \in Addr /\ i \in 1..WindowSize
      /\ c = hook[h].src + i - 1 /\ hook[h].src \in Nat
  <2>1. Newest(h) /\ Sends(h)
    BY <1>1, BusyNewest DEF LayerInv
  <2>2. hook[h].src \in Nat
    BY <2>1, HookAssumption DEF Newest
  <2>3. c \in Window(h) /\ c \in Addr /\ i \in 1..WindowSize
    BY <1>0, <1>1, SendsInWindow DEF LayerInv, HookInv
  <2> QED BY <1>0, <2>1, <2>2, <2>3 DEF Sends
<1>3. mem'[c] = call[h].src[i] /\ \A a \in Addr : a # c => mem'[a] = mem[a]
  BY <1>1, <1>2 DEF LayerInv, HookInv, Shape, HookTypes, Functions
<1>4. Clear(h)
  BY <1>1, <1>2, ClearNewest
<1>5. Beneath(h)' /\ Captures(h)'
  BY <1>1, OwnBeneath, OwnCaptures DEF Window
<1>6. \A j \in Nat, a \in Addr : Covers(h, j, a)' <=> Covers(h, j, a)
  BY <1>1, SameJump DEF Covers
<1>7. ASSUME NEW a \in Addr \ tangled, a # c PROVE Top(a)'
  <2>1. ASSUME NEW j \in Nat, Covers(h, j, a) PROVE Shows(h, j)' <=> Shows(h, j)
    <3>1. j # i
      BY <1>2, <1>7, <2>1 DEF Covers
    <3> QED BY <1>1, <3>1 DEF Shows
  <2>2. \A j \in Nat : Covers(h, j, a)' /\ Shows(h, j)' <=> Covers(h, j, a) /\ Shows(h, j)
    BY <1>6, <2>1
  <2>3. Top(a) /\ mem'[a] = mem[a] /\ older'[h] = older[h]
    BY <1>1, <1>3, <1>7 DEF LayerInv
  <2> QED BY <2>2, <2>3, TopKeeps
\* At c, if it is not entangled, hooks other than h are older and show what they showed.
<1>8. ASSUME c \notin tangled, NEW k \in Hook \ {h}, NEW j \in Nat
      PROVE  /\ Covers(k, j, c)' /\ Shows(k, j)' <=> Covers(k, j, c) /\ Shows(k, j)
             /\ older'[k] = older[k]
             /\ Covers(k, j, c) /\ Shows(k, j) => k \in older[h] /\ hook[k].enabled
             /\ Covers(k, j, c) /\ k \in older[h] /\ hook[k].enabled => Shows(k, j)
  <2>1. Covers(k, j, c)' /\ Shows(k, j)' <=> Covers(k, j, c) /\ Shows(k, j)
    BY SameJump DEF OthersSame, Covers, Shows
  <2>2. ASSUME Covers(k, j, c), hook[k].enabled \/ Shows(k, j)
        PROVE  op[k] = "idle" /\ k \in older[h]
    <3>1. hook[k].src \in Entry
      BY <2>2, ShownLives DEF LayerInv, HookInv
    <3>2. c \in Window(k)
      BY <2>2, <3>1, CoveredLies
    <3> QED BY <1>2, <1>8, <3>2 DEF Newest, Overlaps
  <2>3. op[k] = "idle" => (Shows(k, j) <=> hook[k].enabled)
    BY DEF Shows
  <2> QED BY <2>1, <2>2, <2>3 DEF OthersSame
<1>9. ASSUME c \notin tangled, op[h] = "enable" PROVE Top(c)'
  <2>1. mem'[c] = <<"jmp", h, i>> /\ i \in DOMAIN JumpBytes(h)
    BY <1>2, <1>3, <1>9 DEF Sends, JumpBytes
  <2>2. Covers(h, i, c)' /\ Shows(h, i)' /\ i \in Nat
    BY <1>1, <1>2, <1>6, <1>9, <2>1 DEF Covers, Shows
  <2>3. \A k \in Hook \ {h}, j \in Nat : Covers(k, j, c)' /\ Shows(k, j)' => k \in older'[h]
    BY <1>1, <1>8, <1>9
  <2> QED BY <2>1, <2>2, <2>3 DEF Top
<1>10. ASSUME c \notin tangled, op[h] \in {"disable", "drop"} PROVE Top(c)'
  <2>1. mem'[c] = hook[h].saved[i]
    BY <1>2, <1>3, <1>10 DEF Sends
  <2>2. \A j \in Nat : Covers(h, j, c)' => ~Shows(h, j)'
    <3>1. ASSUME NEW j \in Nat, Covers(h, j, c) PROVE j = i
      BY <1>2, <3>1 DEF Covers
    <3> QED BY <1>1, <1>2, <1>6, <1>10, <3>1 DEF Shows
  <2>3. Below(h, i)
    BY <1>2, <1>10 DEF Newest, LayerInv, Beneath
  <2>4. Text(c)' = Text(c)
    BY DEF Text
  <2>5. ASSUME hook[h].saved[i] = Text(c),
               \A k \in older[h], j \in Nat : Covers(k, j, c) => ~hook[k].enabled
        PROVE  Top(c)'
    <3>1. \A k \in Hook, j \in Nat : Covers(k, j, c)' => ~Shows(k, j)'
      BY <1>8, <1>10, <2>2, <2>5
    <3> QED BY <2>1, <2>4, <2>5, <3>1 DEF Top
  <2>6. ASSUME NEW k \in older[h], NEW j \in Nat,
               hook[h].saved[i] = <<"jmp", k, j>>, Covers(k, j, c), hook[k].enabled,
               \A x \in older[h] \ {k}, n \in Nat :
                 Covers(x, n, c) /\ hook[x].enabled => x \in older[k]
        PROVE  Top(c)'
    <3>1. k \in Hook \ {h}
      BY <2>6, OlderHooks DEF LayerInv, HookInv, Stacks
    <3>2. Covers(k, j, c)' /\ Shows(k, j)' /\ older'[k] = older[k]
      BY <1>8, <1>10, <2>6, <3>1
    <3>3. ASSUME NEW x \in Hook \ {k}, NEW n \in Nat, Covers(x, n, c)', Shows(x, n)'
          PROVE  x \in older[k]
      <4>1. x # h
        BY <2>2, <3>3
      <4>2. Covers(x, n, c) /\ x \in older[h] /\ hook[x].enabled
        BY <1>8, <1>10, <3>3, <4>1
      <4> QED BY <2>6, <4>2
    <3> QED BY <2>1, <2>6, <3>1, <3>2, <3>3 DEF Top
  <2> QED BY <1>2, <2>3, <2>5, <2>6 DEF Below
<1>11. \A a \in Addr \ tangled' : Top(a)'
  BY <1>1, <1>7, <1>9, <1>10
<1> QED BY <1>4, <1>5, <1>11, OneLayer

LEMMA LayersStill ==
  ASSUME LayerInv, HookInv', UNCHANGED <<mem, call, hook, stub, op, older, tangled>>
  PROVE  LayerInv'
<1>1. ASSUME NEW h \in Hook, NEW i \in Nat
      PROVE  /\ \A a : Covers(h, i, a)' <=> Covers(h, i, a)
             /\ Shows(h, i)' <=> Shows(h, i)
  BY SameJump DEF Covers, Shows
<1>2. ASSUME NEW a \in Addr \ tangled PROVE Top(a)'
  <2>1. Top(a)
    BY DEF LayerInv
  <2> QED BY <1>1, <2>1 DEF Top, Text
<1>3. ASSUME NEW g \in Hook PROVE Beneath(g)'
  <2>1. Beneath(g) /\ older[g] \subseteq Hook
    BY OlderHooks DEF LayerInv, HookInv
  <2> SUFFICES ASSUME hook[g].st = "live", NEW n \in 1..WindowSize,
                      hook[g].src + n - 1 \notin tangled
               PROVE  Below(g, n)'
    BY DEF Beneath
  <2>2. Below(g, n)
    BY <2>1 DEF Beneath
  <2> QED BY <1>1, <2>1, <2>2 DEF Below, Text
<1>4. ASSUME NEW g \in Hook PROVE Captures(g)'
  BY DEF LayerInv, Captures, Captured, Window
<1> QED BY <1>2, <1>3, <1>4 DEF LayerInv

LEMMA LayerInit == Init => LayerInv
<1> SUFFICES ASSUME Init PROVE LayerInv
  OBVIOUS
<1>1. ASSUME NEW a \in Addr PROVE Top(a)
  <2>1. \A h \in Hook, i \in Nat : ~Shows(h, i)
    BY DEF Init, Shows
  <2>2. mem[a] = Text(a)
    BY DEF Init
  <2> QED BY <2>1, <2>2 DEF Top
<1>2. ASSUME NEW g \in Hook PROVE Beneath(g) /\ Captures(g)
  BY DEF Init, Beneath, Captures
<1> QED BY <1>1, <1>2, HookInit DEF LayerInv

LEMMA LayerNext ==
  ASSUME LayerInv, [Next]_vars
  PROVE  LayerInv'
<1>1. HookInv'
  BY HookNext DEF LayerInv
<1>2. ASSUME NEW h \in Hook, HookStep(h) PROVE LayerInv'
  <2>1. /\ OthersSame(h) /\ ~panicked
        /\ \/ \E src \in Entry : NewBegin(h, src)
           \/ NewDecode(h) \/ NewSave(h)
           \/ \E m \in {"enable", "disable", "drop"} : Begins(h, m)
           \/ Answers(h) \/ Releases(h)
           \/ \E i \in DOMAIN call[h].src : Stores(h, i)
           \/ Finishes(h)
    BY <1>2, Effects, NotStopped DEF LayerInv, HookInv
  <2>2. CASE \E src \in Entry : NewBegin(h, src)
    BY <1>1, <2>2, NewBeginLayers
  <2>3. CASE NewDecode(h)
    BY <1>1, <2>3, NewDecodeLayers
  <2>4. CASE NewSave(h)
    BY <1>1, <2>4, NewSaveLayers
  <2>5. CASE \E m \in {"enable", "disable", "drop"} : Begins(h, m)
    BY <1>1, <2>1, <2>5, BeginsLayers
  <2>6. CASE Answers(h)
    BY <1>1, <2>1, <2>6, AnswersLayers
  <2>7. CASE Releases(h)
    BY <1>1, <2>1, <2>7, ReleasesLayers
  <2>8. CASE \E i \in DOMAIN call[h].src : Stores(h, i)
    BY <1>1, <2>1, <2>8, StoresLayers
  <2>9. CASE Finishes(h)
    BY <1>1, <2>1, <2>9, FinishesLayers
  <2> QED BY <2>1, <2>2, <2>3, <2>4, <2>5, <2>6, <2>7, <2>8, <2>9
<1>3. ASSUME NEW c \in Cpu, CpuStep(c) PROVE LayerInv'
  BY <1>1, <1>3, CpuStill, LayersStill
<1>4. CASE UNCHANGED vars
  BY <1>1, <1>4, LayersStill DEF vars, hookVars
<1> QED BY <1>2, <1>3, <1>4 DEF Next

\* Code, and the trampolines of other hooks, jump to a hook only while its own trampoline
\* is there to be returned through (`original`, khook.rs:314): whoever calls what, in any
\* order and with any write or destructor refused, a jump outlives its hook only at a
\* byte where hooks were used out of turn or that a refused destructor left behind.
THEOREM JumpsAlwaysLand == Spec => []NoDanglingJump
<1>1. LayerInv => NoDanglingJump
  <2> SUFFICES ASSUME LayerInv, NEW h \in Hook,
                      \/ \E a \in Addr \ tangled : h \in JumpsAt(mem, a)
                      \/ \E g \in Hook : \E i \in DOMAIN stub[g].code :
                           /\ stub[g].code[i].k = "jmp" /\ stub[g].code[i].to = h
                           /\ stub[g].code[i].ip \notin tangled
               PROVE  stub[h].alive
    BY DEF NoDanglingJump
  <2>1. ASSUME NEW a \in Addr \ tangled, h \in JumpsAt(mem, a) PROVE stub[h].alive
    <3>1. mem[a] = <<"jmp", h, 1>>
      BY <2>1, JumpStart
    <3>2. Shows(h, 1)
      BY <3>1, JumpShown
    <3> QED BY <3>2, ShownLives DEF LayerInv, HookInv
  <2>2. ASSUME NEW g \in Hook, NEW i \in DOMAIN stub[g].code, stub[g].code[i].k = "jmp",
               stub[g].code[i].to = h, stub[g].code[i].ip \notin tangled
        PROVE  stub[h].alive
    <3>1. hook[h].enabled
      BY <2>2 DEF LayerInv, Captures, Captured
    <3> QED BY <3>1, ShownLives DEF LayerInv, HookInv
  <2> QED BY <2>1, <2>2
<1>2. LayerInv /\ [Next]_vars => LayerInv'
  BY LayerNext
<1> QED BY <1>1, <1>2, LayerInit, PTL DEF Spec

(***************************************************************************)
(* What is_enabled says.  A trampoline begins with the jump of the newest  *)
(* hook that was installed at its address when it was made, so that a call *)
(* of the function goes down from hook to hook, each installed one in its  *)
(* turn.  It is enough that no jump reaches into the jump of another       *)
(* function; the windows may overlap.  Nothing is said of a function at    *)
(* whose jump hooks have been entangled.                                   *)
(***************************************************************************)
JumpsApart == \A s, t \in Entry : Span(s, AbsJumpSize) \cap Span(t, AbsJumpSize) # {} => s = t

\* No byte of a jump at s is entangled.
Clean(s) == Span(s, AbsJumpSize) \cap tangled = {}

\* The hooks installed at the address of g, of those that are older.
Elders(g) == {x \in IF hook[g].st = "live" THEN older[g] ELSE Hook :
                hook[x].enabled /\ hook[x].src = hook[g].src}

\* k is in X and newer than all others in it.
NewestOf(k, X) == k \in X /\ \A x \in X \ {k} : x \in older[k]

LeadsDown(g) ==
  /\ hook[g].st = "live" => stub[g].code # <<>>
  /\ (hook[g].st = "live" \/ op[g] = "new") /\ stub[g].code # <<>> /\ Clean(hook[g].src) =>
       IF Elders(g) = {} THEN stub[g].code[1].k # "jmp"
       ELSE \E k \in Elders(g) : LeadsTo(g, k) /\ NewestOf(k, Elders(g))

\* Age is an order.
Ordered == \A x, y, z \in Live : x \in older[y] /\ y \in older[z] => x \in older[z]

ChainInv ==
  /\ PathInv /\ LayerInv
  /\ \A g \in Hook : LeadsDown(g)
  /\ Ordered /\ IsFiniteSet(Live)

LEMMA JumpIndex ==
  ASSUME NEW h \in Hook
  PROVE  /\ 1 \in DOMAIN JumpBytes(h) /\ DOMAIN JumpBytes(h) \subseteq Nat
         /\ Len(JumpBytes(h)) \in Nat /\ Len(JumpBytes(h)) < MAX_HOOK_SIZE
         /\ MAX_HOOK_SIZE \in Nat /\ MAX_HOOK_SIZE <= WindowSize
<1>1. AbsJumpSize \in Nat /\ HOOK_SIZE_ABSOLUTE \in Nat /\ Slack \in Nat /\ AbsJumpSize < HOOK_SIZE_ABSOLUTE
  BY HookAssumption
<1>2. /\ DOMAIN JumpBytes(h) = 1..Len(JumpBytes(h)) /\ Len(JumpBytes(h)) \in Nat \ {0}
      /\ Len(JumpBytes(h)) <= AbsJumpSize
  BY JumpLength
<1> HIDE DEF JumpBytes
<1> QED BY <1>1, <1>2 DEF MAX_HOOK_SIZE, WindowSize

LEMMA InJump ==
  ASSUME NEW h \in Hook, hook[h].src \in Entry, NEW i, NEW a, Covers(h, i, a)
  PROVE  /\ a \in Span(hook[h].src, AbsJumpSize) /\ a \in Window(h) /\ a \in Addr
         /\ i \in Nat /\ a = hook[h].src + i - 1 /\ hook[h].src \in Nat
<1>1. i \in 1..Len(JumpBytes(h)) /\ Len(JumpBytes(h)) <= AbsJumpSize /\ a = hook[h].src + i - 1
  BY JumpLength DEF Covers
<1>2. /\ a \in Addr /\ a \in Window(h) /\ i \in Nat /\ hook[h].src \in Nat
      /\ AbsJumpSize \in Nat /\ Len(JumpBytes(h)) \in Nat
  BY CoveredLies, JumpLength, HookAssumption
<1> HIDE DEF JumpBytes
<1>3. hook[h].src <= a /\ a < hook[h].src + AbsJumpSize
  BY <1>1, <1>2
<1> QED BY <1>1, <1>2, <1>3 DEF Span

\* Jumps that share a byte are at one address.
LEMMA OneAddress ==
  ASSUME JumpsApart, NEW h \in Hook, NEW g \in Hook, hook[h].src \in Entry, hook[g].src \in Entry,
         NEW i, NEW j, NEW a, Covers(h, i, a), Covers(g, j, a)
  PROVE  hook[h].src = hook[g].src /\ i = j
<1>1. /\ a \in Span(hook[h].src, AbsJumpSize) /\ a = hook[h].src + i - 1 /\ hook[h].src \in Nat /\ i \in Nat
      /\ a \in Span(hook[g].src, AbsJumpSize) /\ a = hook[g].src + j - 1 /\ j \in Nat
  BY InJump
<1>2. hook[h].src = hook[g].src
  BY <1>1 DEF JumpsApart
<1> QED BY <1>1, <1>2

LEMMA CoversFirst ==
  ASSUME NEW h \in Hook, hook[h].src \in Entry
  PROVE  /\ Covers(h, 1, hook[h].src) /\ hook[h].src \in Window(h) /\ hook[h].src \in Addr
         /\ hook[h].src \in Span(hook[h].src, AbsJumpSize)
<1>1. hook[h].src \in Nat /\ 1 \in DOMAIN JumpBytes(h)
  BY HookAssumption, JumpIndex
<1>2. hook[h].src + 1 - 1 = hook[h].src
  BY <1>1
<1>3. Covers(h, 1, hook[h].src)
  BY <1>1, <1>2 DEF Covers
<1> QED BY <1>3, InJump

\* The hooks installed at an address.
Installed(s) == {x \in Hook : hook[x].enabled /\ hook[x].src = s}

\* Where no method is at work the code shows the jump of the newest installed hook.
LEMMA NewestAtEntry ==
  ASSUME LayerInv, JumpsApart, NEW s \in Entry, Clean(s),
         \A g \in Hook : hook[g].src = s => op[g] \in {"idle", "new"}
  PROVE  IF Installed(s) = {} THEN JumpsAt(mem, s) = {}
         ELSE \E k \in Installed(s) : JumpsAt(mem, s) = {k} /\ NewestOf(k, Installed(s))
<1>1. s \in Addr \ tangled /\ Top(s) /\ Shape
  <2>1. s \in Addr /\ s \in Nat /\ AbsJumpSize \in Nat /\ AbsJumpSize > 0
    BY HookAssumption
  <2>2. s \in Span(s, AbsJumpSize)
    BY <2>1 DEF Span
  <2> QED BY <2>1, <2>2 DEF LayerInv, HookInv, Clean
<1>2. ASSUME NEW x \in Installed(s)
      PROVE  /\ x \in Hook /\ Covers(x, 1, s) /\ hook[x].src = s
             /\ \A i : Shows(x, i)
  BY <1>2, CoversFirst DEF Installed, Shows
<1>3. ASSUME NEW x \in Hook, hook[x].src = s, NEW i, Shows(x, i) PROVE x \in Installed(s)
  BY <1>3 DEF Installed, Shows
<1>4. ASSUME NEW x \in JumpsAt(mem, s) PROVE x \in Hook /\ mem[s] = <<"jmp", x, 1>>
  <2>1. x \in Hook
    BY <1>4 DEF JumpsAt
  <2> QED BY <1>1, <1>4, <2>1, JumpStart
<1>5. CASE mem[s] = Text(s) /\ \A x \in Hook, i \in Nat : Covers(x, i, s) => ~Shows(x, i)
  <2>1. JumpsAt(mem, s) = {}
    BY <1>4, <1>5 DEF Text
  <2>2. Installed(s) = {}
    BY <1>2, <1>5
  <2> QED BY <2>1, <2>2
<1>6. ASSUME NEW k \in Hook, NEW i \in Nat, mem[s] = <<"jmp", k, i>>, Covers(k, i, s), Shows(k, i),
             \A x \in Hook \ {k}, j \in Nat : Covers(x, j, s) /\ Shows(x, j) => x \in older[k]
      PROVE  \E y \in Installed(s) : JumpsAt(mem, s) = {y} /\ NewestOf(y, Installed(s))
  <2>1. hook[k].src \in Entry
    BY <1>1, <1>6, ShownLives
  <2>2. hook[k].src = s
    <3>1. s \in Span(hook[k].src, AbsJumpSize)
      BY <1>6, <2>1, InJump
    <3>2. s \in Span(s, AbsJumpSize)
      <4>1. s \in Nat /\ AbsJumpSize \in Nat /\ AbsJumpSize > 0
        BY HookAssumption
      <4> QED BY <1>1, <4>1 DEF Span
    <3> QED BY <2>1, <3>1, <3>2 DEF JumpsApart
  <2>3. k \in Installed(s)
    BY <1>3, <1>6, <2>2
  <2>4. NewestOf(k, Installed(s))
    BY <1>2, <1>6, <2>3 DEF NewestOf
  <2>5. ASSUME NEW j \in DOMAIN JumpBytes(k)
        PROVE  s + j - 1 \in Addr /\ mem[s + j - 1] = <<"jmp", k, j>>
    <3>1. PICK b : b = s + j - 1
      OBVIOUS
    <3>2. Covers(k, j, b) /\ Shows(k, j)
      BY <1>2, <2>2, <2>3, <3>1 DEF Covers
    <3>3. b \in Addr \ tangled /\ j \in Nat
      BY <2>1, <2>2, <3>2, InJump DEF Clean
    <3>4. Top(b)
      BY <3>3 DEF LayerInv
    <3>5. PICK m \in Hook, n \in Nat :
            /\ mem[b] = <<"jmp", m, n>> /\ Covers(m, n, b) /\ Shows(m, n)
            /\ \A x \in Hook \ {m}, l \in Nat : Covers(x, l, b) /\ Shows(x, l) => x \in older[m]
      BY <3>2, <3>3, <3>4 DEF Top
    <3>6. hook[m].src \in Entry
      BY <1>1, <3>5, ShownLives
    <3>7. hook[m].src = s /\ n = j
      BY <2>1, <2>2, <3>2, <3>5, <3>6, OneAddress
    <3>8. m \in Installed(s)
      BY <1>3, <3>5, <3>7
    <3>9. m = k
      <4> SUFFICES ASSUME m # k PROVE FALSE
        OBVIOUS
      <4>1. k \in older[m] /\ m \in older[k]
        BY <2>4, <3>2, <3>3, <3>5, <3>8 DEF NewestOf
      <4> QED BY <4>1 DEF LayerInv, HookInv, Stacks
    <3> QED BY <3>1, <3>3, <3>5, <3>7, <3>9
  <2>6. k \in JumpsAt(mem, s)
    BY <2>5 DEF JumpsAt
  <2>7. JumpsAt(mem, s) = {k}
    BY <1>4, <1>6, <2>6
  <2> QED BY <2>3, <2>4, <2>7
<1>7. CASE Installed(s) = {}
  BY <1>1, <1>5, <1>6, <1>7 DEF Top
<1>8. CASE Installed(s) # {}
  <2>1. PICK x \in Installed(s) : TRUE
    BY <1>8
  <2>2. \E k \in Installed(s) : JumpsAt(mem, s) = {k} /\ NewestOf(k, Installed(s))
    BY <1>1, <1>2, <1>6, <2>1 DEF Top
  <2> QED BY <1>8, <2>2
<1> QED BY <1>7, <1>8

\* What is decoded there: the first instruction of a trampoline.
LEMMA FirstInsn ==
  ASSUME LayerInv, JumpsApart, NEW s \in Entry, Clean(s),
         \A g \in Hook : hook[g].src = s => op[g] \in {"idle", "new"}
  PROVE  IF Installed(s) = {} THEN Insn(mem, s).k # "jmp"
         ELSE \E k \in Installed(s) : /\ Insn(mem, s).k = "jmp" /\ Insn(mem, s).to = k
                                      /\ NewestOf(k, Installed(s))
<1>1. s \in Addr /\ InsnLen[s] > 0 /\ InsnLen[s] \in Nat /\ s \in Nat
  BY HookAssumption
<1>2. CASE Installed(s) = {}
  <2>1. JumpsAt(mem, s) = {}
    BY <1>2, NewestAtEntry
  <2> QED BY <1>2, <2>1 DEF Insn
<1>3. CASE Installed(s) # {}
  <2>1. PICK k \in Installed(s) : JumpsAt(mem, s) = {k} /\ NewestOf(k, Installed(s))
    BY <1>3, NewestAtEntry
  <2>2. mem[s] = <<"jmp", k, 1>>
    BY <1>1, <2>1, JumpStart DEF Installed
  <2>3. ~Intact(mem, s)
    <3>1. s \in Span(s, InsnLen[s])
      BY <1>1 DEF Span
    <3> QED BY <2>2, <3>1 DEF Intact, Text
  <2>4. (CHOOSE x \in JumpsAt(mem, s) : TRUE) = k
    BY <2>1
  <2>5. Insn(mem, s).k = "jmp" /\ Insn(mem, s).to = k
    BY <2>1, <2>3, <2>4 DEF Insn
  <2> QED BY <1>3, <2>1, <2>5
<1> QED BY <1>2, <1>3

(***************************************************************************)
(* Each step keeps the order in which control goes down.                   *)
(***************************************************************************)
\* Only a hook that exists is installed, and a step installs none but by an answer.
LEMMA FlagStep ==
  ASSUME Shape, NEW h \in Hook, HookStep(h)
  PROVE  /\ op[h] = "idle" /\ hook'[h].enabled => hook[h].enabled
         /\ hook'[h].enabled => hook[h].st = "live" /\ hook'[h].src = hook[h].src
<1>0. Life(h)
  BY DEF Shape
<1>1. CASE \E src \in Entry : NewBegin(h, src)
  BY <1>1, NewBeginDoes
<1>2. CASE NewDecode(h)
  BY <1>0, <1>2 DEF NewDecode, Inside, Life
<1>3. CASE NewSave(h)
  BY <1>3, NewSaveDoes
<1>4. CASE \/ \E m \in {"enable", "disable", "drop"} : Begins(h, m)
           \/ \E i \in DOMAIN call[h].src : Stores(h, i)
           \/ Finishes(h)
  BY <1>0, <1>4 DEF Begins, Ready, Stores, Finishes, Life
<1>5. CASE Answers(h)
  BY <1>0, <1>5 DEF Answers, Life
<1>6. CASE Releases(h)
  BY <1>6 DEF Releases
<1> QED BY <1>1, <1>2, <1>3, <1>4, <1>5, <1>6, Effects

LEMMA StepClear ==
  ASSUME LayerInv, NEW h \in Hook, HookStep(h)
  PROVE  Clear(h)
<1>1. ~panicked /\ Shape /\ Life(h) /\ HookInv /\ OthersSame(h)
      /\ (hook'[h].enabled => hook[h].st = "live" /\ hook'[h].src = hook[h].src)
  BY NotStopped, FlagStep, Effects DEF LayerInv, HookInv, Shape
<1>2. CASE (\E src \in Entry : NewBegin(h, src)) \/ NewDecode(h) \/ NewSave(h)
  <2>1. hook[h].st = "none" /\ ~hook[h].enabled /\ tangled \subseteq tangled'
    BY <1>1, <1>2 DEF NewBegin, NewDecode, NewSave, Inside, Life, history
  <2> QED BY <1>1, <2>1, ClearOff
<1>3. CASE \E m \in {"enable", "disable", "drop"} : Begins(h, m)
  <2>1. /\ tangled \subseteq tangled'
        /\ \A g \in Hook \ {h} : \A a \in Window(g) \cap Window(h) :
             a \notin tangled' => op[g] = "idle" /\ g \in older[h]
    BY <1>1, <1>3, BeginsNewest
  <2> QED BY <1>1, <2>1, ClearTop
<1>4. CASE Ready(h) /\ Releases(h) /\ ~hook[h].enabled
  <2>1. ~hook'[h].enabled /\ tangled \subseteq tangled'
    BY <1>4 DEF Releases
  <2> QED BY <1>4, <2>1, ClearOff
<1>5. CASE \/ Answers(h) \/ (\E i \in DOMAIN call[h].src : Stores(h, i)) \/ Finishes(h)
           \/ (Releases(h) /\ op[h] = "drop")
  <2>1. op[h] \in {"enable", "disable", "drop"} /\ tangled \subseteq tangled'
    BY <1>5 DEF Answers, Stores, Finishes, Releases, history
  <2> QED BY <1>1, <2>1, BusyNewest, ClearNewest
<1>6. Releases(h) => (Ready(h) /\ ~hook[h].enabled) \/ op[h] = "drop"
  BY DEF Releases
<1> QED BY <1>1, <1>2, <1>3, <1>4, <1>5, <1>6, Effects

\* A hook installed where g is being made, or older than a live g at its address, does
\* not move, unless that entangles them.
LEMMA EldersRest ==
  ASSUME LayerInv, NEW h \in Hook, HookStep(h), Clear(h), NEW g \in Hook, g # h,
         Clean(hook[g].src)',
         hook[g].st = "live" \/ op[g] = "new",
         hook[g].st = "live" => h \in older[g]
  PROVE  /\ hook[h].src = hook[g].src => ~hook[h].enabled
         /\ hook'[h].src = hook[g].src => ~hook'[h].enabled
<1>1. Shape /\ Life(h) /\ Life(g) /\ OthersSame(h) /\ tangled \subseteq tangled'
  BY Effects DEF LayerInv, HookInv, Shape, Clear
<1>2. hook[g].src \in Entry /\ hook[g].src \notin tangled'
  <2>1. hook[g].src \in Entry /\ hook'[g] = hook[g]
    BY <1>1 DEF Life, OthersSame
  <2> QED BY <2>1, CoversFirst DEF Clean
<1>3. hook'[h].enabled => hook[h].st = "live" /\ hook'[h].src = hook[h].src
  BY <1>1, FlagStep
<1>4. ASSUME hook[h].src = hook[g].src
      PROVE  hook[g].src \in Window(g) \cap Window(h) /\ Overlaps(g, h) /\ Overlaps(h, g)
  BY <1>1, <1>2, <1>4, CoversFirst DEF Overlaps
<1>5. CASE hook[g].st = "live"
  BY <1>2, <1>3, <1>4, <1>5 DEF Clear
<1>6. CASE op[g] = "new"
  <2> SUFFICES ASSUME hook[h].src = hook[g].src, hook[h].enabled \/ hook'[h].enabled PROVE FALSE
    BY <1>3
  <2>1. op[h] = "idle"
    BY <1>4, <1>6 DEF LayerInv, HookInv, Stacks
  <2>2. hook[h].enabled /\ hook[h].st = "live"
    BY <1>1, <2>1, FlagStep DEF Life
  <2>3. ~\E m \in {"enable", "disable", "drop"} : Begins(h, m)
    BY <1>1, <1>2, <1>4, <1>6, BeginsNewest
  <2>4. /\ ~(\E src \in Entry : NewBegin(h, src)) /\ ~NewDecode(h) /\ ~NewSave(h)
        /\ ~Answers(h) /\ ~Releases(h)
        /\ ~(\E i \in DOMAIN call[h].src : Stores(h, i)) /\ ~Finishes(h)
    BY <2>1, <2>2 DEF NewBegin, NewDecode, NewSave, Inside, Answers, Releases, Stores, Finishes
  <2> QED BY <1>1, <2>3, <2>4, Effects
<1> QED BY <1>5, <1>6

LEMMA OthersLead ==
  ASSUME LayerInv, NEW h \in Hook, HookStep(h), OthersSame(h), NEW g \in Hook, g # h,
         LeadsDown(g)
  PROVE  LeadsDown(g)'
<1>1. /\ hook'[g] = hook[g] /\ stub'[g] = stub[g] /\ op'[g] = op[g] /\ older'[g] = older[g]
      /\ older[g] \subseteq Hook
  BY OlderHooks DEF OthersSame, LayerInv, HookInv
<1>2. ASSUME hook[g].st = "live" \/ op[g] = "new", Clean(hook[g].src)'
      PROVE  Elders(g)' = Elders(g) /\ \A x \in Elders(g) : x \in Hook /\ older'[x] = older[x]
  <2>1. Clear(h)
    BY StepClear
  <2>2. hook[g].st = "live" => hook'[g].st = "live"
    BY <1>1
  <2>3. ASSUME NEW x \in Hook, x # h
        PROVE  /\ older'[x] = older[x] /\ hook'[x].enabled = hook[x].enabled
               /\ hook'[x].src = hook[x].src
    BY <2>3 DEF OthersSame
  <2>4. (hook[g].st = "live" => h \in older[g]) =>
          /\ hook[h].src = hook[g].src => ~hook[h].enabled
          /\ hook'[h].src = hook[g].src => ~hook'[h].enabled
    BY <1>2, <2>1, EldersRest
  <2> QED BY <1>1, <2>3, <2>4 DEF Elders
<1>3. CASE ~((hook[g].st = "live" \/ op[g] = "new") /\ Clean(hook[g].src)')
  BY <1>1, <1>3 DEF LeadsDown
<1>4. CASE (hook[g].st = "live" \/ op[g] = "new") /\ Clean(hook[g].src)'
  <2>1. \A k : LeadsTo(g, k)' <=> LeadsTo(g, k)
    BY <1>1 DEF LeadsTo
  <2>2. \A k \in Elders(g) : NewestOf(k, Elders(g))' <=> NewestOf(k, Elders(g))
    BY <1>2, <1>4 DEF NewestOf
  <2>3. Clean(hook[g].src)
    BY <1>1, <1>4, StepClear DEF Clean, Clear
  <2> QED BY <1>1, <1>2, <1>4, <2>1, <2>2, <2>3 DEF LeadsDown
<1> QED BY <1>3, <1>4

\* A hook keeps what it leads to as long as it keeps its trampoline and its place.
LEMMA OwnLeads ==
  ASSUME LayerInv, NEW h \in Hook, OthersSame(h), LeadsDown(h),
         hook[h].st = "live", hook'[h].st = "live", hook'[h].src = hook[h].src,
         stub'[h].code = stub[h].code, older'[h] = older[h], tangled \subseteq tangled'
  PROVE  LeadsDown(h)'
<1>1. \A x \in older[h] : x \in Hook \ {h}
  BY OlderHooks DEF LayerInv, HookInv, Stacks
<1>2. \A x \in older[h] : hook'[x] = hook[x] /\ older'[x] = older[x]
  BY <1>1 DEF OthersSame
<1>3. Elders(h)' = Elders(h) /\ Elders(h) \subseteq older[h]
  BY <1>2 DEF Elders
<1>4. \A k : LeadsTo(h, k)' <=> LeadsTo(h, k)
  BY DEF LeadsTo
<1>5. \A k \in Elders(h) : NewestOf(k, Elders(h))' <=> NewestOf(k, Elders(h))
  BY <1>2, <1>3 DEF NewestOf
<1> QED BY <1>3, <1>4, <1>5 DEF LeadsDown, Clean

\* An empty trampoline that is being made goes on at the address of its hook.
LEMMA EmptyStub ==
  ASSUME PathInv, NEW h \in Hook, op[h] = "new", stub[h].code = <<>>
  PROVE  stub[h].back = hook[h].src
<1>1. PICK s \in [Hook -> Nat] : Paths(s)
  BY DEF PathInv
<1>2. hook[h].src # 0
  BY HookAssumption DEF PathInv, Shape, Life
<1>3. Chained(s, Made, h, stub[h].code, stub[h].back) /\ s[h] = hook[h].src
  BY <1>1, <1>2 DEF Paths, HookPath
<1> QED BY <1>3 DEF Chained, At

LEMMA NewDecodeLeads ==
  ASSUME PathInv, LayerInv, JumpsApart, NEW h \in Hook, NewDecode(h), LeadsDown(h)
  PROVE  LeadsDown(h)'
<1> DEFINE d == Insn(mem, stub[h].back)
<1>1. /\ op[h] = "new" /\ stub'[h].code = Append(stub[h].code, d) /\ stub[h].code \in Seq(Insns)
      /\ UNCHANGED <<mem, hook, op, older, tangled>>
  BY NewDecodeDoes DEF LayerInv, HookInv, history
<1>2. hook[h].st = "none" /\ hook[h].src \in Entry
  BY <1>1 DEF LayerInv, HookInv, Shape, Life
<1>3. Elders(h)' = Elders(h) /\ Elders(h) = Installed(hook[h].src)
  BY <1>1, <1>2 DEF Elders, Installed
<1>4. \A k : NewestOf(k, Elders(h))' <=> NewestOf(k, Elders(h))
  BY <1>1, <1>3 DEF NewestOf
<1>5. CASE stub[h].code = <<>> /\ Clean(hook[h].src)
  <2>1. stub[h].back = hook[h].src
    BY <1>1, <1>5, EmptyStub
  <2>2. ASSUME NEW g \in Hook, hook[g].src = hook[h].src PROVE op[g] \in {"idle", "new"}
    <3>1. Overlaps(g, h)
      BY <1>2, <1>5, <2>2, CoversFirst DEF Overlaps, Clean
    <3> QED BY <1>1, <3>1 DEF LayerInv, HookInv, Stacks, Overlaps
  <2>3. IF Installed(hook[h].src) = {} THEN d.k # "jmp"
        ELSE \E k \in Installed(hook[h].src) :
               d.k = "jmp" /\ d.to = k /\ NewestOf(k, Installed(hook[h].src))
    BY <1>2, <1>5, <2>1, <2>2, FirstInsn
  <2> HIDE DEF d
  <2>4. stub'[h].code # <<>> /\ stub'[h].code[1] = d
    BY <1>1, <1>5
  <2> QED BY <1>1, <1>2, <1>3, <1>4, <2>3, <2>4 DEF LeadsDown, LeadsTo
<1>6. CASE stub[h].code # <<>>
  <2> HIDE DEF d
  <2>1. stub'[h].code # <<>> /\ stub'[h].code[1] = stub[h].code[1]
    <3>1. Len(stub[h].code) \in Nat \ {0}
      BY <1>1, <1>6
    <3>2. Len(stub'[h].code) = Len(stub[h].code) + 1 /\ stub'[h].code[1] = stub[h].code[1]
      BY <1>1, <3>1
    <3> QED BY <3>1, <3>2
  <2>2. \A k : LeadsTo(h, k)' <=> LeadsTo(h, k)
    BY <1>6, <2>1 DEF LeadsTo
  <2> QED BY <1>1, <1>2, <1>3, <1>4, <1>6, <2>1, <2>2 DEF LeadsDown, Clean
<1>7. CASE ~Clean(hook[h].src)
  BY <1>1, <1>2, <1>7 DEF LeadsDown, Clean
<1> QED BY <1>5, <1>6, <1>7

LEMMA NewSaveLeads ==
  ASSUME PathInv, LayerInv, NEW h \in Hook, NewSave(h), LeadsDown(h)
  PROVE  LeadsDown(h)'
<1>1. /\ op[h] = "new" /\ op'[h] = "idle" /\ OthersSame(h) /\ hook[h].st = "none"
      /\ hook'[h].src = hook[h].src /\ stub'[h].code = stub[h].code
      /\ hook[h].src \in Entry /\ Covered(h) /\ ~hook[h].enabled /\ ~hook'[h].enabled
      /\ IF Fits(h) THEN hook'[h].st = "live" /\ older'[h] = Live
                    ELSE hook' = hook /\ stub' = stub /\ older' = older
      /\ tangled' = tangled
  BY NewSaveDoes DEF LayerInv, HookInv, NewSave, history
<1>2. CASE ~Fits(h)
  BY <1>1, <1>2 DEF LeadsDown
<1>3. CASE Fits(h)
  <2>1. stub[h].code # <<>>
    <3>1. stub[h].code = <<>> => stub[h].back = hook[h].src
      BY <1>1, EmptyStub
    <3>2. hook[h].src \in Nat
      BY <1>1, HookAssumption
    <3>3. MAX_HOOK_SIZE \in Nat /\ MAX_HOOK_SIZE > 0
      BY HookAssumption DEF MAX_HOOK_SIZE
    <3> QED BY <1>1, <3>1, <3>2, <3>3 DEF Covered
  <2>2. \A x \in Hook : hook[x].enabled => x \in Live
    BY DEF LayerInv, HookInv, Shape, Life, Live
  <2>3. \A x \in Live : x \in Hook /\ x # h /\ hook'[x] = hook[x] /\ older'[x] = older[x]
    BY <1>1 DEF Live, OthersSame
  <2>4. Elders(h)' = Elders(h) /\ Elders(h) \subseteq Live
    BY <1>1, <1>3, <2>2, <2>3 DEF Elders
  <2>5. \A k : LeadsTo(h, k)' <=> LeadsTo(h, k)
    BY <1>1 DEF LeadsTo
  <2>6. \A k \in Elders(h) : NewestOf(k, Elders(h))' <=> NewestOf(k, Elders(h))
    BY <2>3, <2>4 DEF NewestOf
  <2> QED BY <1>1, <2>1, <2>4, <2>5, <2>6 DEF LeadsDown, Clean
<1> QED BY <1>2, <1>3

LEMMA HookLeads ==
  ASSUME PathInv, LayerInv, JumpsApart, NEW h \in Hook, HookStep(h),
         \A g \in Hook : LeadsDown(g)
  PROVE  \A g \in Hook : LeadsDown(g)'
<1>1. Shape /\ Life(h) /\ LeadsDown(h)
  BY DEF LayerInv, HookInv, Shape
<1>2. /\ OthersSame(h)
      /\ \/ \E src \in Entry : NewBegin(h, src)
         \/ NewDecode(h) \/ NewSave(h)
         \/ \E m \in {"enable", "disable", "drop"} : Begins(h, m)
         \/ Answers(h) \/ Releases(h)
         \/ \E i \in DOMAIN call[h].src : Stores(h, i)
         \/ Finishes(h)
  BY <1>1, Effects
<1>3. ASSUME NEW src \in Entry, NewBegin(h, src) PROVE LeadsDown(h)'
  BY <1>1, <1>3, NewBeginDoes DEF LeadsDown
<1>4. CASE (\E m \in {"enable", "disable", "drop"} : Begins(h, m)) \/ Answers(h)
           \/ (\E i \in DOMAIN call[h].src : Stores(h, i)) \/ Finishes(h)
  <2>1. /\ hook[h].st = "live" /\ hook'[h].st = "live" /\ hook'[h].src = hook[h].src
        /\ stub' = stub /\ older' = older /\ tangled \subseteq tangled'
    BY <1>1, <1>4 DEF Begins, Ready, Answers, Stores, Finishes, Life, history
  <2>2. LeadsDown(h)'
    BY <1>1, <1>2, <2>1, OwnLeads
  <2> QED BY <1>2, <2>2, OthersLead
<1>5. ASSUME Releases(h) PROVE LeadsDown(h)'
  BY <1>5 DEF Releases, LeadsDown
<1>6. LeadsDown(h)'
  BY <1>1, <1>2, <1>3, <1>4, <1>5, NewDecodeLeads, NewSaveLeads
<1> QED BY <1>2, <1>6, OthersLead

\* A step of h adds at most h to the hooks that exist, and then all the others are older.
LEMMA LiveGrows ==
  ASSUME Shape, NEW h \in Hook, HookStep(h)
  PROVE  /\ Live' \subseteq Live \cup {h}
         /\ h \in Live' => \/ h \in Live /\ older'[h] = older[h]
                           \/ h \notin Live /\ hook[h].st = "none" /\ older'[h] = Live
<1>1. /\ OthersSame(h) /\ Life(h)
      /\ \/ \E src \in Entry : NewBegin(h, src)
         \/ NewDecode(h) \/ NewSave(h)
         \/ \E m \in {"enable", "disable", "drop"} : Begins(h, m)
         \/ Answers(h) \/ Releases(h)
         \/ \E i \in DOMAIN call[h].src : Stores(h, i)
         \/ Finishes(h)
  BY Effects DEF Shape
<1>2. Live' \subseteq Live \cup {h}
  BY <1>1 DEF OthersSame, Live
<1>3. ASSUME NEW src \in Entry, NewBegin(h, src) PROVE hook'[h].st # "live"
  BY <1>3, NewBeginDoes
<1>4. ASSUME NewDecode(h) PROVE hook'[h].st # "live"
  BY <1>1, <1>4 DEF NewDecode, Inside, Life
<1>5. ASSUME NewSave(h) PROVE hook[h].st = "none" /\ (hook'[h].st = "live" => older'[h] = Live)
  BY <1>5, NewSaveDoes
<1>6. ASSUME Releases(h) PROVE hook'[h].st # "live"
  BY <1>6 DEF Releases
<1>7. ASSUME (\E m \in {"enable", "disable", "drop"} : Begins(h, m)) \/ Answers(h)
             \/ (\E i \in DOMAIN call[h].src : Stores(h, i)) \/ Finishes(h)
      PROVE  hook[h].st = "live" /\ older'[h] = older[h]
  BY <1>1, <1>7 DEF Begins, Ready, Answers, Stores, Finishes, Life
<1> QED BY <1>1, <1>2, <1>3, <1>4, <1>5, <1>6, <1>7 DEF Live

LEMMA HookOrder ==
  ASSUME HookInv, NEW h \in Hook, HookStep(h), Ordered, IsFiniteSet(Live)
  PROVE  Ordered' /\ IsFiniteSet(Live)'
<1>1. /\ Live' \subseteq Live \cup {h}
      /\ h \in Live' => \/ h \in Live /\ older'[h] = older[h]
                        \/ h \notin Live /\ hook[h].st = "none" /\ older'[h] = Live
  BY LiveGrows DEF HookInv
<1>2. OthersSame(h)
  BY Effects DEF HookInv
<1>3. IsFiniteSet(Live)'
  <2>1. IsFiniteSet(Live \cup {h})
    BY FS_AddElement
  <2> QED BY <1>1, <2>1, FS_Subset
<1>4. ASSUME NEW x \in Live', NEW y \in Live', NEW z \in Live', x \in older'[y], y \in older'[z]
      PROVE  x \in older'[z]
  <2>1. x \in Hook /\ y \in Hook /\ z \in Hook
    BY <1>4 DEF Live
  <2>2. \A g \in Hook : g # h => older'[g] = older[g] /\ (g \in Live' => g \in Live)
    BY <1>1, <1>2 DEF OthersSame
  <2>3. \A g \in Hook : \A k \in older[g] : hook[k].st # "none"
    BY DEF HookInv, Stacks
  <2>4. CASE h \in Live \/ h \notin Live'
    <3>1. \A g \in Live' : g \in Live /\ older'[g] = older[g]
      BY <1>1, <2>2, <2>4 DEF Live
    <3> QED BY <1>4, <3>1 DEF Ordered
  <2>5. CASE h \notin Live /\ hook[h].st = "none" /\ older'[h] = Live
    <3>1. y # h
      <4>1. z # h => y # h
        BY <1>4, <2>1, <2>2, <2>3, <2>5
      <4>2. z = h => y # h
        BY <1>4, <2>5
      <4> QED BY <4>1, <4>2
    <3>2. x # h
      BY <1>4, <2>1, <2>2, <2>3, <2>5, <3>1
    <3>3. x \in Live /\ y \in Live
      BY <1>4, <2>1, <2>2, <3>1, <3>2
    <3>4. CASE z = h
      BY <2>5, <3>3, <3>4
    <3>5. CASE z # h
      BY <1>4, <2>1, <2>2, <3>1, <3>3, <3>5 DEF Ordered
    <3> QED BY <3>4, <3>5
  <2> QED BY <1>1, <2>4, <2>5
<1> QED BY <1>3, <1>4 DEF Ordered

LEMMA ChainInit == Init => ChainInv
<1> SUFFICES ASSUME Init PROVE ChainInv
  OBVIOUS
<1>1. \A g \in Hook : hook[g].st = "none" /\ op[g] = "idle"
  BY DEF Init
<1>2. Live = {}
  BY <1>1 DEF Live
<1>3. IsFiniteSet(Live) /\ Ordered
  BY <1>2, FS_EmptySet DEF Ordered
<1> QED BY <1>1, <1>3, PathsInit, LayerInit DEF ChainInv, LeadsDown

LEMMA ChainNext ==
  ASSUME JumpsApart, ChainInv, [Next]_vars
  PROVE  ChainInv'
<1>1. PathInv' /\ LayerInv' /\ HookInv
  BY PathsNext, LayerNext DEF ChainInv, LayerInv
<1>2. ASSUME NEW h \in Hook, HookStep(h) PROVE ChainInv'
  <2>1. \A g \in Hook : LeadsDown(g)'
    BY <1>2, HookLeads DEF ChainInv
  <2>2. Ordered' /\ IsFiniteSet(Live)'
    BY <1>1, <1>2, HookOrder DEF ChainInv
  <2> QED BY <1>1, <2>1, <2>2 DEF ChainInv
<1>3. ASSUME UNCHANGED <<hook, stub, op, older, tangled>> PROVE ChainInv'
  <2>1. Live' = Live
    BY <1>3 DEF Live
  <2>2. Ordered' /\ IsFiniteSet(Live)'
    BY <1>3, <2>1 DEF ChainInv, Ordered
  <2>3. ASSUME NEW g \in Hook PROVE LeadsDown(g)'
    <3>1. Elders(g)' = Elders(g) /\ \A k : LeadsTo(g, k)' <=> LeadsTo(g, k)
      BY <1>3 DEF Elders, LeadsTo
    <3>2. \A k : NewestOf(k, Elders(g))' <=> NewestOf(k, Elders(g))
      BY <1>3, <3>1 DEF NewestOf
    <3> QED BY <1>3, <3>1, <3>2 DEF ChainInv, LeadsDown, Clean
  <2> QED BY <1>1, <2>2, <2>3 DEF ChainInv
<1>4. ASSUME NEW c \in Cpu, CpuStep(c) PROVE ChainInv'
  BY <1>3, <1>4, CpuStill
<1> QED BY <1>2, <1>3, <1>4 DEF Next, vars

\* A finite set with a transitive and irreflexive relation has a minimal element.
LEMMA FiniteMinimal ==
  ASSUME NEW S, IsFiniteSet(S), S # {}, NEW R,
         \A x \in S : <<x, x>> \notin R,
         \A x, y, z \in S : <<x, y>> \in R /\ <<y, z>> \in R => <<x, z>> \in R
  PROVE  \E x \in S : \A y \in S : <<y, x>> \notin R
<1> DEFINE Less(x) == {y \in S : <<y, x>> \in R}
           T == {Less(x) : x \in S}
<1>1. T \subseteq FiniteSubsetsOf(S) /\ T # {}
  <2>1. ASSUME NEW x \in S PROVE Less(x) \in SUBSET S /\ IsFiniteSet(Less(x))
    <3>1. Less(x) \in SUBSET S
      OBVIOUS
    <3> QED BY <3>1, FS_Subset
  <2> HIDE DEF Less
  <2> QED BY <2>1 DEF FiniteSubsetsOf
<1>2. PICK U \in T : \A V \in T : <<V, U>> \notin StrictSubsetOrdering(S)
  <2>1. IsWellFoundedOn(StrictSubsetOrdering(S), FiniteSubsetsOf(S))
    BY FS_StrictSubsetOrderingWellFounded
  <2> HIDE DEF T
  <2> QED BY <1>1, <2>1, WFMin
<1>3. PICK x \in S : U = Less(x)
  BY <1>2
<1>4. ASSUME NEW y \in S, <<y, x>> \in R PROVE FALSE
  <2>1. Less(y) \subseteq Less(x) /\ y \in Less(x) /\ y \notin Less(y)
    BY <1>4
  <2>2. Less(y) \in T /\ Less(x) \in SUBSET S /\ Less(y) \in SUBSET S
    OBVIOUS
  <2> HIDE DEF Less, T
  <2>3. <<Less(y), Less(x)>> \in StrictSubsetOrdering(S)
    BY <2>1, <2>2 DEF StrictSubsetOrdering
  <2> QED BY <1>2, <1>3, <2>2, <2>3
<1> QED BY <1>4

\* Where no method is at work, the hooks that a call goes through are those that are
\* installed: it enters the newest, and each leads to the next older one.
LEMMA ChainIsInstalled ==
  ASSUME ChainInv, JumpsApart, NEW s \in Entry, Clean(s),
         \A g \in Hook : hook[g].src = s => op[g] = "idle"
  PROVE  Chain(s) = Installed(s)
<1> DEFINE E == Installed(s)
<1>1. /\ LayerInv /\ HookInv /\ Shape
      /\ \A g \in Hook : older[g] \subseteq Hook
  BY OlderHooks DEF ChainInv, LayerInv, HookInv
<1>2. ASSUME NEW x \in E
      PROVE  /\ x \in Hook /\ x \in Live /\ stub[x].code # <<>>
             /\ Elders(x) = E \cap older[x] /\ Clean(hook[x].src)
  <2>1. x \in Hook /\ hook[x].enabled /\ hook[x].src = s /\ Life(x) /\ LeadsDown(x)
    BY <1>1, <1>2 DEF Installed, Shape, ChainInv
  <2>2. hook[x].st = "live" /\ stub[x].code # <<>>
    BY <2>1 DEF Life, LeadsDown
  <2>3. Elders(x) = E \cap older[x]
    BY <1>1, <2>1, <2>2 DEF Elders, Installed
  <2> QED BY <2>1, <2>2, <2>3 DEF Live
<1>3. IF E = {} THEN JumpsAt(mem, s) = {}
      ELSE \E k \in E : JumpsAt(mem, s) = {k} /\ NewestOf(k, E)
  BY <1>1, NewestAtEntry
<1>4. ASSUME NEW x \in E
      PROVE  IF E \cap older[x] = {} THEN \A g : ~LeadsTo(x, g)
             ELSE \E k \in E \cap older[x] :
                    LeadsTo(x, k) /\ NewestOf(k, E \cap older[x]) /\ \A g : LeadsTo(x, g) => g = k
  BY <1>2 DEF ChainInv, LeadsDown, LeadsTo, Live
<1>5. E \subseteq Hook /\ IsFiniteSet(E)
  <2>1. E \in SUBSET Live /\ IsFiniteSet(Live)
    BY <1>2 DEF ChainInv
  <2> QED BY <1>2, <2>1, FS_Subset
<1>6. /\ \A x \in E : x \notin older[x]
      /\ \A x, y \in E : x \in older[y] => y \notin older[x]
      /\ \A x, y, z \in E : x \in older[y] /\ y \in older[z] => x \in older[z]
  BY <1>1, <1>2 DEF HookInv, Stacks, ChainInv, Ordered
<1> DEFINE Closed(C) == /\ JumpsAt(mem, s) \subseteq C
                        /\ \A h \in C, g \in Hook : LeadsTo(h, g) => g \in C
<1>7. Closed(E)
  BY <1>3, <1>4
<1> HIDE DEF E
<1>8. ASSUME NEW C \in SUBSET Hook, Closed(C) PROVE E \subseteq C
  <2> SUFFICES ASSUME E \ C # {} PROVE FALSE
    OBVIOUS
  \* the newest installed hook that C leaves out
  <2>1. PICK m \in E \ C : \A x \in E \ C : m \notin older[x]
    <3> DEFINE R == {p \in E \X E : p[2] \in older[p[1]]}
    <3>1. IsFiniteSet(E \ C)
      BY <1>5, FS_Subset
    <3>2. /\ \A x \in E \ C : <<x, x>> \notin R
          /\ \A x, y, z \in E \ C : <<x, y>> \in R /\ <<y, z>> \in R => <<x, z>> \in R
      BY <1>6
    <3>3. \A x, y \in E : y \in older[x] => <<x, y>> \in R
      OBVIOUS
    <3> HIDE DEF R
    <3>4. \E x \in E \ C : \A y \in E \ C : <<y, x>> \notin R
      BY <3>1, <3>2, FiniteMinimal
    <3> QED BY <3>3, <3>4
  <2> DEFINE N == {x \in E : m \in older[x]}
  <2>2. N # {}
    <3> SUFFICES ASSUME N = {} PROVE FALSE
      OBVIOUS
    <3>1. PICK k \in E : JumpsAt(mem, s) = {k} /\ NewestOf(k, E)
      BY <1>3
    <3>2. k = m
      BY <3>1 DEF NewestOf
    <3> QED BY <1>8, <3>1, <3>2
  \* the oldest one above it
  <2>3. PICK n \in N : \A y \in N : y \notin older[n]
    <3> DEFINE R == {p \in E \X E : p[1] \in older[p[2]]}
    <3>1. IsFiniteSet(N) /\ N \subseteq E
      BY <1>5, FS_Subset
    <3>2. /\ \A x \in N : <<x, x>> \notin R
          /\ \A x, y, z \in N : <<x, y>> \in R /\ <<y, z>> \in R => <<x, z>> \in R
      BY <1>6
    <3>3. \A x, y \in E : x \in older[y] => <<x, y>> \in R
      OBVIOUS
    <3> HIDE DEF R, N
    <3>4. \E x \in N : \A y \in N : <<y, x>> \notin R
      BY <2>2, <3>1, <3>2, FiniteMinimal
    <3> QED BY <3>1, <3>3, <3>4
  <2>4. n \in E /\ m \in older[n] /\ n \in C
    BY <2>1
  <2>5. PICK k \in E \cap older[n] : LeadsTo(n, k) /\ NewestOf(k, E \cap older[n])
    BY <1>4, <2>1, <2>4
  <2>6. k = m
    <3>1. m \in E \cap older[n]
      BY <2>1, <2>4
    <3>2. k # m => m \in older[k]
      BY <2>5, <3>1 DEF NewestOf
    <3> QED BY <2>3, <2>5, <3>2
  <2> QED BY <1>5, <1>8, <2>1, <2>4, <2>5, <2>6
<1>9. Chain(s) = {g \in Hook : \A C \in {D \in SUBSET Hook : Closed(D)} : g \in C}
  BY DEF Chain
<1>10. E \in {D \in SUBSET Hook : Closed(D)}
  BY <1>5, <1>7
<1> HIDE DEF Closed
<1>11. Chain(s) = E
  BY <1>5, <1>8, <1>9, <1>10
<1> QED BY <1>11 DEF E

\* is_enabled "returns whether the hook is currently installed" (khook.rs:289): on any
\* functions no closer than a jump is long, the flag of a hook that no method works on
\* says whether calls of its function pass through it, however many other hooks have
\* come, failed, captured its jump and gone, in whatever order their methods were called;
\* unless some of that entangled a byte of its own jump.
THEOREM FlagTellsInstalled ==
  ASSUME JumpsApart
  PROVE  Spec => []InstalledIffEnabled
<1>1. ChainInv => InstalledIffEnabled
  <2> SUFFICES ASSUME ChainInv, NEW h \in Hook, hook[h].st = "live", ~Busy(h),
                      Clean(hook[h].src)
               PROVE  hook[h].enabled <=> h \in Chain(hook[h].src)
    BY DEF InstalledIffEnabled, Clean
  <2>1. hook[h].src \in Entry
    BY DEF ChainInv, LayerInv, HookInv, Shape, Life
  <2>2. ASSUME NEW g \in Hook, hook[g].src = hook[h].src PROVE op[g] = "idle"
    <3>1. hook[h].src \in Window(g) /\ hook[h].src \in Window(h)
      BY <2>1, <2>2, CoversFirst
    <3> QED BY <3>1 DEF Busy
  <2>3. Chain(hook[h].src) = Installed(hook[h].src)
    BY <2>1, <2>2, ChainIsInstalled
  <2> QED BY <2>3 DEF Installed
<1>2. ChainInv /\ [Next]_vars => ChainInv'
  BY ChainNext
<1> QED BY <1>1, <1>2, ChainInit, PTL DEF Spec

(***************************************************************************)
(* The order of the instructions, for processors that run while everything *)
(* else goes on.  Two hypotheses about the image: its functions are whole  *)
(* instructions, one after the other to a `ret`, and the windows of        *)
(* different functions are apart.  Then a window is entangled as a whole.  *)
(***************************************************************************)
Tiles == \A a \in Addr : InsnLen[a] > 0 =>
  /\ Span(a, InsnLen[a]) \subseteq Addr
  /\ \A b \in Span(a, InsnLen[a]) \ {a} : InsnLen[b] = 0
  /\ a \notin Ret => a + InsnLen[a] \in Addr /\ InsnLen[a + InsnLen[a]] > 0

Apart == \A s, t \in Entry : Span(s, WindowSize) \cap Span(t, WindowSize) # {} => s = t

\* The jump of h is in place for processors that run, or on its way.
Armed(h) ==
  IF op[h] = "enable" THEN call[h].st = "writing" \/ call[h].ok
  ELSE IF op[h] \in {"disable", "drop"} THEN call[h].st = "writing" \/ ~call[h].ok
  ELSE hook[h].enabled

\* An instruction starts at a, and a is not inside the jump of a hook.
Safe(a) ==
  /\ a \in Addr /\ InsnLen[a] > 0
  /\ a \notin tangled => \A h \in Hook :
       Armed(h) => ~(hook[h].src < a /\ a < hook[h].src + Len(JumpBytes(h)))

\* A processor in the trampoline gets as far as instruction i.
Followed(code, i) == \A j \in 1..(i - 1) : code[j].k = "text" /\ code[j].ip \notin Ret

Runs(h, code, back) ==
  /\ \A i \in 1..Len(code) : Followed(code, i) =>
       code[i].k # "junk" /\ code[i].ip \in Addr /\ InsnLen[code[i].ip] > 0
  /\ Followed(code, Len(code) + 1) =>
       back \in Addr /\ InsnLen[back] > 0 /\ back <= hook[h].src + WindowSize

Trampoline(h) ==
  /\ (op[h] = "new" \/ hook[h].st = "live") /\ hook[h].src \notin tangled =>
       Runs(h, stub[h].code, stub[h].back)
  /\ hook[h].st = "live" => stub[h].back >= hook[h].src + MAX_HOOK_SIZE
  /\ op[h] = "new" /\ stub[h].code # <<>> /\ stub[h].code[1].k = "text" =>
       \A g \in Hook : hook[g].enabled /\ hook[g].src = hook[h].src => hook[h].src \in tangled

Present(h) == hook[h].st = "live"

\* A processor that has left the first instruction of a trampoline behind found it not
\* entangled, so that the trampoline is good to its end.
Sound(c) ==
  \/ ip[c] = <<"idle">>
  \/ \E a \in Addr : ip[c] = <<"text", a>> /\ Safe(a)
  \/ \E h \in Hook : ip[c] = <<"dst", h>> /\ Present(h)
  \/ \E h \in Hook, i \in Nat \ {0} :
       /\ ip[c] = <<"stub", h, i>> /\ Present(h)
       /\ i <= Len(stub[h].code) + 1 /\ Followed(stub[h].code, i)
       /\ i # 1 => Runs(h, stub[h].code, stub[h].back)

\* Entangled bytes come in windows.
Whole == \A a \in tangled : \E t \in Entry :
  a \in Span(t, WindowSize) /\ Span(t, WindowSize) \subseteq tangled

RunInv == \A h \in Hook : Trampoline(h)
CpuInv == \A c \in Cpu \ shaken : Sound(c)

OrderInv == PathInv /\ LayerInv /\ Whole /\ RunInv /\ CpuInv

\* Entries are known by any byte of their window.
LEMMA SameFunction ==
  ASSUME Apart, NEW s \in Entry, NEW t \in Entry, NEW b, b \in Span(s, WindowSize),
         b \in Span(t, WindowSize)
  PROVE  s = t
BY DEF Apart

LEMMA SameSource ==
  ASSUME Apart, NEW h \in Hook, NEW g \in Hook, hook[h].src \in Entry, hook[g].src \in Entry,
         NEW b, b \in Window(h), b \in Window(g)
  PROVE  hook[h].src = hook[g].src
<1>1. b \in Span(hook[h].src, WindowSize) /\ b \in Span(hook[g].src, WindowSize)
  BY WindowOf
<1> QED BY <1>1, SameFunction

LEMMA WholeWindow ==
  ASSUME Whole, Apart, NEW s \in Entry, NEW a \in Span(s, WindowSize), a \notin tangled
  PROVE  Span(s, WindowSize) \cap tangled = {}
<1> SUFFICES ASSUME NEW b \in Span(s, WindowSize), b \in tangled PROVE FALSE
  OBVIOUS
<1>1. PICK t \in Entry : b \in Span(t, WindowSize) /\ Span(t, WindowSize) \subseteq tangled
  BY DEF Whole
<1>2. s = t
  BY <1>1, SameFunction
<1> QED BY <1>1, <1>2

\* The bytes of an instruction are entangled when the first is.
LEMMA WholeInsn ==
  ASSUME Whole, Tiles, NEW a \in Addr, InsnLen[a] > 0, a \notin tangled
  PROVE  Span(a, InsnLen[a]) \cap tangled = {}
<1> SUFFICES ASSUME NEW b \in Span(a, InsnLen[a]), b \in tangled PROVE FALSE
  OBVIOUS
<1>1. PICK t \in Entry : b \in Span(t, WindowSize) /\ Span(t, WindowSize) \subseteq tangled
  BY DEF Whole
<1>2. a \in Nat /\ InsnLen[a] \in Nat /\ t \in Nat /\ InsnLen[t] > 0 /\ WindowSize \in Nat
  BY HookAssumption, Sizes
<1>3. b \in Nat /\ a <= b /\ b < a + InsnLen[a] /\ t <= b /\ b < t + WindowSize
  BY <1>1, <1>2 DEF Span
<1>4. t <= a
  <2> SUFFICES ASSUME a < t PROVE FALSE
    BY <1>2
  <2>1. t \in Span(a, InsnLen[a]) \ {a}
    BY <1>2, <1>3 DEF Span
  <2> QED BY <1>2, <2>1 DEF Tiles
<1>5. a \in Span(t, WindowSize)
  BY <1>2, <1>3, <1>4 DEF Span
<1> QED BY <1>1, <1>5

LEMMA WholeKeeps ==
  ASSUME Whole, Apart, Shape, NEW h \in Hook, HookStep(h)
  PROVE  Whole' /\ tangled \subseteq tangled'
<1>1. ASSUME NEW s \in Entry, tangled' = tangled \cup OutOfTurn(h, s)
      PROVE  tangled' \in {tangled, tangled \cup Span(s, WindowSize)}
  <2> SUFFICES ASSUME NEW a \in OutOfTurn(h, s) PROVE OutOfTurn(h, s) = Span(s, WindowSize)
    BY <1>1
  <2>1. PICK g \in Hook \ {h} : /\ a \in Window(g)
                                /\ op[g] # "idle" \/ (hook[h].st = "live" /\ g \notin older[h])
    BY DEF OutOfTurn
  <2>2. hook[g].src \in Entry /\ Window(g) = Span(hook[g].src, WindowSize)
    <3>1. HookType(g)
      BY DEF Shape, HookTypes
    <3>2. hook[g].src \in Entry \cup {0}
      BY <3>1 DEF HookType, IsHook
    <3>3. hook[g].src = 0 => Window(g) = {}
      BY DEF Window
    <3>4. hook[g].src \in Entry
      BY <2>1, <3>2, <3>3
    <3> QED BY <3>4, WindowOf
  <2>3. a \in Span(s, WindowSize)
    BY DEF OutOfTurn
  <2>4. hook[g].src = s
    <3>1. a \in Span(hook[g].src, WindowSize)
      BY <2>1, <2>2
    <3>2. Span(s, WindowSize) \cap Span(hook[g].src, WindowSize) # {}
      BY <2>3, <3>1
    <3>3. hook[g].src \in Entry
      BY <2>2
    <3> QED BY <3>2, <3>3 DEF Apart
  <2> QED BY <2>1, <2>2, <2>4 DEF OutOfTurn
<1>2. tangled' = tangled \/ \E s \in Entry : tangled' = tangled \cup Span(s, WindowSize)
  <2>1. CASE \E src \in Entry : NewBegin(h, src)
    BY <1>1, <2>1 DEF NewBegin
  <2>2. CASE NewDecode(h) \/ NewSave(h)
    BY <2>2 DEF NewDecode, NewSave, history
  <2>3. CASE \E m \in {"enable", "disable", "drop"} : Begins(h, m)
    <3>1. hook[h].src \in Entry /\ tangled' = tangled \cup OutOfTurn(h, hook[h].src)
      BY <2>3 DEF Begins, Ready, Shape, Life
    <3> QED BY <1>1, <3>1
  <2>4. CASE Answers(h) \/ (\E i \in DOMAIN call[h].src : Stores(h, i)) \/ Finishes(h)
    BY <2>4 DEF Answers, Stores, Finishes, history
  <2>5. CASE Releases(h)
    <3>1. tangled' = tangled \/ (op[h] = "drop" /\ tangled' = tangled \cup Window(h))
      BY <2>5 DEF Releases
    <3>2. op[h] = "drop" => hook[h].src \in Entry
      BY DEF Shape, Life
    <3> QED BY <3>1, <3>2, WindowOf
  <2> QED BY <2>1, <2>2, <2>3, <2>4, <2>5, Effects
<1>3. tangled \subseteq tangled'
  BY <1>2
<1>4. Whole'
  <2> SUFFICES ASSUME NEW a \in tangled'
               PROVE  \E t \in Entry :
                        a \in Span(t, WindowSize) /\ Span(t, WindowSize) \subseteq tangled'
    BY DEF Whole, Span, WindowSize, MAX_HOOK_SIZE
  <2>1. CASE a \in tangled
    BY <1>3, <2>1 DEF Whole
  <2>2. CASE a \notin tangled
    BY <1>2, <2>2
  <2> QED BY <2>1, <2>2
<1> QED BY <1>3, <1>4

\* What is in the code is what is armed, where no write is under way.
LEMMA ShownArmed ==
  ASSUME LayerInv, NEW h \in Hook, NEW i \in DOMAIN JumpBytes(h)
  PROVE  /\ Shows(h, i) => Armed(h)
         /\ Armed(h) /\ call[h].st # "writing" => Shows(h, i)
         /\ Armed(h) => hook[h].st = "live" /\ hook[h].src \in Entry /\ hook[h].src \in Nat
<1>1. Life(h) /\ HookType(h) /\ (call[h].st # "idle" => Sends(h))
  BY DEF LayerInv, HookInv, Shape, HookTypes
<1>2. hook[h].st = "live" => i \in DOMAIN hook[h].saved
  BY <1>1, Sizes DEF Life
<1>3. Armed(h) => hook[h].st = "live" /\ hook[h].src \in Entry /\ hook[h].src \in Nat
  BY <1>1, HookAssumption DEF Armed, Life
<1>4. CASE op[h] \notin {"enable", "disable", "drop"}
  BY <1>3, <1>4 DEF Shows, Armed
<1>5. CASE op[h] \in {"enable", "disable", "drop"}
  <2>1. call[h].st \in {"writing", "done"} /\ Sends(h) /\ hook[h].st = "live"
    BY <1>1, <1>5 DEF Life, HookType, IsCall
  <2>2. call[h].st = "done" => IF call[h].ok THEN call[h].left = {} ELSE call[h].left = DOMAIN call[h].src
    BY <2>1 DEF Sends
  <2>3. i \in DOMAIN call[h].src
    BY <1>2, <2>1 DEF Sends
  <2>4. CASE op[h] = "enable"
    BY <1>3, <2>1, <2>2, <2>3, <2>4 DEF Shows, Armed
  <2>5. CASE op[h] \in {"disable", "drop"}
    BY <1>3, <2>1, <2>2, <2>3, <2>5 DEF Shows, Armed
  <2> QED BY <1>5, <2>4, <2>5
<1> QED BY <1>4, <1>5

\* What is decoded where an instruction starts, unless the jump of another address
\* reaches into it or the jump of this address is half written.
LEMMA NoJunk ==
  ASSUME LayerInv, Whole, Tiles, Apart, NEW a \in Addr \ tangled, InsnLen[a] > 0,
         \A h \in Hook : hook[h].src = a =>
           \A i, j \in DOMAIN JumpBytes(h) : Shows(h, i) => Shows(h, j),
         \A h \in Hook, i \in Nat, b \in Span(a, InsnLen[a]) :
           Covers(h, i, b) /\ Shows(h, i) => hook[h].src >= a
  PROVE  /\ Insn(mem, a).k # "junk" /\ Insn(mem, a).ip = a
         /\ Insn(mem, a).k = "text" => Intact(mem, a) /\ Insn(mem, a).len = InsnLen[a]
         /\ Insn(mem, a).k = "jmp" => Insn(mem, a).to \in JumpsAt(mem, a)
         /\ Intact(mem, a) => \A h \in Hook : hook[h].src = a =>
              \A i \in DOMAIN JumpBytes(h) : ~Shows(h, i)
<1>1. a \in Nat /\ InsnLen[a] \in Nat
  BY HookAssumption
<1>2. Span(a, InsnLen[a]) \subseteq Addr /\ a \in Span(a, InsnLen[a])
  BY <1>1 DEF Tiles, Span
<1>3. Insn(mem, a).ip = a /\ (Insn(mem, a).k = "jmp" => Insn(mem, a).to \in JumpsAt(mem, a))
  BY DEF Insn
<1>4. Insn(mem, a).k = "text" => Intact(mem, a) /\ Insn(mem, a).len = InsnLen[a]
  BY DEF Insn
<1>5. ASSUME NEW h \in Hook, hook[h].src = a, NEW i \in DOMAIN JumpBytes(h), Shows(h, i)
      PROVE  /\ Covers(h, 1, a) /\ Shows(h, 1) /\ hook[h].src \in Entry /\ mem[a] # Text(a)
             /\ \A j \in DOMAIN JumpBytes(h) : Shows(h, j)
  <2>1. \A j \in DOMAIN JumpBytes(h) : Shows(h, j)
    BY <1>5
  <2>2. Covers(h, 1, a) /\ Shows(h, 1)
    BY <1>1, <1>5, <2>1, JumpIndex DEF Covers
  <2>3. hook[h].src \in Entry
    BY <2>2, ShownLives DEF LayerInv, HookInv
  <2>4. Top(a)
    BY DEF LayerInv
  <2>5. mem[a] # Text(a)
    BY <2>2, <2>4 DEF Top, Text
  <2> QED BY <2>1, <2>2, <2>3, <2>5
<1>6. CASE \A h \in Hook : hook[h].src = a => \A i \in DOMAIN JumpBytes(h) : ~Shows(h, i)
  <2>1. ASSUME NEW b \in Span(a, InsnLen[a]) PROVE mem[b] = Text(b)
    <3>1. b \in Addr /\ Top(b) /\ b \in Nat /\ a <= b
      <4>1. b \in Addr \ tangled
        BY <1>2, WholeInsn
      <4> QED BY <1>1, <4>1, HookAssumption DEF LayerInv, Span
    <3>2. ASSUME NEW h \in Hook, NEW i \in Nat, Covers(h, i, b), Shows(h, i) PROVE FALSE
      <4>1. hook[h].src >= a /\ hook[h].src \in Entry /\ hook[h].src \in Nat
        BY <3>2, ShownLives DEF LayerInv, HookInv
      <4>2. hook[h].src # a
        BY <1>6, <3>2 DEF Covers
      <4>3. hook[h].src <= b
        <5>1. i >= 1 /\ b = hook[h].src + i - 1
          BY <3>2, JumpLength DEF Covers
        <5> QED BY <4>1, <5>1
      <4>4. hook[h].src \in Span(a, InsnLen[a]) \ {a}
        BY <1>1, <3>1, <4>1, <4>2, <4>3 DEF Span
      <4>5. InsnLen[hook[h].src] = 0
        BY <4>4 DEF Tiles
      <4>6. InsnLen[hook[h].src] > 0
        BY <4>1, HookAssumption
      <4> QED BY <4>5, <4>6
    <3> QED BY <3>1, <3>2 DEF Top
  <2>2. Intact(mem, a)
    BY <2>1 DEF Intact
  <2>3. Insn(mem, a).k = "text"
    BY <2>2 DEF Insn
  <2> QED BY <1>3, <1>4, <1>6, <2>3
<1>7. CASE \E h \in Hook : hook[h].src = a /\ \E i \in DOMAIN JumpBytes(h) : Shows(h, i)
  <2>1. mem[a] # Text(a) /\ ~Intact(mem, a)
    BY <1>2, <1>5, <1>7 DEF Intact
  <2>2. PICK h \in Hook, n \in Nat :
          /\ mem[a] = <<"jmp", h, n>> /\ Covers(h, n, a) /\ Shows(h, n)
          /\ \A k \in Hook \ {h}, j \in Nat : Covers(k, j, a) /\ Shows(k, j) => k \in older[h]
    BY <2>1 DEF LayerInv, Top
  <2>3. hook[h].src = a /\ a \in Entry
    <3>1. PICK g \in Hook : hook[g].src = a /\ \E i \in DOMAIN JumpBytes(g) : Shows(g, i)
      BY <1>7
    <3>2. hook[g].src \in Entry /\ Covers(g, 1, a)
      BY <1>5, <3>1
    <3>3. a \in Window(g)
      BY <3>2, CoveredLies
    <3>4. hook[h].src \in Entry
      BY <2>2, ShownLives DEF LayerInv, HookInv
    <3>5. a \in Window(h)
      BY <2>2, <3>4, CoveredLies
    <3> QED BY <3>1, <3>2, <3>3, <3>4, <3>5, SameSource
  <2>4. \A j \in DOMAIN JumpBytes(h) : Shows(h, j)
    BY <2>2, <2>3 DEF Covers
  <2>5. ASSUME NEW j \in DOMAIN JumpBytes(h)
        PROVE  a + j - 1 \in Addr /\ mem[a + j - 1] = <<"jmp", h, j>>
    <3>1. PICK b : b = a + j - 1
      OBVIOUS
    <3>2. Covers(h, j, b) /\ Shows(h, j) /\ j \in Nat
      BY <2>3, <2>4, <3>1, JumpIndex DEF Covers
    <3>3. b \in Addr \ tangled /\ b \in Window(h)
      <4>1. b \in Addr /\ b \in Window(h)
        BY <2>3, <3>2, CoveredLies
      <4>2. Window(h) = Span(a, WindowSize) /\ a \in Window(h)
        BY <2>2, <2>3, WindowOf, CoveredLies
      <4> QED BY <2>3, <4>1, <4>2, WholeWindow
    <3>4. PICK k \in Hook, m \in Nat :
            /\ mem[b] = <<"jmp", k, m>> /\ Covers(k, m, b) /\ Shows(k, m)
            /\ \A x \in Hook \ {k}, l \in Nat : Covers(x, l, b) /\ Shows(x, l) => x \in older[k]
      BY <3>2, <3>3 DEF LayerInv, Top
    <3>5. hook[k].src = a
      <4>1. hook[k].src \in Entry
        BY <3>4, ShownLives DEF LayerInv, HookInv
      <4>2. b \in Window(k)
        BY <3>4, <4>1, CoveredLies
      <4> QED BY <2>3, <3>3, <4>1, <4>2, SameSource
    <3>6. k = h
      <4> SUFFICES ASSUME k # h PROVE FALSE
        OBVIOUS
      <4>1. h \in older[k]
        BY <3>2, <3>4
      <4>2. Covers(k, 1, a) /\ Shows(k, 1)
        BY <1>5, <3>4, <3>5 DEF Covers
      <4>3. k \in older[h]
        BY <2>2, <4>2
      <4> QED BY <4>1, <4>3 DEF LayerInv, HookInv, Stacks
    <3>7. m = j
      BY <1>1, <3>1, <3>2, <3>4, <3>5 DEF Covers
    <3> QED BY <3>1, <3>3, <3>4, <3>6, <3>7
  <2>6. h \in JumpsAt(mem, a)
    BY <2>5 DEF JumpsAt
  <2>7. Insn(mem, a).k = "jmp"
    BY <2>1, <2>6 DEF Insn
  <2> QED BY <1>3, <1>4, <2>1, <2>7
<1> QED BY <1>6, <1>7

(***************************************************************************)
(* Trampolines.                                                            *)
(***************************************************************************)
\* A step arms nothing but by `enable`.
LEMMA ArmedStep ==
  ASSUME LayerInv, NEW h \in Hook, HookStep(h)
  PROVE  Armed(h)' => (Armed(h) \/ Begins(h, "enable")) /\ hook'[h].src = hook[h].src
<1>0. Life(h) /\ Shape
  BY DEF LayerInv, HookInv, Shape
<1>1. CASE \E src \in Entry : NewBegin(h, src)
  BY <1>0, <1>1, NewBeginDoes DEF Armed
<1>2. CASE NewDecode(h)
  <2>1. op[h] = "new" /\ UNCHANGED <<hook, op>>
    BY <1>2 DEF NewDecode, Inside
  <2> QED BY <1>0, <2>1 DEF Armed, Life
<1>3. CASE NewSave(h)
  BY <1>0, <1>3, NewSaveDoes DEF Armed
<1>4. CASE Begins(h, "enable")
  BY <1>4 DEF Begins
<1>5. CASE \E m \in {"disable", "drop"} : Begins(h, m)
  <2>1. hook' = hook /\ op[h] = "idle" /\ hook[h].enabled
    BY <1>5 DEF Begins, Ready, Inside
  <2> QED BY <2>1 DEF Armed
<1>6. CASE Answers(h)
  <2>1. /\ op[h] \in {"enable", "disable"} /\ op'[h] = "idle" /\ hook'[h].src = hook[h].src
        /\ call[h].st = "done"
        /\ hook'[h].enabled <=> IF op[h] = "enable" THEN call[h].ok ELSE ~call[h].ok
    BY <1>6 DEF Answers
  <2> QED BY <2>1 DEF Armed
<1>7. CASE Releases(h)
  BY <1>7 DEF Releases, Armed
<1>8. CASE (\E i \in DOMAIN call[h].src : Stores(h, i)) \/ Finishes(h)
  <2>1. hook' = hook /\ op' = op /\ op[h] \in {"enable", "disable", "drop"} /\ call[h].st = "writing"
    BY <1>8 DEF Stores, Finishes
  <2> QED BY <2>1 DEF Armed
<1> QED BY <1>0, <1>1, <1>2, <1>3, <1>4, <1>5, <1>6, <1>7, <1>8, Effects

\* What decodes at the place where a trampoline goes on.
LEMMA DecodesNext ==
  ASSUME LayerInv, Whole, RunInv, Tiles, Apart, NEW h \in Hook, op[h] = "new",
         hook[h].src \notin tangled, stub[h].back \in Window(h), hook[h].src \in Entry, hook[h].src + MAX_HOOK_SIZE > stub[h].back,
         stub[h].code = <<>> => stub[h].back = hook[h].src,
         Followed(stub[h].code, Len(stub[h].code) + 1), stub[h].code \in Seq(Insns)
  PROVE  /\ stub[h].back \in Addr /\ InsnLen[stub[h].back] > 0
         /\ Insn(mem, stub[h].back).k # "junk" /\ Insn(mem, stub[h].back).ip = stub[h].back
         /\ Insn(mem, stub[h].back).k = "text" =>
              /\ Insn(mem, stub[h].back).len = InsnLen[stub[h].back]
              /\ stub[h].code = <<>> => \A g \in Hook : hook[g].enabled => hook[g].src # hook[h].src
<1>1. PICK a : a = stub[h].back
  OBVIOUS
<1>2. a \in Addr /\ InsnLen[a] > 0 /\ Trampoline(h)
  BY <1>1 DEF RunInv, Trampoline, Runs
<1>3. a \in Nat /\ InsnLen[a] \in Nat /\ InsnLen[a] <= Slack + 1 /\ Slack \in Nat /\ HOOK_SIZE_ABSOLUTE \in Nat
  BY <1>2, HookAssumption
<1>4. hook[h].src \in Nat /\ Window(h) \cap tangled = {}
  <2>1. hook[h].src \in Window(h) /\ Window(h) = Span(hook[h].src, WindowSize)
    BY CoversFirst, WindowOf
  <2> QED BY <2>1, WholeWindow, HookAssumption
<1>5. Span(a, InsnLen[a]) \subseteq Window(h)
  <2>1. Window(h) = Span(hook[h].src, WindowSize) /\ WindowSize = HOOK_SIZE_ABSOLUTE + Slack
    BY WindowOf DEF WindowSize, MAX_HOOK_SIZE
  <2>2. hook[h].src <= a
    <3>1. a \in Span(hook[h].src, WindowSize)
      BY <1>1, <2>1
    <3> QED BY <1>3, <1>4, <3>1, Sizes DEF Span
  <2>3. a < hook[h].src + HOOK_SIZE_ABSOLUTE
    BY <1>1 DEF MAX_HOOK_SIZE
  <2>4. ASSUME NEW b \in Span(a, InsnLen[a]) PROVE b \in Span(hook[h].src, WindowSize)
    <3>1. b \in Nat /\ a <= b /\ b <= a + InsnLen[a] - 1
      BY <1>3 DEF Span
    <3>2. hook[h].src <= b /\ b <= hook[h].src + WindowSize - 1
      BY <1>3, <1>4, <2>1, <2>2, <2>3, <3>1, SMTT(30)
    <3> QED BY <1>4, <3>1, <3>2, Sizes DEF Span
  <2> QED BY <2>1, <2>4
<1>6. ASSUME NEW g \in Hook, hook[g].src \in Entry, NEW b, b \in Window(h), b \in Window(g)
      PROVE  /\ g = h \/ op[g] = "idle"
             /\ hook[g].src = hook[h].src
             /\ \A i : Shows(g, i) => hook[g].enabled /\ op[g] = "idle"
  <2>1. g = h \/ op[g] = "idle"
    BY <1>4, <1>6 DEF LayerInv, HookInv, Stacks, Overlaps
  <2>2. hook[g].src = hook[h].src
    BY <1>6, SameSource
  <2>3. ~hook[h].enabled
    BY DEF LayerInv, HookInv, Shape, Life
  <2> QED BY <2>1, <2>2, <2>3 DEF Shows
<1>7. ASSUME NEW g \in Hook, hook[g].src = a
      PROVE  \A i, j \in DOMAIN JumpBytes(g) : Shows(g, i) => Shows(g, j)
  <2> SUFFICES ASSUME NEW i \in DOMAIN JumpBytes(g), NEW j \in DOMAIN JumpBytes(g), Shows(g, i)
               PROVE  Shows(g, j)
    OBVIOUS
  <2>1. i \in Nat
    BY JumpIndex
  <2>2. hook[g].src \in Entry
    BY <2>1, ShownLives DEF LayerInv, HookInv
  <2>3. Covers(g, 1, a)
    BY <1>3, <1>7, JumpIndex DEF Covers
  <2>4. a \in Window(g)
    BY <2>2, <2>3, CoveredLies
  <2>5. hook[g].enabled /\ op[g] = "idle"
    BY <1>1, <1>6, <2>2, <2>4
  <2> QED BY <2>5 DEF Shows
<1>8. ASSUME NEW g \in Hook, NEW i \in Nat, NEW b \in Span(a, InsnLen[a]), Covers(g, i, b), Shows(g, i)
      PROVE  hook[g].src >= a
  <2>1. hook[g].src \in Entry
    BY <1>8, ShownLives DEF LayerInv, HookInv
  <2>2. b \in Window(g) /\ b \in Window(h)
    BY <1>5, <1>8, <2>1, CoveredLies
  <2>3. hook[g].src = hook[h].src /\ hook[g].enabled
    BY <1>6, <1>8, <2>1, <2>2
  <2>4. stub[h].code # <<>> => stub[h].code[1].k = "text"
    BY DEF Followed
  <2>5. stub[h].code = <<>>
    BY <1>2, <2>3, <2>4 DEF Trampoline
  <2> QED BY <1>1, <1>3, <2>3, <2>5
<1>9. /\ Insn(mem, a).k # "junk" /\ Insn(mem, a).ip = a
      /\ Insn(mem, a).k = "text" => Intact(mem, a) /\ Insn(mem, a).len = InsnLen[a]
      /\ Intact(mem, a) => \A g \in Hook : hook[g].src = a =>
           \A i \in DOMAIN JumpBytes(g) : ~Shows(g, i)
  BY <1>1, <1>2, <1>4, <1>7, <1>8, NoJunk
<1>10. ASSUME Insn(mem, a).k = "text", stub[h].code = <<>>, NEW g \in Hook, hook[g].enabled,
              hook[g].src = hook[h].src
       PROVE  FALSE
  <2>1. hook[g].src = a
    BY <1>1, <1>10
  <2>2. ~Shows(g, 1)
    BY <1>9, <1>10, <2>1, JumpIndex
  <2>3. a \in Window(g) /\ a \in Window(h)
    BY <1>1, <1>10 DEF Window
  <2>4. g = h \/ op[g] = "idle"
    BY <1>6, <1>10, <2>3
  <2>5. ~hook[h].enabled
    BY DEF LayerInv, HookInv, Shape, Life
  <2> QED BY <1>10, <2>2, <2>4, <2>5 DEF Shows
<1> QED BY <1>1, <1>2, <1>9, <1>10

LEMMA NewBeginRuns ==
  ASSUME LayerInv, NEW h \in Hook, NEW src \in Entry, NewBegin(h, src)
  PROVE  Trampoline(h)'
<1>1. /\ hook'[h].st = "none" /\ hook'[h].src = src /\ stub'[h].back = src /\ stub'[h].code = <<>>
  BY NewBeginDoes DEF LayerInv, HookInv
<1>2. src \in Addr /\ InsnLen[src] > 0 /\ src <= src + WindowSize
  <2>1. src \in Addr /\ InsnLen[src] > 0 /\ src \in Nat
    BY HookAssumption
  <2> QED BY <2>1, Sizes
<1>3. Runs(h, stub[h].code, stub[h].back)'
  BY <1>1, <1>2 DEF Runs
<1> QED BY <1>1, <1>3 DEF Trampoline

LEMMA NewDecodeRuns ==
  ASSUME PathInv, LayerInv, Whole, RunInv, Tiles, Apart, NEW h \in Hook, NewDecode(h)
  PROVE  Trampoline(h)'
<1> DEFINE d == Insn(mem, stub[h].back)
           n == Len(stub[h].code)
<1>1. /\ op[h] = "new" /\ stub[h].back \in Addr
      /\ stub'[h].code = Append(stub[h].code, d) /\ stub'[h].back = stub[h].back + d.len
      /\ stub[h].code \in Seq(Insns) /\ UNCHANGED <<hook, op, tangled>>
  BY NewDecodeDoes DEF LayerInv, HookInv, history
<1>2. /\ hook[h].st = "none" /\ hook[h].src \in Entry /\ hook[h].src <= stub[h].back
      /\ stub[h].back < hook[h].src + MAX_HOOK_SIZE
  <2>1. hook[h].st = "none" /\ hook[h].src \in Entry /\ hook[h].src <= stub[h].back /\ ~Covered(h)
    BY <1>1 DEF NewDecode, LayerInv, HookInv, Shape, Life
  <2>2. MAX_HOOK_SIZE \in Nat /\ hook[h].src \in Nat /\ stub[h].back \in Nat
    BY <1>1, <2>1, HookAssumption DEF MAX_HOOK_SIZE
  <2> QED BY <2>1, <2>2 DEF Covered
<1>3. /\ n \in Nat /\ Len(stub'[h].code) = n + 1 /\ stub'[h].code[n + 1] = d
      /\ \A i \in 1..n : stub'[h].code[i] = stub[h].code[i]
      /\ stub[h].code = <<>> <=> n = 0
  BY <1>1
<1>4. stub[h].code = <<>> => stub[h].back = hook[h].src
  BY <1>1, EmptyStub
<1>5. stub[h].back \in Window(h)
  <2>1. MAX_HOOK_SIZE <= WindowSize /\ MAX_HOOK_SIZE \in Nat /\ Addr \subseteq Nat
    BY HookAssumption DEF MAX_HOOK_SIZE, WindowSize
  <2>2. stub[h].back \in Nat /\ hook[h].src \in Nat
    BY <1>1, <1>2, <2>1, HookAssumption
  <2>3. stub[h].back \in Span(hook[h].src, WindowSize)
    BY <1>2, <2>1, <2>2, Sizes DEF Span
  <2> QED BY <1>2, <2>3, WindowOf
<1>6. ASSUME Followed(stub[h].code, n + 1), hook[h].src \notin tangled
      PROVE  /\ d.k # "junk" /\ d.ip = stub[h].back /\ InsnLen[stub[h].back] > 0
             /\ d.k = "text" => d.len = InsnLen[stub[h].back]
             /\ d.k = "text" /\ stub[h].code = <<>> =>
                  \A g \in Hook : hook[g].enabled => hook[g].src # hook[h].src
  <2>1. hook[h].src + MAX_HOOK_SIZE > stub[h].back
    <3>1. MAX_HOOK_SIZE \in Nat /\ hook[h].src \in Nat /\ stub[h].back \in Nat
      BY <1>1, <1>2, HookAssumption DEF MAX_HOOK_SIZE
    <3> QED BY <1>2, <3>1
  <2> QED BY <1>1, <1>2, <1>4, <1>5, <1>6, <2>1, DecodesNext
<1> HIDE DEF d, n
<1>7. /\ hook[h].src \notin tangled => Runs(h, stub[h].code, stub[h].back)
      /\ Trampoline(h)
  BY <1>1 DEF RunInv, Trampoline
<1>8. ASSUME NEW i \in 1..(n + 1), Followed(stub'[h].code, i) PROVE Followed(stub[h].code, i)
  BY <1>3, <1>8 DEF Followed
<1>9. ASSUME hook[h].src \notin tangled, NEW i \in 1..(n + 1), Followed(stub'[h].code, i)
      PROVE  /\ stub'[h].code[i].k # "junk" /\ stub'[h].code[i].ip \in Addr
             /\ InsnLen[stub'[h].code[i].ip] > 0
  <2>1. Followed(stub[h].code, i)
    BY <1>8, <1>9
  <2>2. CASE i = n + 1
    BY <1>1, <1>3, <1>6, <1>9, <2>1, <2>2
  <2>3. CASE i # n + 1
    <3>1. i \in 1..n /\ stub'[h].code[i] = stub[h].code[i]
      BY <1>3, <2>3
    <3> QED BY <1>7, <1>9, <2>1, <3>1 DEF Runs, n
  <2> QED BY <2>2, <2>3
<1>10. ASSUME hook[h].src \notin tangled, Followed(stub'[h].code, n + 2)
       PROVE  /\ stub'[h].back \in Addr /\ InsnLen[stub'[h].back] > 0
              /\ stub'[h].back <= hook[h].src + WindowSize
  <2>1. d.k = "text" /\ d.ip \notin Ret /\ Followed(stub[h].code, n + 1)
    <3>1. n + 1 \in 1..(n + 2 - 1) /\ Followed(stub'[h].code, n + 1) /\ n + 1 \in 1..(n + 1)
      BY <1>3, <1>10 DEF Followed
    <3> QED BY <1>3, <1>8, <1>10, <3>1 DEF Followed
  <2>2. /\ stub[h].back \notin Ret /\ InsnLen[stub[h].back] > 0
        /\ stub'[h].back = stub[h].back + InsnLen[stub[h].back]
    BY <1>1, <1>6, <1>10, <2>1
  <2>3. stub'[h].back \in Addr /\ InsnLen[stub'[h].back] > 0
    BY <1>1, <2>2 DEF Tiles
  <2>4. /\ stub[h].back \in Nat /\ InsnLen[stub[h].back] \in 0..(Slack + 1) /\ hook[h].src \in Nat
        /\ Slack \in Nat /\ HOOK_SIZE_ABSOLUTE \in Nat
    <3>1. \A a \in Addr : a \in Nat /\ InsnLen[a] \in 0..(Slack + 1)
      BY HookAssumption
    <3> QED BY <1>1, <1>2, <3>1, HookAssumption
  <2>5. stub[h].back + InsnLen[stub[h].back] <= hook[h].src + WindowSize
    BY <1>2, <2>4 DEF WindowSize, MAX_HOOK_SIZE
  <2> QED BY <2>2, <2>3, <2>5
<1>11. hook[h].src \notin tangled => Runs(h, stub[h].code, stub[h].back)'
  <2>1. Len(stub'[h].code) + 1 = n + 2
    BY <1>3
  <2> QED BY <1>1, <1>3, <1>9, <1>10, <2>1 DEF Runs, Followed
<1>12. ASSUME stub'[h].code[1].k = "text", NEW g \in Hook, hook[g].enabled,
              hook[g].src = hook[h].src
       PROVE  hook[h].src \in tangled
  <2>1. CASE n = 0
    <3>1. Followed(stub[h].code, n + 1)
      BY <2>1 DEF Followed
    <3> QED BY <1>3, <1>6, <1>12, <2>1, <3>1
  <2>2. CASE n # 0
    <3>1. stub'[h].code[1] = stub[h].code[1] /\ stub[h].code # <<>>
      BY <1>3, <2>2
    <3> QED BY <1>1, <1>7, <1>12, <3>1 DEF Trampoline
  <2> QED BY <2>1, <2>2
<1> QED BY <1>1, <1>2, <1>11, <1>12 DEF Trampoline

LEMMA NewSaveRuns ==
  ASSUME LayerInv, RunInv, NEW h \in Hook, NewSave(h)
  PROVE  Trampoline(h)'
<1>1. /\ op[h] = "new" /\ op'[h] = "idle" /\ hook'[h].src = hook[h].src
      /\ stub'[h].code = stub[h].code /\ stub'[h].back = stub[h].back /\ Covered(h)
      /\ tangled' = tangled
  BY NewSaveDoes DEF LayerInv, HookInv, NewSave, history
<1>2. hook[h].src \notin tangled => Runs(h, stub[h].code, stub[h].back)
  BY <1>1 DEF RunInv, Trampoline
<1>3. hook[h].src \notin tangled => Runs(h, stub[h].code, stub[h].back)'
  BY <1>1, <1>2 DEF Runs, Followed
<1> QED BY <1>1, <1>3 DEF Trampoline, Covered, MAX_HOOK_SIZE

LEMMA MethodRuns ==
  ASSUME LayerInv, RunInv, NEW h \in Hook, hook[h].st = "live", hook'[h].st = hook[h].st,
         hook'[h].src = hook[h].src, stub'[h] = stub[h], op'[h] # "new",
         tangled \subseteq tangled'
  PROVE  Trampoline(h)'
<1>1. /\ hook[h].src \notin tangled => Runs(h, stub[h].code, stub[h].back)
      /\ stub[h].back >= hook[h].src + MAX_HOOK_SIZE
  BY DEF RunInv, Trampoline
<1>2. hook[h].src \notin tangled => Runs(h, stub[h].code, stub[h].back)'
  BY <1>1 DEF Runs, Followed
<1> QED BY <1>1, <1>2 DEF Trampoline, MAX_HOOK_SIZE

LEMMA OthersRun ==
  ASSUME LayerInv, RunInv, NEW h \in Hook, HookStep(h), tangled \subseteq tangled',
         NEW g \in Hook, g # h
  PROVE  Trampoline(g)'
<1>1. OthersSame(h) /\ Trampoline(g) /\ Shape /\ Life(h)
  BY Effects DEF LayerInv, HookInv, Shape, RunInv
<1>2. hook'[g] = hook[g] /\ stub'[g] = stub[g] /\ op'[g] = op[g]
  BY <1>1 DEF OthersSame
<1>3. Runs(g, stub[g].code, stub[g].back) => Runs(g, stub[g].code, stub[g].back)'
  BY <1>2 DEF Runs, Followed
<1>4. ASSUME op[g] = "new", stub[g].code # <<>>, stub[g].code[1].k = "text",
             NEW k \in Hook, hook'[k].enabled, hook'[k].src = hook[g].src
      PROVE  hook[g].src \in tangled
  <2>1. CASE k # h
    BY <1>1, <1>4, <2>1 DEF OthersSame, Trampoline
  <2>2. CASE k = h
    <3>1. /\ op[h] = "idle" => hook[h].enabled
          /\ hook[h].st = "live" /\ hook'[h].src = hook[h].src
      BY <1>1, <1>4, <2>2, FlagStep
    <3>2. CASE op[h] = "idle"
      BY <1>1, <1>4, <2>2, <3>1, <3>2 DEF Trampoline
    <3>3. CASE op[h] # "idle"
      <4>1. ~Overlaps(h, g) /\ hook[h].src \in Entry
        BY <1>1, <1>4, <3>1, <3>3 DEF LayerInv, HookInv, Stacks, Life
      <4>2. hook[h].src \in Window(h) /\ hook[h].src \in Window(g)
        BY <1>4, <2>2, <3>1, <4>1, CoversFirst DEF Window
      <4> QED BY <1>4, <2>2, <3>1, <4>1, <4>2 DEF Overlaps
    <3> QED BY <3>2, <3>3
  <2> QED BY <2>1, <2>2
<1> QED BY <1>1, <1>2, <1>3, <1>4 DEF Trampoline, MAX_HOOK_SIZE

LEMMA HookRuns ==
  ASSUME PathInv, LayerInv, Whole, RunInv, Tiles, Apart, NEW h \in Hook, HookStep(h)
  PROVE  RunInv'
<1>0. Life(h) /\ Shape /\ tangled \subseteq tangled'
  BY WholeKeeps DEF LayerInv, HookInv, Shape
<1>1. CASE \E src \in Entry : NewBegin(h, src)
  BY <1>0, <1>1, NewBeginRuns, OthersRun DEF RunInv
<1>2. CASE NewDecode(h)
  BY <1>0, <1>2, NewDecodeRuns, OthersRun DEF RunInv
<1>3. CASE NewSave(h)
  BY <1>0, <1>3, NewSaveRuns, OthersRun DEF RunInv
<1>4. CASE \E m \in {"enable", "disable", "drop"} : Begins(h, m)
  <2>1. hook' = hook /\ stub' = stub /\ hook[h].st = "live" /\ op'[h] # "new"
    BY <1>4 DEF Begins, Ready
  <2>2. Trampoline(h)'
    BY <1>0, <2>1, MethodRuns
  <2> QED BY <1>0, <2>2, OthersRun DEF RunInv
<1>5. CASE Answers(h)
  <2>1. /\ hook'[h].st = hook[h].st /\ hook'[h].src = hook[h].src /\ stub' = stub
        /\ hook[h].st = "live" /\ op'[h] # "new"
    BY <1>0, <1>5 DEF Answers, Life
  <2>2. Trampoline(h)'
    BY <1>0, <2>1, MethodRuns
  <2> QED BY <1>0, <2>2, OthersRun DEF RunInv
<1>6. CASE Releases(h)
  <2>1. Trampoline(h)'
    BY <1>6 DEF Releases, Trampoline
  <2> QED BY <1>0, <2>1, OthersRun DEF RunInv
<1>7. CASE (\E i \in DOMAIN call[h].src : Stores(h, i)) \/ Finishes(h)
  <2>1. hook' = hook /\ stub' = stub /\ op' = op /\ op[h] \in {"enable", "disable", "drop"}
    BY <1>7 DEF Stores, Finishes
  <2>2. hook[h].st = "live" /\ op'[h] # "new"
    BY <1>0, <2>1 DEF Life
  <2>3. Trampoline(h)'
    BY <1>0, <2>1, <2>2, MethodRuns
  <2> QED BY <1>0, <2>3, OthersRun DEF RunInv
<1> QED BY <1>0, <1>1, <1>2, <1>3, <1>4, <1>5, <1>6, <1>7, Effects

(***************************************************************************)
(* Processors.                                                             *)
(***************************************************************************)
\* A hook is there for the processors that execute its destination or its trampoline
\* until it is released.
LEMMA PresentStays ==
  ASSUME LayerInv, NEW h \in Hook, HookStep(h), Present(h)
  PROVE  (Present(h)' /\ stub'[h] = stub[h] /\ hook'[h].src = hook[h].src) \/ Releases(h)
<1>0. Life(h) /\ Shape /\ hook[h].st = "live"
  BY DEF LayerInv, HookInv, Shape, Present
<1>1. CASE (\E src \in Entry : NewBegin(h, src)) \/ NewDecode(h) \/ NewSave(h)
  BY <1>0, <1>1 DEF NewBegin, NewDecode, NewSave, Inside, Life
<1>2. CASE (\E m \in {"enable", "disable", "drop"} : Begins(h, m)) \/ Answers(h)
           \/ (\E i \in DOMAIN call[h].src : Stores(h, i)) \/ Finishes(h)
  BY <1>0, <1>2 DEF Begins, Answers, Stores, Finishes, Present
<1> QED BY <1>0, <1>1, <1>2, Effects

\* A place that is safe for a processor stays safe, unless it is caught there.
LEMMA SafeStays ==
  ASSUME LayerInv, NEW h \in Hook, HookStep(h), tangled \subseteq tangled', NEW c \in Cpu \ shaken',
         NEW a, ip[c] = <<"text", a>>, Safe(a)
  PROVE  Safe(a)'
<1>1. OthersSame(h)
  BY Effects DEF LayerInv, HookInv
<1> SUFFICES ASSUME a \notin tangled', NEW g \in Hook, Armed(g)',
                    hook'[g].src < a, a < hook'[g].src + Len(JumpBytes(g))
             PROVE  FALSE
  BY SameJump DEF Safe
<1>2. CASE g # h
  BY <1>1, <1>2 DEF OthersSame, Armed, Safe
<1>3. CASE g = h
  <2>1. (Armed(h) \/ Begins(h, "enable")) /\ hook'[h].src = hook[h].src
    BY <1>3, ArmedStep
  <2>2. CASE Armed(h)
    BY <1>3, <2>1, <2>2 DEF Safe
  <2>3. CASE Begins(h, "enable")
    <3>1. c \notin Caught(h) /\ hook[h].src \in Entry
      BY <2>3 DEF Begins, Ready, LayerInv, HookInv, Shape, Life
    <3>2. a \in Window(h)
      <4>1. /\ Len(JumpBytes(h)) \in Nat /\ Len(JumpBytes(h)) < MAX_HOOK_SIZE
            /\ MAX_HOOK_SIZE \in Nat /\ MAX_HOOK_SIZE <= WindowSize
        BY JumpIndex
      <4>2. a \in Nat /\ hook[h].src \in Nat
        BY <3>1, HookAssumption DEF Safe
      <4>3. hook[h].src < a /\ a < hook[h].src + Len(JumpBytes(h))
        BY <1>3, <2>1
      <4> HIDE DEF JumpBytes
      <4>4. a \in Span(hook[h].src, WindowSize)
        BY <4>1, <4>2, <4>3, Sizes DEF Span
      <4> QED BY <3>1, <4>4, WindowOf
    <3>3. ip[c][1] = "text" /\ ip[c][2] = a
      OBVIOUS
    <3>4. a = hook[h].src
      BY <3>1, <3>2, <3>3 DEF Caught
    <3>5. a \in Nat
      BY <3>1, <3>4, HookAssumption
    <3> QED BY <1>3, <2>1, <3>4, <3>5
  <2> QED BY <2>1, <2>2, <2>3
<1> QED BY <1>2, <1>3

\* Steps of hooks move no processor and excuse none.
LEMMA HookShakes ==
  ASSUME Shape, NEW h \in Hook, HookStep(h)
  PROVE  ip' = ip /\ shaken \subseteq shaken'
BY Effects DEF NewBegin, NewDecode, NewSave, Begins, Answers, Releases, Stores, Finishes,
               cpuVars, history

LEMMA HookSound ==
  ASSUME LayerInv, Whole, Apart, CpuInv, NEW h \in Hook, HookStep(h)
  PROVE  CpuInv'
<1>1. OthersSame(h) /\ ip' = ip /\ shaken \subseteq shaken' /\ tangled \subseteq tangled'
  BY Effects, HookShakes, WholeKeeps DEF LayerInv, HookInv
<1>2. ASSUME NEW g \in Hook, NEW c \in Cpu \ shaken', Present(g),
             ip[c][1] \in {"dst", "stub"}, ip[c][2] = g
      PROVE  Present(g)' /\ stub'[g] = stub[g] /\ hook'[g].src = hook[g].src
  <2>1. CASE g # h
    BY <1>1, <1>2, <2>1 DEF OthersSame, Present
  <2>2. CASE g = h
    <3>1. ~Releases(h)
      BY <1>2, <2>2 DEF Releases, Guests
    <3> QED BY <1>2, <2>2, <3>1, PresentStays
  <2> QED BY <2>1, <2>2
<1> SUFFICES ASSUME NEW c \in Cpu \ shaken' PROVE Sound(c)'
  BY DEF CpuInv
<1>3. CASE ip[c] = <<"idle">>
  BY <1>1, <1>3 DEF Sound
<1>4. CASE \E a \in Addr : ip[c] = <<"text", a>> /\ Safe(a)
  <2>1. PICK a \in Addr : ip[c] = <<"text", a>> /\ Safe(a)
    BY <1>4
  <2>2. Safe(a)'
    BY <1>1, <2>1, SafeStays
  <2> QED BY <1>1, <2>1, <2>2 DEF Sound
<1>5. CASE \E g \in Hook : ip[c] = <<"dst", g>> /\ Present(g)
  <2>1. PICK g \in Hook : ip[c] = <<"dst", g>> /\ Present(g)
    BY <1>5
  <2>2. ip[c][1] = "dst" /\ ip[c][2] = g
    BY <2>1
  <2>3. Present(g)'
    BY <1>2, <2>1, <2>2
  <2> QED BY <1>1, <2>1, <2>3 DEF Sound
<1>6. CASE \E g \in Hook, i \in Nat \ {0} :
             /\ ip[c] = <<"stub", g, i>> /\ Present(g)
             /\ i <= Len(stub[g].code) + 1 /\ Followed(stub[g].code, i)
             /\ i # 1 => Runs(g, stub[g].code, stub[g].back)
  <2>1. PICK g \in Hook, i \in Nat \ {0} :
             /\ ip[c] = <<"stub", g, i>> /\ Present(g)
             /\ i <= Len(stub[g].code) + 1 /\ Followed(stub[g].code, i)
             /\ i # 1 => Runs(g, stub[g].code, stub[g].back)
    BY <1>6
  <2>2. ip[c][1] = "stub" /\ ip[c][2] = g
    BY <2>1
  <2>3. Present(g)' /\ stub'[g] = stub[g] /\ hook'[g].src = hook[g].src
    BY <1>2, <2>1, <2>2
  <2>4. Followed(stub[g].code, i)' /\ (i # 1 => Runs(g, stub[g].code, stub[g].back)')
    BY <2>1, <2>3 DEF Followed, Runs
  <2> QED BY <1>1, <2>1, <2>3, <2>4 DEF Sound
<1>7. Sound(c)
  BY <1>1 DEF CpuInv
<1> QED BY <1>3, <1>4, <1>5, <1>6, <1>7 DEF Sound

\* What is decoded where it is safe to be and the code is steady.
LEMMA SafeDecodes ==
  ASSUME LayerInv, Whole, Tiles, Apart, NEW a, Safe(a), ~Unsteady(a)
  PROVE  /\ Insn(mem, a).k # "junk" /\ Insn(mem, a).ip = a
         /\ Insn(mem, a).k = "text" =>
              /\ Insn(mem, a).len = InsnLen[a]
              /\ \A h \in Hook : hook[h].src = a => ~Armed(h)
         /\ Insn(mem, a).k = "jmp" =>
              Insn(mem, a).to \in Hook /\ Shows(Insn(mem, a).to, 1)
<1>1. a \in Addr \ tangled /\ InsnLen[a] > 0
      /\ \A h \in Hook : a \in Window(h) => call[h].st # "writing"
  BY DEF Safe, Unsteady
<1>2. ASSUME NEW h \in Hook, hook[h].src = a, NEW i \in DOMAIN JumpBytes(h),
             NEW j \in DOMAIN JumpBytes(h), Shows(h, i)
      PROVE  Shows(h, j)
  <2>1. Armed(h) /\ hook[h].src \in Entry
    BY <1>2, ShownArmed
  <2>2. a \in Window(h)
    BY <1>2, <2>1, CoversFirst
  <2> QED BY <1>1, <2>1, <2>2, ShownArmed
<1>3. ASSUME NEW h \in Hook, NEW i \in Nat, NEW b \in Span(a, InsnLen[a]), Covers(h, i, b), Shows(h, i)
      PROVE  hook[h].src >= a
  <2>1. Armed(h) /\ hook[h].src \in Nat /\ i \in DOMAIN JumpBytes(h) /\ b = hook[h].src + i - 1
    <3>1. i \in DOMAIN JumpBytes(h) /\ b = hook[h].src + i - 1
      BY <1>3 DEF Covers
    <3> QED BY <1>3, <3>1, ShownArmed
  <2>2. i <= Len(JumpBytes(h)) /\ Len(JumpBytes(h)) \in Nat
    BY <2>1, JumpLength
  <2>3. a \in Nat /\ InsnLen[a] \in Nat
    BY <1>1, HookAssumption
  <2>4. a <= b
    BY <2>3 DEF Span
  <2>5. ~(hook[h].src < a /\ a < hook[h].src + Len(JumpBytes(h)))
    BY <1>1, <2>1 DEF Safe
  <2> QED BY <2>1, <2>2, <2>3, <2>4, <2>5
<1>4. /\ Insn(mem, a).k # "junk" /\ Insn(mem, a).ip = a
      /\ Insn(mem, a).k = "text" => Intact(mem, a) /\ Insn(mem, a).len = InsnLen[a]
      /\ Insn(mem, a).k = "jmp" => Insn(mem, a).to \in JumpsAt(mem, a)
      /\ Intact(mem, a) => \A h \in Hook : hook[h].src = a =>
           \A i \in DOMAIN JumpBytes(h) : ~Shows(h, i)
  BY <1>1, <1>2, <1>3, NoJunk
<1>5. ASSUME Insn(mem, a).k = "text", NEW h \in Hook, hook[h].src = a PROVE ~Armed(h)
  <2>1. 1 \in DOMAIN JumpBytes(h)
    BY JumpIndex
  <2>2. ~Shows(h, 1)
    BY <1>4, <1>5, <2>1
  <2>3. Armed(h) => hook[h].src \in Entry
    BY <2>1, ShownArmed
  <2>4. Armed(h) => a \in Window(h)
    BY <1>5, <2>3, CoversFirst
  <2> QED BY <1>1, <2>1, <2>2, <2>4, ShownArmed
<1>6. ASSUME Insn(mem, a).k = "jmp"
      PROVE  Insn(mem, a).to \in Hook /\ Shows(Insn(mem, a).to, 1)
  <2>1. PICK h : h = Insn(mem, a).to
    OBVIOUS
  <2>2. h \in JumpsAt(mem, a) /\ h \in Hook
    BY <1>4, <1>6, <2>1 DEF JumpsAt
  <2>3. mem[a] = <<"jmp", h, 1>>
    BY <1>1, <2>2, JumpStart
  <2>4. Shows(h, 1)
    BY <1>1, <2>2, <2>3, JumpShown
  <2> QED BY <2>1, <2>2, <2>4
<1> QED BY <1>4, <1>5, <1>6

\* The instruction after one that was executed is safe.
LEMMA NextSafe ==
  ASSUME LayerInv, Whole, Tiles, NEW a, Safe(a), a \notin Ret, a \notin tangled,
         \A h \in Hook : hook[h].src = a => ~Armed(h)
  PROVE  Safe(a + InsnLen[a])
<1>1. a \in Addr /\ InsnLen[a] > 0 /\ a \in Nat /\ InsnLen[a] \in Nat
  <2>1. \A b \in Addr : b \in Nat /\ InsnLen[b] \in Nat
    BY HookAssumption
  <2> QED BY <2>1 DEF Safe
<1>2. a + InsnLen[a] \in Addr /\ InsnLen[a + InsnLen[a]] > 0
  BY <1>1 DEF Tiles
<1>3. ASSUME NEW h \in Hook, Armed(h), hook[h].src < a + InsnLen[a],
             a + InsnLen[a] < hook[h].src + Len(JumpBytes(h))
      PROVE  FALSE
  <2>1. hook[h].src \in Entry /\ hook[h].src \in Nat /\ Len(JumpBytes(h)) \in Nat
    BY <1>3, JumpIndex, ShownArmed
  <2>2. hook[h].src # a /\ ~(hook[h].src < a /\ a < hook[h].src + Len(JumpBytes(h)))
    BY <1>3 DEF Safe
  <2>3. hook[h].src \notin Span(a, InsnLen[a]) \ {a}
    <3>1. InsnLen[hook[h].src] > 0
      BY <2>1, HookAssumption
    <3>2. \A b \in Span(a, InsnLen[a]) \ {a} : InsnLen[b] = 0
      BY <1>1 DEF Tiles
    <3> QED BY <3>1, <3>2
  <2>4. a < hook[h].src
    BY <1>1, <1>3, <2>1, <2>2
  <2>5. hook[h].src \in Span(a, InsnLen[a])
    BY <1>1, <1>3, <2>1, <2>4 DEF Span
  <2> QED BY <2>2, <2>3, <2>5
<1> QED BY <1>2, <1>3 DEF Safe

\* The place where a trampoline jumps back is safe.
LEMMA BackSafe ==
  ASSUME LayerInv, RunInv, Apart, NEW h \in Hook, hook[h].st = "live",
         Runs(h, stub[h].code, stub[h].back),
         Followed(stub[h].code, Len(stub[h].code) + 1)
  PROVE  Safe(stub[h].back)
<1>1. PICK b : b = stub[h].back
  OBVIOUS
<1>2. /\ b \in Addr /\ InsnLen[b] > 0 /\ b <= hook[h].src + WindowSize
      /\ b >= hook[h].src + MAX_HOOK_SIZE
  BY <1>1 DEF RunInv, Trampoline, Runs
<1>3. hook[h].src \in Entry /\ hook[h].src \in Nat /\ b \in Nat /\ Life(h)
  BY <1>2, HookAssumption DEF LayerInv, HookInv, Shape, Life
<1>4. ASSUME NEW g \in Hook, Armed(g), hook[g].src < b, b < hook[g].src + Len(JumpBytes(g))
      PROVE  FALSE
  <2>1. hook[g].src \in Entry /\ hook[g].src \in Nat
    BY <1>4, JumpIndex, ShownArmed
  <2>2. /\ Len(JumpBytes(g)) \in Nat /\ Len(JumpBytes(g)) < MAX_HOOK_SIZE
        /\ MAX_HOOK_SIZE \in Nat /\ MAX_HOOK_SIZE <= WindowSize
    BY JumpIndex
  <2>3. hook[g].src # hook[h].src
    BY <1>2, <1>3, <1>4, <2>1, <2>2
  <2>4. PICK x : x = b - 1
    OBVIOUS
  <2>5. x \in Span(hook[h].src, WindowSize)
    BY <1>2, <1>3, <2>2, <2>4, Sizes DEF Span
  <2>6. x \in Span(hook[g].src, WindowSize)
    BY <1>3, <1>4, <2>1, <2>2, <2>4, Sizes DEF Span
  <2> QED BY <1>3, <2>1, <2>3, <2>5, <2>6, SameFunction
<1> QED BY <1>1, <1>2, <1>4 DEF Safe

\* An entry point is safe.
LEMMA EntrySafe ==
  ASSUME LayerInv, Apart, NEW a \in Entry
  PROVE  Safe(a)
<1>1. a \in Addr /\ InsnLen[a] > 0 /\ a \in Nat
  BY HookAssumption
<1>2. ASSUME NEW g \in Hook, Armed(g), hook[g].src < a, a < hook[g].src + Len(JumpBytes(g))
      PROVE  FALSE
  <2>1. hook[g].src \in Entry /\ hook[g].src \in Nat
    BY <1>2, JumpIndex, ShownArmed
  <2>2. /\ Len(JumpBytes(g)) \in Nat /\ Len(JumpBytes(g)) < MAX_HOOK_SIZE
        /\ MAX_HOOK_SIZE \in Nat /\ MAX_HOOK_SIZE <= WindowSize
    BY JumpIndex
  <2>3. a \in Span(hook[g].src, WindowSize) /\ a \in Span(a, WindowSize)
    BY <1>1, <1>2, <2>1, <2>2, Sizes DEF Span
  <2> QED BY <1>1, <1>2, <2>1, <2>3, SameFunction
<1> QED BY <1>1, <1>2 DEF Safe

\* Where the execution of an instruction leads, when it is the right one.
LEMMA Leads ==
  ASSUME NEW s, Paths(s), NEW c \in Cpu, NEW d, NEW next, Dispatch(c, d, next),
         d.k # "junk", ip'[c] # <<"fault", "astray">>
  PROVE  \/ ip'[c] = <<"idle">>
         \/ d.k = "text" /\ d.ip \notin Ret /\ ip'[c] = next
         \/ d.k = "jmp" /\ ip'[c] = <<"dst", d.to>>
<1>1. ip = [x \in Cpu |-> ip[x]]
  BY DEF Paths
<1>2. CASE d.k = "jmp"
  BY <1>1, <1>2 DEF Dispatch
<1>3. CASE d.k = "text"
  <2>1. Execute(c, d.ip, next)
    BY <1>3 DEF Dispatch
  <2>2. d.ip = due[c]
    <3>1. CASE d.ip # due[c]
      <4>1. ip' = [ip EXCEPT ![c] = <<"fault", "astray">>]
        BY <2>1, <3>1 DEF Execute, Fault
      <4> QED BY <1>1, <4>1
    <3> QED BY <3>1
  <2> QED BY <1>1, <1>3, <2>1, <2>2 DEF Execute
<1> QED BY <1>2, <1>3 DEF Dispatch

\* The places of the other processors, and of this one, are judged as before.
LEMMA OneSound ==
  ASSUME CpuInv, NEW c \in Cpu, UNCHANGED <<mem, call, hook, stub, op, older, tangled>>,
         \A x \in Cpu \ {c} : ip'[x] = ip[x], shaken \subseteq shaken' \cup {c},
         \/ c \in shaken'
         \/ ip'[c] = <<"idle">>
         \/ \E a \in Addr : ip'[c] = <<"text", a>> /\ Safe(a)
         \/ \E h \in Hook : ip'[c] = <<"dst", h>> /\ Present(h)
         \/ \E h \in Hook, i \in Nat \ {0} :
              /\ ip'[c] = <<"stub", h, i>> /\ Present(h)
              /\ i <= Len(stub[h].code) + 1 /\ Followed(stub[h].code, i)
              /\ i # 1 => Runs(h, stub[h].code, stub[h].back)
  PROVE  CpuInv'
<1>1. /\ \A a : Safe(a)' <=> Safe(a)
      /\ \A h \in Hook : Present(h)' <=> Present(h)
      /\ \A h, i : Followed(stub[h].code, i)' <=> Followed(stub[h].code, i)
      /\ \A h : Runs(h, stub[h].code, stub[h].back)' <=> Runs(h, stub[h].code, stub[h].back)
  BY SameJump DEF Safe, Armed, Present, Followed, Runs, WindowSize, MAX_HOOK_SIZE
<1>2. ASSUME NEW x \in Cpu \ shaken', x # c PROVE Sound(x)'
  <2>1. Sound(x) /\ ip'[x] = ip[x]
    BY <1>2 DEF CpuInv
  <2> QED BY <1>1, <2>1 DEF Sound
<1>3. c \in shaken' \/ Sound(c)'
  BY <1>1 DEF Sound
<1> QED BY <1>2, <1>3 DEF CpuInv

LEMMA FetchSound ==
  ASSUME PathInv, PathInv', LayerInv, Whole, CpuInv, Tiles, Apart, NEW c \in Cpu, CpuFetch(c),
         UNCHANGED <<mem, call, hook, stub, op, older, tangled>>,
         \A x \in Cpu \ {c} : ip'[x] = ip[x]
  PROVE  CpuInv'
<1>0. shaken \subseteq shaken' \cup {c}
  BY DEF CpuFetch
<1>1. CASE c \in shaken'
  BY <1>0, <1>1, OneSound
<1>2. CASE c \notin shaken'
  <2>1. PICK s \in [Hook -> Nat] : Paths(s)
    BY DEF PathInv
  <2>2. ip'[c] # <<"fault", "astray">>
    BY DEF PathInv, Paths, Straight
  <2>3. c \notin shaken /\ ~Unsteady(ip[c][2])
    BY <1>2 DEF CpuFetch
  <2>4. PICK a \in Addr : ip[c] = <<"text", a>> /\ Safe(a)
    BY <2>3 DEF CpuInv, Sound, CpuFetch
  <2>5. ip[c][2] = a /\ ~Unsteady(a) /\ a \notin tangled
    BY <2>3, <2>4 DEF Unsteady
  <2>6. PICK d : d = Insn(mem, a)
    OBVIOUS
  <2>7. Dispatch(c, d, <<"text", d.ip + d.len>>)
    BY <2>5, <2>6 DEF CpuFetch
  <2>8. /\ d.k # "junk" /\ d.ip = a
        /\ d.k = "text" => d.len = InsnLen[a] /\ \A h \in Hook : hook[h].src = a => ~Armed(h)
        /\ d.k = "jmp" => d.to \in Hook /\ Shows(d.to, 1)
    BY <2>4, <2>5, <2>6, SafeDecodes
  <2>9. CASE ip'[c] = <<"idle">>
    BY <1>0, <2>9, OneSound
  <2>10. CASE d.k = "text" /\ d.ip \notin Ret /\ ip'[c] = <<"text", d.ip + d.len>>
    <3>1. Safe(a + InsnLen[a])
      BY <2>4, <2>5, <2>8, <2>10, NextSafe
    <3>2. ip'[c] = <<"text", a + InsnLen[a]>> /\ a + InsnLen[a] \in Addr
      BY <2>8, <2>10, <3>1 DEF Safe
    <3> QED BY <1>0, <3>1, <3>2, OneSound
  <2>11. CASE d.k = "jmp" /\ ip'[c] = <<"dst", d.to>>
    <3>1. Present(d.to)
      BY <2>8, <2>11, ShownLives DEF Present, LayerInv, HookInv
    <3> QED BY <1>0, <2>8, <2>11, <3>1, OneSound
  <2> QED BY <2>1, <2>2, <2>7, <2>8, <2>9, <2>10, <2>11, Leads
<1> QED BY <1>1, <1>2

LEMMA TrampolineSound ==
  ASSUME PathInv, PathInv', LayerInv, RunInv, CpuInv, Tiles, Apart, NEW c \in Cpu, CpuTrampoline(c),
         UNCHANGED <<mem, call, hook, stub, op, older, tangled>>,
         \A x \in Cpu \ {c} : ip'[x] = ip[x]
  PROVE  CpuInv'
<1>0. shaken \subseteq shaken'
  BY DEF CpuTrampoline
<1>1. CASE c \in shaken'
  BY <1>0, <1>1, OneSound
<1>2. CASE c \notin shaken'
  <2>1. PICK s \in [Hook -> Nat] : Paths(s)
    BY DEF PathInv
  <2>2. ip'[c] # <<"fault", "astray">>
    BY DEF PathInv, Paths, Straight
  <2>3. PICK h \in Hook, i \in Nat \ {0} :
          /\ ip[c] = <<"stub", h, i>> /\ Present(h)
          /\ i <= Len(stub[h].code) + 1 /\ Followed(stub[h].code, i)
          /\ i # 1 => Runs(h, stub[h].code, stub[h].back)
    <3>1. ip[c][1] = "stub"
      BY DEF CpuTrampoline
    <3>2. c \in Cpu \ shaken
      BY <1>0, <1>2
    <3>3. Sound(c)
      BY <3>2 DEF CpuInv
    <3> QED BY <3>1, <3>3 DEF Sound
  <2>4. ip[c][2] = h /\ ip[c][3] = i
    BY <2>3
  <2>5. /\ hook[h].st = "live" /\ stub[h].alive /\ stub[h].code \in Seq(Insns)
        /\ hook[h].src \in Entry /\ hook[h].src # 0 /\ Trampoline(h)
    <3>1. Present(h) /\ HookType(h) /\ Life(h) /\ Trampoline(h)
      BY <2>3 DEF LayerInv, HookInv, Shape, HookTypes, RunInv
    <3>2. hook[h].src \in Entry
      BY <3>1 DEF Present, Life
    <3>3. hook[h].src # 0
      BY <3>2, HookAssumption
    <3> QED BY <3>1, <3>2, <3>3 DEF Present, HookType, IsStub, Life
  <2>6. Chained(s, Made, h, stub[h].code, stub[h].back) /\ s[h] = hook[h].src
    BY <2>1, <2>5 DEF Paths, HookPath
  <2>7. CASE i <= Len(stub[h].code)
    <3>1. PICK d : d = stub[h].code[i]
      OBVIOUS
    <3>2. Dispatch(c, d, <<"stub", h, i + 1>>) /\ d.ip \notin tangled
      BY <1>2, <2>4, <2>5, <2>7, <3>1 DEF CpuTrampoline
    <3>3. i \in 1..Len(stub[h].code) /\ i + 1 \in Nat \ {0} /\ i + 1 <= Len(stub[h].code) + 1
      BY <2>5, <2>7
    <3>4. Runs(h, stub[h].code, stub[h].back)
      <4>1. i = 1 => d.ip = hook[h].src
        BY <2>6, <2>7, <3>1 DEF Chained, At
      <4> QED BY <2>3, <2>5, <3>2, <4>1 DEF Trampoline
    <3>5. d.k # "junk"
      BY <2>3, <3>1, <3>3, <3>4 DEF Runs
    <3>6. Decoded(s, Made, d)
      BY <2>6, <3>1, <3>3 DEF Chained
    <3>7. CASE ip'[c] = <<"idle">>
      BY <1>0, <3>7, OneSound
    <3>8. CASE d.k = "text" /\ d.ip \notin Ret /\ ip'[c] = <<"stub", h, i + 1>>
      <4>1. Followed(stub[h].code, i + 1)
        <5> SUFFICES ASSUME NEW j \in 1..i
                     PROVE  stub[h].code[j].k = "text" /\ stub[h].code[j].ip \notin Ret
          BY <3>3 DEF Followed
        <5>1. CASE j = i
          BY <3>1, <3>8, <5>1
        <5>2. CASE j # i
          <6>1. j \in 1..(i - 1)
            BY <3>3, <5>2
          <6> QED BY <2>3, <6>1 DEF Followed
        <5> QED BY <5>1, <5>2
      <4> QED BY <1>0, <2>3, <3>3, <3>4, <3>8, <4>1, OneSound
    <3>9. CASE d.k = "jmp" /\ ip'[c] = <<"dst", d.to>>
      <4>1. PICK g \in Hook : g = d.to
        BY <3>6, <3>9 DEF Decoded, Made
      <4>2. hook[g].enabled
        <5>1. i \in DOMAIN stub[h].code
          BY <2>5, <3>3
        <5> QED BY <3>1, <3>2, <3>9, <4>1, <5>1 DEF LayerInv, Captures, Captured
      <4>3. Present(g)
        BY <4>2, ShownLives DEF LayerInv, HookInv, Present
      <4> QED BY <1>0, <3>9, <4>1, <4>3, OneSound
    <3> QED BY <2>1, <2>2, <3>2, <3>5, <3>7, <3>8, <3>9, Leads
  <2>8. CASE ~(i <= Len(stub[h].code))
    <3>1. ip' = [ip EXCEPT ![c] = <<"text", stub[h].back>>]
      BY <2>4, <2>5, <2>8 DEF CpuTrampoline, JumpBack
    <3>2. ip'[c] = <<"text", stub[h].back>>
      <4>1. ip = [x \in Cpu |-> ip[x]]
        BY <2>1 DEF Paths
      <4> QED BY <3>1, <4>1
    <3>3. i = Len(stub[h].code) + 1
      BY <2>3, <2>5, <2>8
    <3>4. stub[h].code # <<>>
      <4>1. stub[h].code = <<>> => stub[h].back = hook[h].src
        BY <2>6 DEF Chained, At
      <4>2. hook[h].src \in Nat /\ MAX_HOOK_SIZE \in Nat /\ MAX_HOOK_SIZE > 0
        <5>1. hook[h].src \in Nat
          BY <2>5, HookAssumption
        <5>2. HOOK_SIZE_ABSOLUTE \in Nat /\ HOOK_SIZE_ABSOLUTE > 0
          BY Sizes, HookAssumption
        <5> QED BY <5>1, <5>2 DEF MAX_HOOK_SIZE
      <4>3. stub[h].back >= hook[h].src + MAX_HOOK_SIZE
        BY <2>5 DEF Trampoline
      <4> QED BY <4>1, <4>2, <4>3
    <3>5. i # 1
      BY <2>5, <3>3, <3>4
    <3>6. Safe(stub[h].back)
      BY <2>3, <2>5, <3>3, <3>5, BackSafe
    <3> QED BY <1>0, <3>2, <3>6, OneSound DEF Safe
  <2> QED BY <2>7, <2>8
<1> QED BY <1>1, <1>2

LEMMA CpuSound ==
  ASSUME PathInv, PathInv', LayerInv, Whole, RunInv, CpuInv, Tiles, Apart, NEW c \in Cpu, CpuStep(c)
  PROVE  CpuInv'
<1>1. UNCHANGED <<mem, call, hook, stub, op, older, tangled>>
  BY CpuStill
<1>2. ip = [x \in Cpu |-> ip[x]]
  BY DEF PathInv, Paths
<1>3. PICK p : ip' = [ip EXCEPT ![c] = p]
  BY Zenon DEF CpuStep, CpuCall, CpuFetch, CpuDestination, CpuTrampoline, Dispatch, Execute, Fault,
               JumpBack
<1>4. ip'[c] = p /\ \A x \in Cpu \ {c} : ip'[x] = ip[x]
  BY <1>2, <1>3
<1>5. CASE CpuCall(c)
  <2>1. PICK src \in Entry : ip' = [ip EXCEPT ![c] = <<"text", src>>]
    BY <1>5 DEF CpuCall
  <2>2. ip'[c] = <<"text", src>> /\ src \in Addr
    BY <1>2, <2>1, HookAssumption
  <2>3. shaken \subseteq shaken' \cup {c}
    BY <1>5 DEF CpuCall
  <2> QED BY <1>1, <1>4, <2>2, <2>3, EntrySafe, OneSound
<1>6. CASE CpuFetch(c)
  BY <1>1, <1>4, <1>6, FetchSound
<1>7. CASE CpuDestination(c)
  <2>1. shaken' = shaken
    BY <1>7 DEF CpuDestination
  <2>2. CASE c \in shaken
    BY <1>1, <1>4, <2>1, <2>2, OneSound
  <2>3. CASE c \notin shaken
    <3>1. PICK h \in Hook : ip[c] = <<"dst", h>> /\ Present(h)
      BY <1>7, <2>3 DEF CpuInv, Sound, CpuDestination
    <3>2. ip[c][2] = h
      BY <3>1
    <3>3. ip'[c] = <<"stub", h, 1>> \/ ip'[c] = <<"idle">>
      BY <1>2, <1>7, <3>2 DEF CpuDestination
    <3>4. Followed(stub[h].code, 1) /\ 1 <= Len(stub[h].code) + 1
      <4>1. stub[h].code \in Seq(Insns)
        BY DEF LayerInv, HookInv, Shape, HookTypes, HookType, IsStub
      <4> QED BY <4>1 DEF Followed
    <3> QED BY <1>1, <1>4, <2>1, <3>1, <3>3, <3>4, OneSound
  <2> QED BY <2>2, <2>3
<1>8. CASE CpuTrampoline(c)
  BY <1>1, <1>4, <1>8, TrampolineSound
<1> QED BY <1>5, <1>6, <1>7, <1>8 DEF CpuStep

LEMMA OrderInit == Init => OrderInv
<1> SUFFICES ASSUME Init PROVE OrderInv
  OBVIOUS
<1>1. RunInv
  BY DEF Init, RunInv, Trampoline
<1>2. CpuInv /\ Whole
  BY DEF Init, CpuInv, Sound, Whole
<1> QED BY <1>1, <1>2, PathsInit, LayerInit DEF OrderInv

LEMMA OrderNext ==
  ASSUME Tiles, Apart, OrderInv, [Next]_vars
  PROVE  OrderInv'
<1>1. PathInv' /\ LayerInv' /\ Shape
  BY PathsNext, LayerNext DEF OrderInv, LayerInv, HookInv
<1>2. ASSUME UNCHANGED <<mem, call, hook, stub, op, older, tangled>> PROVE RunInv' /\ Whole'
  BY <1>2 DEF OrderInv, RunInv, Trampoline, Runs, Followed, Whole, Span, WindowSize, MAX_HOOK_SIZE
<1>3. ASSUME NEW h \in Hook, HookStep(h) PROVE RunInv' /\ CpuInv' /\ Whole'
  BY <1>1, <1>3, HookRuns, HookSound, WholeKeeps DEF OrderInv
<1>4. ASSUME NEW c \in Cpu, CpuStep(c) PROVE RunInv' /\ CpuInv' /\ Whole'
  BY <1>1, <1>2, <1>4, CpuStill, CpuSound DEF OrderInv
<1>5. CASE UNCHANGED vars
  <2>1. UNCHANGED <<mem, call, hook, stub, op, older, tangled>> /\ ip' = ip /\ shaken' = shaken
    BY <1>5 DEF vars
  <2>2. ASSUME NEW c \in Cpu \ shaken' PROVE CpuInv'
    <3>1. CpuInv /\ Sound(c) /\ ip'[c] = ip[c]
      BY <2>1, <2>2 DEF OrderInv, CpuInv
    <3> QED BY <2>1, <3>1, OneSound DEF Sound
  <2>3. CpuInv'
    BY <2>2 DEF CpuInv
  <2> QED BY <1>1, <1>2, <2>1, <2>3 DEF OrderInv
<1> QED BY <1>1, <1>3, <1>4, <1>5 DEF Next, OrderInv

\* "continue execution transparently" (khook.rs:16), as far as the path goes: for any image
\* made of whole instructions, any number of hooks on functions that lie apart and any
\* number of processors that keep calling them, with every write and destructor free to
\* be refused and no order imposed on the callers: a call executes the original
\* instructions in order, nothing torn and nothing freed, unless it stood in or fetched
\* code that was being written or was entangled, or used a hook that was released.
THEOREM OrderIsKept ==
  ASSUME Tiles, Apart
  PROVE  Spec => []OriginalOrder
<1>1. OrderInv => OriginalOrder
  BY DEF OrderInv, CpuInv, Sound, OriginalOrder
<1>2. OrderInv /\ [Next]_vars => OrderInv'
  BY OrderNext
<1> QED BY <1>1, <1>2, OrderInit, PTL DEF Spec
=====
