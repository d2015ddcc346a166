-------------------------------- MODULE KHook --------------------------------
(***************************************************************************)
(* khook.rs: inline hooks over code that other processors execute.         *)
(*                                                                         *)
(* Code is a function of byte cells.  A byte of the image is               *)
(* <<"text", a>>, byte i of the jump that hook h installs is               *)
(* <<"jmp", h, i>>; that is all the decoder, the saved bytes and an        *)
(* executing processor tell apart.  The sizes are constants because only   *)
(* their order matters: JmpRel <= JmpAbs < MAX_HOOK_SIZE < window, and an  *)
(* instruction that starts before MAX_HOOK_SIZE ends inside the window.    *)
(*                                                                         *)
(* The code asks nothing of its callers, so neither does this module:      *)
(* methods of any hooks overlap in time and space, and processors run      *)
(* meanwhile.  What such use destroys is recorded in two history           *)
(* variables, which no guard reads: the bytes at which hooks got entangled *)
(* and the processors whose path was rewritten under them.                 *)
(***************************************************************************)
EXTENDS Naturals, Sequences, FiniteSets

CONSTANTS
  Hook,            \* KHook values, each constructed at most once
  Cpu,             \* processors that call the hooked functions
  Addr,            \* addresses of the image
  InsnLen,         \* [Addr -> Nat]: length of the instruction at a, 0 inside one
  Ret,             \* addresses of `ret` instructions
  Growth,          \* [Addr -> Nat]: bytes the instruction gains when relocated
  Entry,           \* entry points of the functions that may be hooked
  NearDst,         \* hooks whose dst a rel32 reaches from src
  NearStub,        \* hooks whose trampoline reaches src with a rel32
  HOOK_SIZE_RELATIVE, HOOK_SIZE_ABSOLUTE,
  AbsJumpSize,     \* MOV_ABS_SIZE plus the two bytes of `jmp rax`
  Slack,           \* the 16 bytes read past MAX_HOOK_SIZE
  ReadsRax, WritesRax  \* the instructions that read, and that set, register RAX

MAX_HOOK_SIZE == HOOK_SIZE_ABSOLUTE
WindowSize == MAX_HOOK_SIZE + Slack

ASSUME HookAssumption ==
  /\ Addr \subseteq Nat
  /\ {HOOK_SIZE_RELATIVE, AbsJumpSize, HOOK_SIZE_ABSOLUTE, Slack} \subseteq Nat
  /\ InsnLen \in [Addr -> 0..(Slack + 1)] /\ AbsJumpSize <= Slack + 1
  /\ Growth \in [Addr -> Nat]
  /\ Entry \subseteq {a \in Addr : InsnLen[a] > 0}
  /\ \A s \in Entry : s > 0 /\ s..(s + WindowSize - 1) \subseteq Addr
  /\ 0 < HOOK_SIZE_RELATIVE /\ HOOK_SIZE_RELATIVE <= AbsJumpSize /\ AbsJumpSize < HOOK_SIZE_ABSOLUTE
  /\ ReadsRax \cup WritesRax \subseteq Addr

VARIABLES
  mem, call,  \* the code bytes, and the write_to_read_only_memory of each hook
  hook,       \* hook[h]: the KHook value: its state and the fields src (0: none),
              \* enabled, original_bytes
  stub,       \* stub[h]: its trampoline: allocated or not, code, jump back
  op,         \* op[h]: the method of h that is running
  older,      \* older[h]: the hooks that existed when h was made
  ip,         \* ip[c]: what processor c executes next
  due,        \* due[c]: the instruction of the original function it should
              \* execute next (history)
  rax,        \* rax[c]: RAX in that call is as the function left it ("kept"),
              \* overwritten ("lost"), or was read after that ("misread")
  panicked,   \* a slice index panicked: the kernel stops
  tangled,    \* bytes at which hooks were not used as a stack (history)
  shaken      \* processors whose call met code that was changing (history)

INSTANCE CodeWrite WITH Writer <- Hook, Request <- {}

hookVars == <<hook, stub, op, older>>
cpuVars  == <<ip, due, rax>>
history  == <<tangled, shaken>>
vars     == <<mem, call, hook, stub, op, older, ip, due, rax, panicked, tangled, shaken>>

\* The bytes that hook h saves and restores.
Window(h) == IF hook[h].src = 0 THEN {} ELSE Span(hook[h].src, WindowSize)
JumpSize(near) == IF near THEN HOOK_SIZE_RELATIVE ELSE AbsJumpSize

\* create_assembly_jump(src, dst): the jump that hook h installs.
JumpBytes(h) == [i \in 1..JumpSize(h \in NearDst) |-> <<"jmp", h, i>>]

Text(a) == <<"text", a>>

(***************************************************************************)
(* The instruction that starts at address a of memory m: one of the image, *)
(* the whole jump of a hook, or bytes that are neither.                    *)
(***************************************************************************)
Intact(m, a) == a \in Addr /\ InsnLen[a] > 0 /\ \A b \in Span(a, InsnLen[a]) : m[b] = Text(b)
JumpsAt(m, a) ==
  {h \in Hook : \A i \in DOMAIN JumpBytes(h) :
                  a + i - 1 \in Addr /\ m[a + i - 1] = <<"jmp", h, i>>}

Insn(m, a) ==
  IF Intact(m, a) THEN [k |-> "text", ip |-> a, to |-> a, len |-> InsnLen[a]]
  ELSE IF JumpsAt(m, a) # {}
       THEN LET h == CHOOSE h \in JumpsAt(m, a) : TRUE
            IN  [k |-> "jmp", ip |-> a, to |-> h, len |-> Len(JumpBytes(h))]
       ELSE [k |-> "junk", ip |-> a, to |-> a, len |-> 1]

\* What relocation adds to a block (captured jumps are taken to stay in reach).
RelocationGrowth(code) ==
  LET Add[i \in 0..Len(code)] ==
        IF i = 0 THEN 0
        ELSE Add[i - 1] + IF code[i].k = "text" THEN Growth[code[i].ip] ELSE 0
  IN  Add[Len(code)]

Init ==
  /\ mem = [a \in Addr |-> Text(a)]
  /\ CallIdle
  /\ hook = [h \in Hook |-> [st |-> "none", src |-> 0, enabled |-> FALSE, saved |-> <<>>]]
  /\ stub = [h \in Hook |-> [alive |-> FALSE, code |-> <<>>, back |-> 0]]
  /\ op = [h \in Hook |-> "idle"]
  /\ older = [h \in Hook |-> {}]
  /\ ip = [c \in Cpu |-> <<"idle">>]
  /\ due = [c \in Cpu |-> 0]
  /\ rax = [c \in Cpu |-> "kept"]
  /\ panicked = FALSE
  /\ tangled = {}
  /\ shaken = {}

(***************************************************************************)
(* What the histories record.                                              *)
(***************************************************************************)
\* Hooks that share bytes are used like a stack when a method of h is called with no
\* other of them in one, and only on the newest.  The bytes at which this call is not so:
OutOfTurn(h, src) ==
  {a \in Span(src, WindowSize) : \E g \in Hook \ {h} :
     a \in Window(g) /\ (op[g] # "idle" \/ (hook[h].st = "live" /\ g \notin older[h]))}

\* The processors between two of the instructions that the write of h replaces.
Caught(h) ==
  {c \in Cpu : ip[c][1] = "text" /\ ip[c][2] \in Window(h) \ {hook[h].src}}

\* The processors in the destination or the trampoline of h.
Guests(h) == {c \in Cpu : ip[c][1] \in {"dst", "stub"} /\ ip[c][2] = h}

\* h is inside method m, and the kernel is still running.
Inside(h, m) == ~panicked /\ op[h] = m

(***************************************************************************)
(* KHook::new.  Every error return leaves no state behind (a trampoline    *)
(* that was allocated is dropped), so only success is modelled.  An        *)
(* iteration of the loop reads one instruction from memory as it is then.  *)
(***************************************************************************)
NewBegin(h, src) ==
  /\ hook[h].st = "none"
  /\ Inside(h, "idle")
  /\ hook' = [hook EXCEPT ![h].src = src]
  /\ stub' = [stub EXCEPT ![h].back = src]
  /\ op' = [op EXCEPT ![h] = "new"]
  /\ tangled' = tangled \cup OutOfTurn(h, src)
  /\ UNCHANGED <<mem, call, older, cpuVars, panicked, shaken>>

\* mutant: decode only as far as the jump that will be installed
Covered_JumpOnly(h) == stub[h].back >= hook[h].src + HOOK_SIZE_RELATIVE

\* The loop ends: copied >= MAX_HOOK_SIZE.
Covered(h) == stub[h].back >= hook[h].src + MAX_HOOK_SIZE

NewDecode(h) ==
  /\ Inside(h, "new")
  /\ ~Covered(h)
  /\ LET d == Insn(mem, stub[h].back)
     IN  stub' = [stub EXCEPT ![h].code = Append(@, d), ![h].back = @ + d.len]
  /\ UNCHANGED <<mem, call, hook, op, older, cpuVars, panicked, history>>

StubSize(h) == stub[h].back - hook[h].src + HOOK_SIZE_ABSOLUTE

\* The encoded block and the jump back are copied into slices of the trampoline:
\* what does not fit is a panic, not an error.
Fits(h) ==
  stub[h].back - hook[h].src + RelocationGrowth(stub[h].code) + JumpSize(h \in NearStub)
    <= StubSize(h)

\* The hooks whose KHook exists.
Live == {g \in Hook : hook[g].st = "live"}

\* mutant: the bytes are saved from one address too far
NewSave_OffByOne(h) ==
  /\ Inside(h, "new")
  /\ Covered(h)
  /\ op' = [op EXCEPT ![h] = "idle"]
  /\ Fits(h)
  /\ stub' = [stub EXCEPT ![h].alive = TRUE]
  /\ hook' = [hook EXCEPT ![h].st = "live",
                         ![h].saved = [i \in 1..WindowSize |-> mem[hook[h].src + i]]]
  /\ older' = [older EXCEPT ![h] = Live]
  /\ UNCHANGED <<mem, call, cpuVars, panicked, history>>

\* mutant: the jump back leads to the last instruction that was relocated
NewSave_LastInsn(h) ==
  /\ Inside(h, "new")
  /\ Covered(h)
  /\ op' = [op EXCEPT ![h] = "idle"]
  /\ Fits(h)
  /\ hook' = [hook EXCEPT ![h].st = "live",
                         ![h].saved = [i \in 1..WindowSize |-> mem[hook[h].src + i - 1]]]
  /\ stub' = [stub EXCEPT ![h].alive = TRUE, ![h].back = stub[h].code[Len(stub[h].code)].ip]
  /\ older' = [older EXCEPT ![h] = Live]
  /\ UNCHANGED <<mem, call, cpuVars, panicked, history>>

NewSave(h) ==
  /\ Inside(h, "new")
  /\ Covered(h)
  /\ op' = [op EXCEPT ![h] = "idle"]
  /\ IF Fits(h)
     THEN /\ hook' = [hook EXCEPT
               ![h].st = "live",
               ![h].saved = [i \in 1..WindowSize |-> mem[hook[h].src + i - 1]]]
          /\ stub' = [stub EXCEPT ![h].alive = TRUE]
          /\ older' = [older EXCEPT ![h] = Live]
          /\ panicked' = panicked
     ELSE panicked' = TRUE /\ UNCHANGED <<hook, stub, older>>
  /\ UNCHANGED <<mem, call, cpuVars, history>>

(***************************************************************************)
(* enable, disable, drop.  A method that finds nothing to do changes       *)
(* nothing; the others call write_to_read_only_memory and look at its      *)
(* answer.                                                                 *)
(***************************************************************************)
Ready(h) == hook[h].st = "live" /\ Inside(h, "idle")

\* write_to_read_only_memory is called with `bytes` for src.
Patch(h, bytes) ==
  /\ Begin(h, hook[h].src, bytes)
  /\ tangled' = tangled \cup OutOfTurn(h, hook[h].src)
  /\ shaken' = shaken \cup Caught(h)

Enable(h) ==
  /\ Ready(h)
  /\ ~hook[h].enabled
  /\ Patch(h, JumpBytes(h))
  /\ op' = [op EXCEPT ![h] = "enable"]
  /\ UNCHANGED <<hook, stub, older, cpuVars, panicked>>

\* mutant: the answer of the write is ignored
EnableReturns_Unchecked(h) ==
  /\ Inside(h, "enable")
  /\ Return(h)
  /\ hook' = [hook EXCEPT ![h].enabled = TRUE]
  /\ op' = [op EXCEPT ![h] = "idle"]
  /\ UNCHANGED <<stub, older, cpuVars, panicked, history>>

EnableReturns(h) ==
  /\ Inside(h, "enable")
  /\ Return(h)
  /\ hook' = [hook EXCEPT ![h].enabled = call[h].ok]
  /\ op' = [op EXCEPT ![h] = "idle"]
  /\ UNCHANGED <<stub, older, cpuVars, panicked, history>>

Disable(h) ==
  /\ Ready(h)
  /\ hook[h].enabled
  /\ Patch(h, hook[h].saved)
  /\ op' = [op EXCEPT ![h] = "disable"]
  /\ UNCHANGED <<hook, stub, older, cpuVars, panicked>>

\* mutant: the flag is cleared although the bytes could not be restored
DisableReturns_Unchecked(h) ==
  /\ Inside(h, "disable")
  /\ Return(h)
  /\ hook' = [hook EXCEPT ![h].enabled = FALSE]
  /\ op' = [op EXCEPT ![h] = "idle"]
  /\ UNCHANGED <<stub, older, cpuVars, panicked, history>>

DisableReturns(h) ==
  /\ Inside(h, "disable")
  /\ Return(h)
  /\ hook' = [hook EXCEPT ![h].enabled = ~call[h].ok]
  /\ op' = [op EXCEPT ![h] = "idle"]
  /\ UNCHANGED <<stub, older, cpuVars, panicked, history>>

\* The fields are dropped: the trampoline goes back to the pool.
Release(h) ==
  /\ hook' = [hook EXCEPT ![h] = [st |-> "dropped", src |-> 0, enabled |-> FALSE, saved |-> <<>>]]
  /\ stub' = [stub EXCEPT ![h] = [alive |-> FALSE, code |-> <<>>, back |-> 0]]
  /\ older' = [older EXCEPT ![h] = {}]
  /\ shaken' = shaken \cup Guests(h)

\* mutant: the destructor does not disable
Drop_Forgets(h) ==
  /\ Ready(h)
  /\ Release(h)
  /\ UNCHANGED <<mem, call, op, cpuVars, panicked, tangled>>

Drop(h) ==
  /\ Ready(h)
  /\ IF hook[h].enabled
     THEN /\ Patch(h, hook[h].saved)
          /\ op' = [op EXCEPT ![h] = "drop"]
          /\ UNCHANGED <<hook, stub, older>>
     ELSE Release(h) /\ UNCHANGED <<mem, call, op, tangled>>
  /\ UNCHANGED <<cpuVars, panicked>>

\* Drop throws the answer of disable away: when it was refused, the jump stays.
DropReturns(h) ==
  /\ Inside(h, "drop")
  /\ Return(h)
  /\ Release(h)
  /\ op' = [op EXCEPT ![h] = "idle"]
  /\ tangled' = IF call[h].ok THEN tangled ELSE tangled \cup Window(h)
  /\ UNCHANGED <<cpuVars, panicked>>

\* The steps of the write, by the contract of CodeWrite.
WriteStep(h) ==
  /\ ~panicked
  /\ Refuse(h) \/ CopyByte(h) \/ Complete(h)
  /\ UNCHANGED <<hookVars, cpuVars, panicked, history>>

(***************************************************************************)
(* The processors.  A hooked function is called, its instructions are      *)
(* fetched from memory as it is at that moment, a jump of h leads to the   *)
(* destination of h, and the destination calls original() or returns.  RAX *)
(* belongs to nobody when a function is entered, so destinations use it;   *)
(* an absolute jump, `mov rax, target; jmp rax`, overwrites it.            *)
(***************************************************************************)
Running(c) == ~panicked /\ UNCHANGED <<mem, call, hookVars, panicked, tangled>>

CpuCall(c) ==
  /\ ip[c] = <<"idle">>
  /\ \E src \in Entry : /\ ip' = [ip EXCEPT ![c] = <<"text", src>>]
                        /\ due' = [due EXCEPT ![c] = src]
  /\ rax' = [rax EXCEPT ![c] = "kept"]
  /\ shaken' = shaken \ {c}
  /\ Running(c)

\* The call is lost, and so is what was recorded of it.
Fault(c, why) ==
  /\ ip' = [ip EXCEPT ![c] = <<"fault", why>>]
  /\ due' = [due EXCEPT ![c] = 0]
  /\ rax' = [rax EXCEPT ![c] = "kept"]

\* What instruction a finds in RAX, and leaves there.
UseRax(c, a) ==
  rax' = [rax EXCEPT ![c] = IF @ = "lost" /\ a \in ReadsRax THEN "misread"
                            ELSE IF @ = "lost" /\ a \in WritesRax THEN "kept"
                            ELSE @]

\* Instruction a of the original function is executed, `next` comes after it.
Execute(c, a, next) ==
  IF a # due[c] THEN Fault(c, "astray")
  ELSE /\ UseRax(c, a)
       /\ IF a \in Ret THEN /\ ip' = [ip EXCEPT ![c] = <<"idle">>]
                            /\ due' = [due EXCEPT ![c] = 0]
          ELSE /\ ip' = [ip EXCEPT ![c] = next]
               /\ due' = [due EXCEPT ![c] = a + InsnLen[a]]

\* RAX is overwritten on the way to ip'.
LoseRax(c) == rax' = [rax EXCEPT ![c] = IF @ = "misread" THEN @ ELSE "lost"]

\* The instruction d, fetched from the image or from a trampoline.
Dispatch(c, d, next) ==
  \/ d.k = "text" /\ Execute(c, d.ip, next)
  \/ /\ d.k = "jmp"
     /\ ip' = [ip EXCEPT ![c] = <<"dst", d.to>>]
     /\ LoseRax(c)
     /\ UNCHANGED due
  \/ d.k = "junk" /\ Fault(c, "torn")

\* The code at address a is being written, or entangled.
Unsteady(a) == a \in tangled \/ \E h \in Hook : call[h].st = "writing" /\ a \in Window(h)

CpuFetch(c) ==
  /\ ip[c][1] = "text"
  /\ LET d == Insn(mem, ip[c][2]) IN Dispatch(c, d, <<"text", d.ip + d.len>>)
  /\ shaken' = IF Unsteady(ip[c][2]) THEN shaken \cup {c} ELSE shaken
  /\ Running(c)

CpuDestination(c) ==
  /\ ip[c][1] = "dst"
  /\ \/ /\ ip' = [ip EXCEPT ![c] = <<"stub", ip[c][2], 1>>]
        /\ UNCHANGED due
     \/ /\ ip' = [ip EXCEPT ![c] = <<"idle">>]
        /\ due' = [due EXCEPT ![c] = 0]
  /\ UNCHANGED <<rax, shaken>>
  /\ Running(c)

\* The jump at the end of the trampoline, in the middle of the function.
JumpBack(c, h) ==
  /\ ip' = [ip EXCEPT ![c] = <<"text", stub[h].back>>]
  /\ IF h \in NearStub THEN rax' = rax ELSE LoseRax(c)
  /\ UNCHANGED due

\* An instruction of the trampoline that was captured from an entangled byte is no
\* better than the byte.
CpuTrampoline(c) ==
  /\ ip[c][1] = "stub"
  /\ LET h == ip[c][2]
         i == ip[c][3]
         code == stub[h].code
     IN  IF ~stub[h].alive THEN Fault(c, "freed") /\ UNCHANGED shaken
         ELSE IF i <= Len(code)
         THEN /\ Dispatch(c, code[i], <<"stub", h, i + 1>>)
              /\ shaken' = IF code[i].ip \in tangled THEN shaken \cup {c} ELSE shaken
         ELSE JumpBack(c, h) /\ UNCHANGED shaken
  /\ Running(c)

HookStep(h) ==
  \/ \E src \in Entry : NewBegin(h, src)
  \/ NewDecode(h) \/ NewSave(h)
  \/ Enable(h) \/ EnableReturns(h)
  \/ Disable(h) \/ DisableReturns(h)
  \/ Drop(h) \/ DropReturns(h)
  \/ WriteStep(h)

CpuStep(c) == CpuCall(c) \/ CpuFetch(c) \/ CpuDestination(c) \/ CpuTrampoline(c)

Next == (\E h \in Hook : HookStep(h)) \/ (\E c \in Cpu : CpuStep(c))

Spec == Init /\ [][Next]_vars

(***************************************************************************)
(* Properties.                                                             *)
(***************************************************************************)
Insns == [k : {"text", "jmp", "junk"}, ip : Addr, to : Addr \cup Hook, len : Nat]

TypeOK ==
  /\ \A a \in Addr : mem[a] \in {Text(a)} \cup {<<"jmp", h, i>> : h \in Hook, i \in 1..AbsJumpSize}
  /\ \A h \in Hook :
       /\ hook[h].st \in {"none", "live", "dropped"} /\ hook[h].src \in Entry \cup {0}
       /\ hook[h].enabled \in BOOLEAN
       /\ stub[h].alive \in BOOLEAN
       /\ \A i \in DOMAIN stub[h].code : stub[h].code[i] \in Insns
       /\ op[h] \in {"idle", "new", "enable", "disable", "drop"}
       /\ call[h].st \in {"idle", "writing", "done"}
  /\ \A c \in Cpu : /\ ip[c][1] \in {"idle", "text", "dst", "stub", "fault"}
                    /\ rax[c] \in {"kept", "lost", "misread"}
  /\ tangled \subseteq Addr /\ shaken \subseteq Cpu

\* Control reaches hook g straight after hook h: h's trampoline begins with g's jump.
LeadsTo(h, g) == /\ stub[h].code # <<>>
                 /\ stub[h].code[1].k = "jmp" /\ stub[h].code[1].to = g

\* The hooks that a call of the function at address s goes through: the least set that
\* holds the one whose jump is there and every one that control is led to from it.
Chain(s) ==
  LET Closed == {C \in SUBSET Hook :
                   /\ JumpsAt(mem, s) \subseteq C
                   /\ \A h \in C, g \in Hook : LeadsTo(h, g) => g \in C}
  IN  {g \in Hook : \A C \in Closed : g \in C}

\* A method is running on a hook that shares bytes with h.
Busy(h) == \E g \in Hook : op[g] # "idle" /\ Window(g) \cap Window(h) # {}

\* is_enabled() "returns whether the hook is currently installed" (khook.rs:289): for
\* every hook that no method is working on or near, a call of src passes through the
\* hook, directly or through newer hooks on the same function, exactly when the flag
\* is set.  Whoever calls what in which order, and whatever is refused, this fails only
\* where the bytes of the jump are entangled.
InstalledIffEnabled == \A h \in Hook :
  hook[h].st = "live" /\ ~Busy(h) /\ Span(hook[h].src, AbsJumpSize) \cap tangled = {}
  => (hook[h].enabled <=> h \in Chain(hook[h].src))

\* "Dropping a hook automatically restores the original function bytes"
\* (khook.rs:79): a byte that lies in the window of no enabled and no busy hook is
\* the byte of the image, after any history of enables, disables and drops, refused
\* ones included; the exceptions are the bytes at which hooks were used out of turn
\* and the window of a hook whose destructor was refused, which Drop ignores.
OriginalBytesRestored == \A a \in Addr \ tangled :
  (\A h \in Hook : a \in Window(h) => hook[h].st # "live" \/ ~hook[h].enabled)
  /\ (\A h \in Hook : a \in Window(h) => op[h] = "idle")
  => mem[a] = Text(a)

\* The trampoline of a hook is in the pool for as long as code, or another
\* trampoline, still jumps to the hook's destination, which calls into it: in any use
\* of hooks a jump outlives its hook only at an entangled byte.
NoDanglingJump == \A h \in Hook :
  (\/ \E a \in Addr \ tangled : h \in JumpsAt(mem, a)
   \/ \E g \in Hook : \E i \in DOMAIN stub[g].code :
        LET d == stub[g].code[i] IN d.k = "jmp" /\ d.to = h /\ d.ip \notin tangled)
  => stub[h].alive

\* "allowing the original routine to continue execution transparently"
\* (khook.rs:16), as far as the path goes: on its way through image, destinations and
\* trampolines a call executes the instructions of the original function in order, none
\* twice, none left out, and never fetches a torn instruction or a freed trampoline,
\* while hooks are made, patched, dropped elsewhere and on other functions; unless code
\* it stands in or fetches is written, entangled or released under it.
OriginalOrder == \A c \in Cpu \ shaken : ip[c][1] # "fault"

\* The same sentence, for the register the jumps use: such a call never finds in RAX
\* what a jump or a destination left there in place of the function's own value.
RaxTransparent == \A c \in Cpu \ shaken : rax[c] # "misread"

\* Whatever the callers race with (processors between the instructions that a write
\* replaces, hooks used in any order, writes that are refused), a processor that leaves
\* the order of the original instructions does so on a torn instruction or a freed
\* trampoline: no jump back, captured jump or restored byte ever sends it to a wrong but
\* intact instruction.
NoWrongPath == \A c \in Cpu : ip[c] # <<"fault", "astray">>

\* KhookErr lists the "errors that can occur while constructing a hook" (khook.rs:117):
\* `new` reports what it cannot do and never panics.
NewNeverPanics == ~panicked
=============================================================================
