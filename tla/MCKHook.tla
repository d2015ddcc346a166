------------------------------- MODULE MCKHook -------------------------------
(***************************************************************************)
(* An image of two functions, sizes scaled down: jumps of 1 and 2 bytes,   *)
(* MAX_HOOK_SIZE 3, window 4.  The short function s, at 1..3, is followed  *)
(* at once by t, at 4..8, whose third instruction straddles the end of     *)
(* MAX_HOOK_SIZE.                                                          *)
(***************************************************************************)
EXTENDS KHook, TLC

CONSTANTS h1, h2

MCAddr == 1..8
MCLen == <<1, 1, 1,   1, 1, 2, 0, 1>>
MCRet == {3, 8}
\* A function returns its value in RAX: t sets it at 6 and returns it at 8.
MCWritesRax == {2, 6}
MCReadsRax == {3, 8}

\* MCGrowth stays within the byte by which MAX_HOOK_SIZE exceeds a jump; in MCBranch
\* the instruction at 5 is a branch whose target the trampoline cannot reach.
MCGrowth == [a \in MCAddr |-> IF a \in {2, 5} THEN 1 ELSE 0]
MCBranch == [a \in MCAddr |-> IF a = 5 THEN 4 ELSE 0]

\* The two hooks differ in nothing when both have the same kind of jumps.
Hooks == Permutations(Hook)

\* Callers that hook each function once only.
SeparateSpec ==
  Init /\ [][Next /\ \A g, h \in Hook : g # h /\ hook'[g].src = hook'[h].src
                                        => hook'[g].src = 0]_vars

\* "Returns whether the hook is currently installed" (khook.rs:289), without exception:
\* for a hook that no method is working on or near, calls of its function pass through
\* it exactly when is_enabled() says so, whatever its neighbours have done.
FlagTells == \A h \in Hook :
  hook[h].st = "live" /\ ~Busy(h) => (hook[h].enabled <=> h \in Chain(hook[h].src))

\* "Dropping a hook automatically restores the original function bytes" (khook.rs:79),
\* without exception: when no hook is installed or in a method, the code is the image.
DropRestores ==
  (\A h \in Hook : op[h] = "idle" /\ ~hook[h].enabled) => \A a \in Addr : mem[a] = Text(a)
=============================================================================
