# TLA+ verification of winkernl-rs

winkernl-rs is a `no_std` Rust library for Windows kernel drivers: safe wrappers over kernel
routines and a few algorithms of its own. This directory holds TLA+ modules that model its core,
TLC configurations that check them on small instances, and TLAPS proofs. Paths below are those of
the repository (`src/khook.rs` is the file `khook.rs` of the crate).

## 1. The system

| component | source | state | operations |
|---|---|---|---|
| MDL wrappers | `src/memory/mdl.rs` | `Mdl { mdl, locked }`, `MdlMap { mdl_ref, mapped }`; in the kernel, lock counts and system mappings of pages | `new`, `lock`, `unlock`, `map_locked`, `protect`, two destructors |
| read-only writes | `src/memory/rw.rs` | none of its own; locals of a call | `write_to_read_only_memory`, `mm_read`, `mm_write` |
| inline hooks | `src/khook.rs` | `KHook { src, dst, original_stub, original_bytes, enabled }`; the code bytes of the kernel | `new`, `enable`, `disable`, `is_enabled`, `original`, `drop` |
| global allocator | `src/kalloc/mod.rs` | a pointer-sized header below every block | `alloc`, `dealloc` |
| pattern search | `src/memory/mod.rs` | loop variables | `pattern_search` |
| pool owners | `src/kalloc/pool.rs` | `PoolMemory`, `PoolMemorySlice` own one allocation each | constructors, `assume_init`, `leak`, `drop` |
| contiguous owners | `src/kalloc/contiguous.rs` | the same for contiguous memory | the same |
| physical allocators | `src/memory/allocator.rs` | none | adapters from kernel routines to a trait |
| system modules | `src/memory/module.rs` | none; a snapshot of the module list | query, base address, exported routine |
| process lookup | `src/process/mod.rs` | cache of the system process; reads the kernel's process list | `get_process_by_id`, `get_initial_system_process` |
| EPROCESS offsets | `src/process/eprocess.rs` | three cached offsets | scan routines for field accesses, read fields |
| page walk | `src/memory/pagewalk/` | none; reads page tables through `MemPhysical` | translate, read and write physical memory |
| crate root, bindings, build | `src/lib.rs`, `src/sys/`, `build*` | none | helpers, declarations, build-time code |

### How they interact

`KHook::enable`, `disable` and `drop` call `write_to_read_only_memory`, which owns an `Mdl` and an
`MdlMap` for the length of one call; their destructors run at the end of the function. `KHook::new`
keeps its trampoline in a `PoolMemorySlice` and its saved bytes in a `Vec`, which lives in the
global allocator when a driver installs it. Process lookup resolves `PsInitialSystemProcess` through the module list and
finds offsets with a scan of routines, decoded like the hook's source. Nothing in the crate takes a
lock: what is shared (code bytes, page lock counts, pool memory, the process list, the caches) is
shared with other threads, other processors and the rest of the kernel.

### What is hard about it

* **Code is patched while it can run.** The copy is neither atomic nor ordered, the processors are
  not stopped, and a jump covers several instructions.
* **Two books are kept.** `Mdl.locked`, `KHook.enabled` and the header below a block are the
  crate's idea of a state whose truth lies elsewhere: lock counts, code bytes, the pool. Every
  early return, ignored status and destructor is a chance for the two to part.
* **Saved state goes stale.** A hook restores bytes it saved when it was made, whatever happened
  to them since; a second hook on the same function captures the first one's jump.
* **Failures are partial.** Locking raises, mapping fails, protection fails, and the destructors
  must undo what was done and no more, in the right order.
* **Boundaries.** Header, alignment gap, last candidate, last relocated instruction.

`PROJECT.json` lists these hazards one by one at their lines.

### What makes each component correct

| component | properties |
|---|---|
| MDL wrappers | the flag says what the kernel has counted; mapped pages are locked; nothing stays locked |
| read-only writes | resources end with the call; stores go through a live view; all-or-false answer |
| inline hooks | flag and memory agree; removed hooks leave the original bytes; no jump into freed code; a call passes through hooks without losing or repeating an instruction, and finds its registers as it left them |
| global allocator | headers survive; blocks stay inside their allocation and apart; every allocation is freed once |
| pattern search | first occurrence, no read outside the region, termination |
| pool and contiguous owners | each allocation released once; elements dropped exactly when initialised; byte counts do not wrap |
| process lookup | an answer names a process that was in the list with that id during the call, and none that lasted is missed; a copy stays with the process looked up; references are given back |
| modules | an answer is about the module asked for, whatever loads or unloads between the queries |
| offsets | a cached or answered offset is where the field is, whoever searches; initialization leaves nothing to search |
| page walk | the answer is the one the tables defined at some moment of the call, for every page size; no page that is not a table is read as one |

## 2. Modules

| module | models | state |
|---|---|---|
| `Mdl` | `mdl.rs`, any number of wrappers | Rust side `live`, `region`, `locked`, `mapping`; kernel side `held`, `pins`, `views`, `stopped` |
| `CodeWrite` | the contract of `write_to_read_only_memory` as callers rely on it | `mem`, `call` |
| `ReadOnlyWrite` | the function, one action per statement, over `Mdl` | `mem`, `pc`, `req`, `left`, `ok` |
| `KHook` | `khook.rs` and the processors, over `CodeWrite` | `mem`, `call`, `hook`, `stub`, `op`, `panicked`; per processor `ip`, `rax`; histories `older`, `due`, `tangled`, `shaken` |
| `KernelAllocator` | `kalloc/mod.rs`, threads, owners of blocks, other pool users | `pool`, `mem`, `blocks`, `pc` |
| `PatternSearch` | `pattern_search` | arguments and loop variables |
| `ProcessAccess` | `get_process_by_id`, `mm_read`, `mm_write` over one set of processes | the kernel's `st`, `id`, `flink`, `refs`; `cached`; per thread `pc`, `arg`, `at`, `answer`, `copied` |
| `ModuleQuery` | `module.rs`, `resolve_system_routine` and all it calls, and the loader | the list `loaded`, `base`; per thread `want`, `size`, `found`, `place`, `answer` |
| `OffsetSearch` | `eprocess.rs`, over `ModuleQuery`, with the cache of `get_initial_system_process` | `code`, `cache`; per thread `call`, `next`, `val`, `result` |
| `PageWalk` | `pagewalk/`, and a system that changes the tables | `mem`; per walk `va`, `want`, `level`, `table`, `answer` |
| `Box` | what the documentation of the owners promises: `Box<T>`, `Box<[T]>` | `boxes`, `dropped`, `lost` |
| `PoolOwner` | `pool.rs`, `contiguous.rs`, the adapters of `allocator.rs` | the kernel's `heap`; `mem`; the wrappers `own` |
| `MC...` | small instances of each for TLC | |
| `..._proof` | theorems | |

`ReadOnlyWrite` EXTENDS `Mdl`, implements `CodeWrite` (a refinement mapping, `CallView`), and
`KHook` is built on `CodeWrite`. So the hook model carries none of the MDL steps, and what it
relies on is what the code of the write has been checked to provide. `OffsetSearch` EXTENDS
`ModuleQuery`: a search runs the resolution step by step, among those of others. `PoolOwner`
implements `Box`: `BoxOf` reads the values of a wrapper back from the bytes of memory.

### Correspondence, component by component

**Mdl.** An action is one method. `Lock` is `MmProbeAndLockPages` with `locked = true`; `LockRaises`
is the structured exception of mdl.rs:119, which no Rust frame catches, so the system stops.
`MmUnlockPages` of pages that are not locked, a mapping of such pages and an unmap after the unlock
set `stopped` to `"bugcheck"`. `Exclusive` is the borrow checker: `unlock`, `lock`, `map_locked` and
the destructor need `&mut self`, which a live `MdlMap` excludes. `TypicalUse` selects callers that
follow mdl.rs:20-27; without it they make any calls safe Rust accepts. A null answer of
`IoAllocateMdl` or of the mapping changes nothing and is no action here (it is one in
`ReadOnlyWrite`). `MdlMap::protect` changes nothing the crate reads.

**ReadOnlyWrite.** `pc` walks through rw.rs:47-61. Each kernel routine has an outcome action
(`MdlNewFails`, `MdlLockRaises`, `MdlMapFails`, and the status that `Protect` ignores). The end of
the scope is two actions, `DropMapping` then `DropMdl`, because Rust drops locals in reverse order.
`CopyByte` stores one byte in no fixed order: `copy_nonoverlapping` promises neither order nor
atomicity.

**KHook.** A code byte is its origin: an image byte or byte *i* of the jump of hook *h*. Decoding
finds whole instructions of the image, whole jumps, or junk. `new` is several actions, because memory
may change between them: `NewBegin`, one `NewDecode` per iteration of the loop (khook.rs:242-249),
which reads one instruction from memory as it is then, and `NewSave` (251-267), when the jump is
`Covered`. `older[h]` is the set of hooks that existed when h was made. `Enable`, `Disable` and
`Drop` begin a write, `WriteStep` performs it by the contract (it may be refused, it stores byte by
byte), and `EnableReturns`, `DisableReturns`, `DropReturns` are the code after the answer. `Fits` is
the slice bound at lines 256 and 262. A processor calls a hooked function, fetches instructions from
memory as it is at that moment, goes to the destination of a hook, and from there returns or calls
`original()`. Sizes are scaled: jumps of 1 or 2 bytes, `MAX_HOOK_SIZE` 3, window 4, with the order of
5 < 12 < 13 < 29 preserved. Functions are straight-line code.

The crate asks nothing of the callers of hooks, so the model does not either: any method of any hook
may be called at any time, every write may be refused, in a destructor too, and the processors go on
meanwhile. No property could hold of all that, and what a property must except is recorded by
histories, variables that no guard reads:

* `due`: the instruction the unhooked function would execute next.
* `tangled`: the bytes at which hooks were not used as a stack. A byte gets in when `new`, `enable`,
  `disable` or `drop` is called on a hook whose window holds it while another hook over that byte is
  in a method, or is newer (`OutOfTurn`); and when the destructor of a hook over it is refused
  (khook.rs:324 ignores that). It never gets out.
* `shaken`: the processors whose call met code that was changing: they stood between two of the
  instructions that a write replaces when it began (`Caught`), fetched an instruction from a window
  that was being written or is entangled (`Unsteady`), or were in the destination or the trampoline
  of a hook when it was released (`Guests`). The next call of the processor starts afresh.

`rax` follows one register. It is nobody's when a function is entered, and the absolute jump, `mov rax,
target; jmp rax`, overwrites it (`LoseRax`), as destinations do. At an entry that is harmless. The
jump back at the end of a trampoline is made by the same `create_assembly_jump` (khook.rs:261), but it
is taken in the middle of the function (`JumpBack`): when the trampoline is further than 2 GiB from the
function, what the relocated instructions left in RAX is gone. `ReadsRax` and `WritesRax` say which
instructions of the image use it. Trampolines come from the nonpaged pool, images of drivers and of
the kernel lie elsewhere, so the far case is the usual one on a real system; `khook_far` shows what
it does. The properties about the path alone (`OriginalOrder`, `NoWrongPath`) do not depend on it.

**KernelAllocator.** `AllocPool` is `alloc` up to `ExAllocatePool` (any unused address),
`AllocHeader` the alignment and the header, `DeallocRead` and `DeallocFree` the two halves of
`dealloc`. Between any two steps owners store anything in their blocks, including copies of pool
addresses, and memory that is not allocated changes at will.

**PatternSearch.** One action per loop step; `i`, `j`, `finded` and `last` are the variables of the
code. Offsets are relative to `base`.

**ProcessAccess.** `LoadSystem`, `ResolveSystem` (process/mod.rs:57-66), `LoadOffset`, `FindOffset`
(eprocess.rs:113-122) and `SearchFails` are the prologue of `get_process_by_id`; `ReadPid` and
`ReadFlink` are the two reads of an iteration of its loop (process/mod.rs:98-113), each of memory as
it is then. `MmLookup`, `CopyByte`, `CopyEnds`, `Dereference` are `mm_read` (rw.rs:89-109) and, the
direction of the copy apart, `mm_write` (rw.rs:138-158). The kernel is external: a process starts at
the tail of the list, is unlinked (its own link stays as it was, as `RemoveEntryList` leaves it) and
is freed once it has no references; its memory and pid are then used again. `FreeProcess` waits for
walks to end: `get_process_by_id` takes no reference, so that no entry is freed under it is what its
callers must provide, and without it no property of the walk could hold. Two history variables say
what a call may answer: `lasting`, the processes with the pid asked for that have been in the list
since it began, which it must not miss, and `matched`, those that have been there with that pid at
some moment since, of which its answer must be one.

**ModuleQuery.** `QuerySize` and `QueryFill` are the two calls of `ZwQuerySystemInformation`
(module.rs:61 and 70), between which the list may change; `QueryMismatch` is the refusal of a buffer
that has become too small, `QueryFails` any other status of either. `Matches` is the comparison of
module.rs:86-97, by full path or by what follows `OffsetToFileName`; the first match in list order
wins. `FindExport` reads the exports at the address the snapshot had, of whatever image is there by
then: if there is none, the system stops. `grew`, `gone` and `kept` are history variables: the list
has grown between the queries; the module found has been unloaded; the modules of that name that
were there throughout.

**OffsetSearch.** A call is a sequence of searches: one item for the search functions, four for
`initialize_cached_offsets`, which stops at the first that fails. `LoadCache` is the atomic load and
its test, `ReadRoutine` the scan of the accessor's code or the read of the exported pointer,
`StoreCache` the store. Instructions are `mov rax, [rcx + d]`, `ret` or others. The getters
(`get_process_peb` and the like) read one field at the offset found and keep nothing. `inited` and
`late` are history variables: an `initialize_cached_offsets` has answered `Ok(true)`, and a call
began after that.

**PageWalk.** Levels count down as in the code, 4 (`Pml4`) to 0 (`Phys`); an action reads one entry
and does what the code does with it before the next read. `Offset` is the mask of the page size
reached, `Huge` the flag, which the code looks at in PDPT and PD entries only. What the processor
makes of the same tables is `RightAnswer`, written from the architecture and not from the code.
`OsWrite` stores one entry. It keeps the tables a tree, and follows the rule that makes a walk
meaningful at all: a page is hung in as a table only if no walk under way has had it in its tree,
and only tables of the tree and such pages are written. A table that was taken out thus keeps its
contents until the walks that may be in it have ended. What the tables are at first is any tree
(`Start`, `StartAssumption`). `held` and `seen` are history variables: the answers that have been
right since the call began, and the tables of the tree since then. `get_address_of_level` and
`virtual_to_physical` are one walk with `want` apart.

**PoolOwner.** A wrapper holds a pointer, a length, and for contiguous memory the caching type its
destructor passes on. Byte counts are modulo `Word` (`Bytes`). The four types share their
constructors up to where they clear memory: contiguous memory is cleared by the adapter, a single
pool value is not cleared by `new_uninit`, a slice is. `Clone` of each element of a new slice,
`Drop` of each element in a destructor, and the drop of the value that was cloned are actions of
their own, because they are the caller's code and use other owners. `AssumeInit` forgets the old
wrapper; `Leak` gives up the block; `Free` calls the free routine with what the wrapper holds, and
`MayFree` says whether that is what was allocated. Freed memory changes at once; new memory has old
bytes in it.

## 3. Runs

| run | instance | shows |
|---|---|---|
| `mdl_typical` | 3 wrappers, 2 pages, documented order, symmetry | flag and counts agree, mapped pages stay locked, no rule is broken |
| `rw` | 2 threads, 3 pages of 2 bytes, overlapping and page-crossing requests, null and empty ones, every failure | resources end with the call, stores go through locked views, the contract is implemented, calls return |
| `khook` | 2 hooks on 1 function, near trampolines, 1 processor, calls in any order and at once, refused writes and destructors, symmetry | the six hook properties: outside entangled bytes flag and memory agree, bytes come back, no jump dangles; a call that is not shaken executes the function in order; none leaves it on an intact instruction |
| `khook_adjacent` | a hook on each of two neighbouring functions, the first 3 bytes long | *violated* `FlagTells`: `disable` of the first rewrites its whole window, where the jump had fewer bytes, and the second hook's jump is gone |
| `khook_far` | 1 function, trampolines out of reach | *violated* `RaxTransparent`: an instruction in the trampoline sets RAX, the jump back overwrites it, the function returns it |
| `allocator` | 2 threads, 7 bytes, 2 touching allocations at an odd and an even address, alignments 1 and 2, 2-byte pointers, symmetry | the allocator properties |
| `pattern` | all regions up to 4 bytes, all patterns up to 3 elements, 2 byte values and the wildcard | first occurrence, bounds, termination |
| `process` | the system process and 3 more, 4 pids, 1 walk, 1 copy of 2 bytes, one pid asked for | answers are right, walks end, references protect copies and are given back |
| `pagewalk` | tables of 2 entries, 5 pages for tables, pages of 2 units and of two larger sizes, 1 walk, 3 writes | every answer was right at one moment of the call; only tables are read as tables |
| `owner` | 2 owners, 6 bytes, elements of 2, slices of 0 and 2 elements, all four wrappers, 2 caching types, 4 values | blocks are accounted for, and the owners implement `Box` |
| `owner_wrap` | a word of 8, a length of 5 elements of 2 bytes | *violated* `ElementsInside`: the block has 2 bytes for 5 elements |
| `lookup` | 2 threads, the kernel and 2 drivers, 3 addresses, accessors that can and cannot be read | resolutions, offsets and initialization are right while drivers load and unload |

**Why the bounds are enough.** Three wrappers over two pages give every overlap of regions and every
order of three owners of one page. Two writers whose requests overlap, one crossing a page, give
shared locks and mixed stores. The image of `MCKHook` has two functions, *s* at 1..3 and *t* at 4..8,
so that a window over *s* reaches into *t* and an instruction of *t* straddles the end of
`MAX_HOOK_SIZE`. Two hooks on *t* give one older and one newer hook, which is all that capturing
needs, and every way to use them out of turn; a processor never writes memory, so one of them sees
everything two would. Hooks of one kind are interchangeable, hence the symmetry. Each hook object is
constructed once: two of them give the second life of a function. `MCKHook_near` is one more instance,
with a near and a far jump on the two neighbouring functions and the same first four properties.
`khook_adjacent` is under `SeparateSpec`, callers that hook each function once only, so that what it
shows is owed to the neighbour and to nothing else. The
allocator's two allocations touch, so a byte too many hits a neighbour, and a third block reuses
stale headers. Three processes besides the system process give a walk that stands on one that is
unlinked, whose neighbour is unlinked too, while a third enters behind; pids and memory are
interchangeable, so one pid asked for is every one. `WalkEnds` also needs the bound itself: a kernel
that starts and ends processes faster than the walk advances, with memory without end, would keep it
busy. The longest pattern overlaps itself inside the longest region. `MaxWrites` = 3 lets the system
cut a path above a walk, change what is below, and hang in a new table; the spare page is that new
table, with old entries in it. The virtual address has index 1 at two levels and a non-zero offset
in pages of every size. Two owners in memory for three elements reuse each other's bytes, and the
four values suffice for a slice of two clones and an assignment. One driver has the kernel's file
name and exports but not its code, and with three addresses a driver can be loaded where another one
was while a base address is in use; two threads give two searches of one cache, or a search beside
an initialization.

**Deadlock.** `allocator`, `process` and `pagewalk` check it. The other configurations turn
the check off, because there the system may stop: after an exception or a bug check (`Mdl`,
`ReadOnlyWrite`, `ModuleQuery`), when every hook is dropped and there is no processor, after a
fault, a panic, the end of the search, or when the values of the instance are used up (`PoolOwner`).

**Fairness.** `ReadOnlyWrite` assumes weak fairness of the body of a call per thread: nothing in it
waits for another thread, so a thread that is scheduled goes on (entering and leaving calls is not
fair). `PatternSearch` assumes weak fairness of its only process. `ProcessAccess` assumes it of the
steps of a walk and of a copy, which never wait; processes need not start or exit. The other modules
claim safety only and assume none: a resolution that is refused because the list has grown is not
tried again by the code, so nothing there promises an answer.

**Disagreements found.** The three *violated* runs state a sentence of the documentation, quoted in
`PROJECT.json` under `findings`. These smaller ones have a configuration to reproduce them
(`tlc -config MCMdl_anyuse.cfg MCMdl` and so on):

| configuration | property violated | what happens |
|---|---|---|
| `MCMdl_anyuse` | `EverythingReleased` | a second `lock`, which safe code may take, is never undone (mdl.rs:126); mdl.rs:10 says "These wrappers automatically release every acquired resource" |
| `MCReadOnlyWrite_status` | `FailedStepAnswersFalse` | the status of the protection change is ignored and the answer is `true` (rw.rs:59 and 44) |
| `MCKHook_dropped` | `DropRestores` | `drop` ignores a refused `disable` (khook.rs:324): the jump stays in the code and its trampoline is freed; khook.rs:79 says "Dropping a hook automatically restores the original function bytes" |
| `MCKHook_growth` | `NewNeverPanics` | a branch among the first instructions grows when it is relocated, and the slice index at khook.rs:262 panics |
| `MCProcessAccess_head` | `AnswersAreProcesses` | the list head is read as if it were inside a process and may be answered (process/mod.rs:109) |
| `MCPageWalk_pat` | `AnswerWasRight` | bit 12 of a large page's entry is its PAT attribute; `addr()` takes it for an address bit, so the translation is off by 4 KiB (pagewalk/mod.rs:387 and 395; 20 and 184 say that large pages are handled) |

Without a run:

* kalloc/mod.rs:64-66 says that `alloc` takes the size from the layout and ignores its alignment; the
  code, and the model, ask for the header and the alignment gap too.
* khook.rs:53-58 says that a RIP-relative instruction makes hook creation fail by default; `new` has no
  such check and leaves those operands to the block encoder. The repository's README shows
  `KHook::new(src, dst, false)`, which has two parameters in the code.
* The scan of an accessor ends at a `ret` only: a routine that ends in a jump is scanned on into its
  neighbour, whose field would be answered (`Accessor` excludes such routines). It copies a whole
  page from the routine on, which may reach past the end of the image.
* The caches use 0 for "nothing cached": a field at displacement 0 would be searched on every call
  (`OffsetAssumption` excludes it).
* A base address is used after the snapshot it comes from: nothing holds the module (`gone` excepts
  those answers). Paths are compared in lower case, which may change their length while
  `OffsetToFileName` does not follow, and a path that is not UTF-8 never matches; names are abstract here.
* The slice constructors `new`, `new_uninit` and `new_zeroed` take memory from the paged pool
  (pool.rs:402-415, 455-466, 536), not from the type the documentation names as the default. Blocks of
  the pool are aligned to 16 bytes, also for types with a larger alignment (pool.rs:215).
* A short physical read with a success status becomes an `Err` that carries a success
  (winimpl.rs:35).

## 4. Proofs

All proofs are for every value of the constants allowed by the named assumptions.

**`KernelAllocator_proof`** (assumes `AllocatorAssumption`: a positive pointer size, sizes and
alignments positive, allocations not at address 0). `HeadersIntact` is not inductive: a store of an
owner spares the headers because blocks lie inside allocations; a store elsewhere because
allocations lie in memory; the header written by one `alloc` spares the others because live
allocations are disjoint and have one owner each. The inductive invariant `Inv` is the conjunction
of these facts (`PoolInMemory`, `PoolDisjoint`, `BlocksLive`, `BlocksInsideAllocation`,
`HeadersIntact`, `InFlight`, `OneOwner`, with the types, `FreesAreValid` and `NothingLeaks`).
Lemmas: what a header read returns (`StoredIsHome`), that a block lies in its extent, and that
extents of different homes are disjoint. From `Spec => []Inv` follow the six properties of the run,
for any threads, layouts and placement.

**`ReadOnlyWrite_proof`, the wrappers** (assumes `MdlAssumption`, that there are finitely many
handles, and `TypicalUse`). `TypicalUseIsSafe`: no rule of the memory manager is broken. `FlagInv` adds that the flag is exact
(`held` is 1 when it is set, else 0) and that a mapping exists only while its wrapper is alive and
locked, which is what the borrow guarantees. `FlagsMatchCounts`, `MappingsArePinned` and
`WrapperTypes` need the counts: `CountInv` adds that the pins and the views of a page are the sizes
of the sets of wrappers that hold it locked (`Pinning`) and mapped (`Viewing`). A lock adds one
wrapper to one set, its destructor takes it out again (cardinalities of finite sets); and since a
wrapper that views a page pins it, a page with a view has a pin.

**`ReadOnlyWrite_proof`, the write** (assumes `WriteAssumption`: one wrapper per thread, used as documented,
pages of a positive size that cover the addresses; and `RequestAssumption`: a request that is not
rejected lies in memory). `WriteInv` says that where a call is decides what it owns (`Owns`) and
what it has copied (`Copied`). The steps of the function are steps of `Mdl` or leave the wrappers
alone (`StepsUseMdl`), so the invariants of the wrappers carry over without a new proof.
`ContractIsImplemented` maps each step to one of `CodeWrite`: the refusals to `Refuse`, the copy to
`CopyByte`, the end of the copy to `Complete`, all others to stutters.

**`PatternSearch_proof`** (assumes `PatternAssumption`): partial correctness (`SearchIsCorrect`) and
bounds (`SearchStaysInside`), and the types (`SearchTypes`). The loop invariant: no earlier
candidate is an occurrence, the first *j* elements agree with candidate *i*, and a candidate given
up disagrees somewhere. `SearchAdvances` is the part of `Terminates` that needs no fairness: every
step makes `Remaining` smaller, so a pattern of *n* bytes is found or not found in a region of
*m* in at most (*m - n* + 1)(*n* + 2) + 1 steps.

**`ProcessAccess_proof`** (assumes `ProcessAssumption`: walkers and copiers are different threads,
finitely many copiers, the system process is a process, and the head, the null link and "none" are
not). `CopyTargetHeld` is not inductive: that `FreeProcess` spares the process of a copy rests on
its reference being counted. `HoldInv` adds `ReferencesReturned`, that the target of a copy is a
process, and the types; a lookup adds one element to the holders of one process and a release takes
it away, every other step leaves holders alone (`Undisturbed`).

`NothingIsMissed` (`NoneMeansAbsent`) and `AnswersWereListed` (`SomeWasListed`) are about links that
may be stale. Processes enter at the tail, so numbering them as they start orders the list (`Order`,
with the head behind all), and the numbers survive every start and exit. For each walk there is a
set *G* of the nodes it may still come to (`Reach`): all that have been in the list since it began.
Every link of *G*, stale or not, stays in *G*, leads to a larger number, and jumps over no process
that the walk must not miss. An exit redirects one link over the process that leaves; a start adds a
node behind all others. When the walk arrives at the head, all it must not miss are behind it.
And what *G* holds with the pid asked for has been `matched`: it was in the list since the call began,
and no memory is used again while a walk is under way. So `SomeWasListed` follows, for any word
`HeadWord` next to the head.

**`OffsetSearch_proof`** (assumes `ModuleAssumption` and `OffsetAssumption`: the kernel's path is no
other module's, the fields are not at displacement 0, and an accessor that reads through `rcx`
before it returns reads its field). `ResolutionRight` holds because the list and the addresses agree
(`ListInv`) and because each thread knows, at each step, what the list has done since its call began
(`Resolving`): a list that fits the buffer has not grown, and the address is still that of the
module found unless it is `gone`. `OffsetsRight` and `InitSuffices` rest on it through `Searching`:
the kernel is never `gone`, so what is scanned is its code; the caches behind a thread's position
are filled, and a filled cache is never emptied (`InitCached`). `OffsetTypes` gives the types of
what is read and cached.

**`PoolOwner_proof`** (assumes `PoolOwnerAssumption` and, in the theorem, `NoWrap`: no byte count
exceeds a word; `owner_wrap` shows why it is needed). The invariant `OwnerInv` says that every
wrapper knows, in whatever state it is, the family, the byte count and the caching type of its block
(`KnowsBlock`), that no two wrappers share a block, and that every block that was not leaked has a
wrapper. A new block is a new address (`RoomIsNew`); use changes no wrapper's block (`SameBlocks`);
a destructor takes away exactly one (`BlockLeaves`). `OwnerTypes` needs no `NoWrap`: whatever the
byte counts are, memory holds only values that were made. Nor does `WrappedBlocksComeBack`: a
wrapped byte count is too small for the elements, but a destructor computes the same one as the
constructor, so each block still has one owner and is given back once, as it was allocated.

`OwnersAreBoxes` is the refinement, `ImplementsBox`, under `NoWrap`. A box has values of its own,
the wrappers have bytes of one memory; so each step must be shown to leave the bytes of all other
wrappers alone. `BoxInv` adds what that takes: blocks are disjoint and every byte of them exists
(`BlocksApart`), the elements of a wrapper lie in its block (`OnGround`) apart from each other
(`ElementsApart`), and an element that counts as written in a `MaybeUninit` slice holds a value
(`Staged`). `OthersStay` concludes that a step confined to a block, or to a block just given out,
changes no other box. That no value gets into two boxes is harder for `new` of a slice, whose clones
lie in memory, in no box yet, while other owners run: `KeptApart` says that they, and the value that
is cloned, are distinct from each other and from all that is in boxes, dropped, lost, or kept by
another constructor. A constructor of a slice is thus a stutter up to the moment all elements are
there, where it is `New` of `Box`, and the drop of the cloned value behind it is `DropSpare`. For
the steps of boxes there is one lemma each (`AbsNew` to `AbsDropEnds`), and one for each action
that maps it (`NewBox` to `AssignBox`). What the refinement is worth shows `ValuesMeetOneEnd`, its
consequence for the wrappers: a value is in one place of one box, or dropped, or lost, and never
two of these. `Box` fills boxes with values that are in none of these places (`Spare`) only, so the
proof has one lemma for each kind of step of a box (`NewOnce` to `SpareOnce`) and none about memory.

**`PageWalk_proof`** (assumes `PageWalkAssumption`: tables do not overlap, and a table's entries fit
in a page; and `StartAssumption`: the system starts with a tree of tables, root at the top). The
tables form a tree whatever the system stores (`IsTree`): a page hangs at one entry of one level, so
a change has effect below one entry only. A walk knows a family *C* of pages, one set per level
(`Known`): tables that have been in the tree since its call and whose links stay in *C*; one that
was cut off keeps its entries and links none that is in the tree. `WalksStayInTables` and
`WalkTypes` follow. For `AnswersWereRight` the invariant says more (`Follows`): what a translation
from the table the walk is in would answer has been the right answer for the whole of the tables at
a moment of the call. A change below the walk is on the tree's path, and becomes such an answer; a
change elsewhere does not alter the rest of the walk (`FromStays`, `PathStays`). The hypothesis
`AlignedPages` says that no page's entry has an attribute bit where `addr()` takes the address from;
`MCPageWalk_pat` shows why.

**`KHook_proof`** (assumes `HookAssumption`), in layers. `Shape` says which states a hook, its
method and its write can be in together, whatever the callers do.

`NeverAstray` (`NoWrongPath`) and `HookTypesHold` assume no discipline of callers at all. A hook is
made once, so all its jumps, wherever they are copied to, belong to one address; `PathInv` keeps
those addresses in a function *s*. Every byte of the code, and every saved byte, is the image's or
the byte of a jump at its place (`Byte`), so what `new` decodes at an address is an instruction of
that address, the jump of a hook whose address it is, or junk (`DecodesRight`). The instructions of
a trampoline follow one another and end where its jump back goes (`Chained`), and a processor in a
destination or a trampoline is due exactly there (`Straight`). Code written by others only changes
which of the three is decoded, never to an instruction of another address.

`BytesComeBack` (`OriginalBytesRestored`) assumes nothing more. A hook restores what it saved, and
that is the image only where no older hook was installed at the time and none of them has come or
gone since. Whether callers kept to that is not assumed but recorded, byte by byte, in `tangled`, and
the property excepts those bytes: an older hook that is disabled first leaves its jump in what the
newer one saved, and a destructor that is refused leaves its own. `HookInv` says of all other bytes
that of the hooks over them only the newest is in a method (`Stacks`), that saved bytes are the image
where no older hook is enabled (`SavedRight`), that a restore in progress has put back what it has
written (`Restores`), and that a byte no hook has touched is the image's (`BytesRight`). A refused
write is no case of its own: it stores nothing, and the flag stays.

`JumpsAlwaysLand` (`NoDanglingJump`), on the same terms: jumps lie in layers. A hook *shows* byte *i*
of its jump from the moment `enable` has stored it until `disable` or `drop` has stored over it. Where
several hooks show a byte, memory holds that of the newest (`Top`), what a hook saved holds that of the
newest of the hooks older than itself (`Beneath`), and a trampoline jumps only to older hooks that are
enabled (`Captures`). A store by the newest hook puts its own byte on top or uncovers the layer below,
which is what it saved; so when a hook goes nothing shows it any more. A step of a hook that is not the
newest would break this, and `Clear` says that it does so at bytes that become `tangled` only.

`OrderIsKept` (`OriginalOrder`) assumes two facts about the image: `Tiles`, functions are whole
instructions one after the other up to a `ret`, and `Apart`, the windows of different functions do
not overlap (with functions shorter than a window, a hook on one replaces the entry of the next). The
instance of `khook` satisfies both. Of callers it assumes nothing: a processor is excepted only from
the moment its call is `shaken`. One that is not is `Sound`: at an instruction that lies inside no
jump in place or on its way (`Safe`), in the destination or the trampoline of a hook that is there
(`Present`), or idle. What it decodes at a safe place is the image's instruction or a whole jump
(`NoJunk`, from `Top`), the next instruction is safe again (`NextSafe`), and a trampoline that was not
decoded from an entangled entry holds no junk up to where a processor leaves it (`Runs`) and leads back
behind every jump at its function (`BackSafe`). Since windows are apart, bytes get entangled a whole
window at a time (`Whole`), so a processor meets no jump of which one half is. `NeverAstray` supplies
that the instructions come in the right order.

`FlagTellsInstalled` (`InstalledIffEnabled`) assumes of the image only `JumpsApart`: no function begins
within a jump's length of another. That is less than `Apart`, windows may overlap; `khook_adjacent`
shows such windows, and the property excepts the bytes that get entangled there. Which hooks a call goes
through is a closure over captured jumps
(`Chain`, the least set closed under `LeadsTo`). `ChainInv` says where each trampoline leads: to the newest of
the older hooks of its function that are enabled, and to none if there is none (`LeadsDown`), while
the code leads to the newest of all (`Top`). So the enabled hooks of a function are closed under
`LeadsTo`, and every closed set that holds the newest holds them all: of those it would miss, take
the newest; the one above it leads to it. That there is such a newest one is a minimal element
of a finite set, since only finitely many hooks exist at a time, for any number that ever will.

Nothing is proved about RAX: `RaxTransparent` is false, as `khook_far` shows.

Only model-checked: liveness (`CallsReturn`, `Terminates`, `WalkEnds`), which is out of the prover's
reach. Every other property of the passing runs is a theorem. Where an argument needs induction over
a finite set, it takes a minimal element from the library's well-founded order of finite subsets
(`WFMin`), as for the newest hook above and the longest length of a slice (`LongestIs`).

## 5. Not modelled

* `lib.rs`: stateless helpers (pointer casts, `OBJECT_ATTRIBUTES`, path splitting).
* `sys/` is generated: 127,000 of the crate's 131,000 lines declare kernel types and routines and
  do nothing. The routines that the modelled code calls appear as external actions.
* `build.rs`, `old_build.rs`, `builds/` run at build time.
* Instruction encodings, and functions that branch back into their first bytes (the code does not
  look for them).
* The typed adapters of `allocator.rs` and the conversions between virtual and physical addresses;
  the formatting, comparison and indexing traits of the owners: they forward and keep no state.

## 6. Plan

Done, in the order of what can harm a running kernel: `Mdl`, `CodeWrite`, `ReadOnlyWrite`, `KHook`,
`KernelAllocator`, `PatternSearch`, `ProcessAccess`, `PageWalk`, `PoolOwner` with `Box`, `ModuleQuery`
and `OffsetSearch`. Every stateful part of the crate is modelled.

Proved: the types and all safety properties of every module that a passing run checks, and both
refinements. `RaxTransparent` can be proved once the code saves RAX or jumps back by another way.

Left: the hypotheses of the theorems that have some. Each run that is expected to fail, and each
unlisted configuration, shows that some hypothesis is needed there (`owner_wrap`,
`MCPageWalk_pat`, `MCMdl_anyuse`) or what an exception
is for (`khook_adjacent`, `MCKHook_dropped`, `MCProcessAccess_head`), not that it is the weakest one. For
termination, measures like `Remaining` for the walks of `PageWalk` and the calls of `ReadOnlyWrite`.
