# A TLA+ model of Weave C

Weave C compiles C so that each memory access the compiler cannot prove safe is
guarded at run time. Its runtime (`src/runtime`) supplies the shadow memory the
guards read and a heap that does not hand a block out again while a pointer to
it is left; its compiler passes (`src/lib/Frontend`) lay out frames, insert
guards and drop the ones they can, by a specification of the C library
(`src/lib/Core`). This directory models both: the steps of threads and signal
handlers in the runtime, and the decisions of the passes over small programs.
TLC checks them on small instances. TLAPS proves, for every size, nearly all of
the safety results: of the heap and its refinement of an abstract one, the stop,
the pacing, the mark workers, nested calls, fork, huge blocks, the shadow and its
guards, library calls, reports, frames, the compiler's guards and the ledger.

## The system

| Part | State | Operations | What makes it correct |
| --- | --- | --- | --- |
| Heap slots (`weavec_alloc.c`) | a word per slot (never used, free, live with its size, released), a free list and a bump index per region, spare regions | `popSlot`, `popClass`, `takeSpare`, `makeLive`, `claim`, `retire`, `realloc` | a slot has one owner; none is lost; a released slot is reused only when nothing points to it |
| Thread caches | per thread and class, free slots and released slots | `cachedAlloc`, `cachedRelease`, `flushReleases`, `returnSlots`, `dropCache` | the same, across refills, flushes, thread exit, fork |
| Quarantine and pacing | `quarantineBytes`, `hugeDeadBytes`, `retainedBytes`, `nextPacingCheck` | `overBudget`, `weavecRtSwept`, `weavecRtRecycle` | the counters say what is held; a hard budget of releases starts a sweep |
| Sweep (`weavec_sweep.c`) | stop table, generation, marks | `stopThreads`, `stopHandler`, `markAddress`, `weavecRtRecycle`, `resumeThreads` | it recycles only if it ran alone; every stopped thread runs again |
| Mark workers | the work list | `addWork`, `runWork` | every piece of work is done once, before recycling |
| Huge blocks | a sorted table under one lock, the pages and their shadow | `hugeAlloc`, `hugeFind`, `hugeFree` | the range stays the block's until a sweep finds no pointer; the table finds every block, before and after it grows |
| Size classes, entry points (`weavec_malloc.c`) | the class table | `classFor`, `slotOf`, `calloc`, `aligned_alloc` | the smallest slot that holds the request and its spare byte, aligned as asked; no length wraps |
| Fork, signal handlers | locks, `depth`, `locks`, `deferred` | `forkChild`, nested calls | no call waits for a lock its own thread holds; the child's lists are whole |
| Shadow, guards, colors, ASan interface (`weavec_guard.c`, `weavec_asan.c`) | one byte per 16 bytes | `weavecRtShadowObject`, `firstUnaddressable`, `settle`, `__weavec_rt_color_ok` | a guard passes exactly for bytes of a live object; a pointer that leaves its object meets another color |
| Checked library calls (`weavec_libc.c`) | none | the wrappers, `checkFormat` | a call is checked before it touches memory, and for no byte more |
| Reports (`weavec_report.c`) | the once-per-site table, the signals' dispositions | `firstReport`, `onFault` | one line per site; a fault ends the process |
| Frames (`GuardFrames.cpp`) | a frame's layout, its shadow | `layoutStatic`, `layoutDynamic` | a local is addressable while it lives, and never after |
| Guard rules (`GuardInsert`, `GuardExpand`, `GuardLoops`, `GuardPass`) | the guards of a function | prune, `removeDominated`, `mergeInBlocks`, `versionLoop`, `emitGuard` | a guard is removed only if another covers it on every path; an inline check decides as the runtime would |
| Library calls (`GuardLibrary.cpp`) | the rows, a call's guards | `guardLibraryCalls`, `redirect` | what a call touches is checked on every way the passes and the optimizer take it |
| Library specification (`LibrarySpec.cpp`) | rows, aliases, terms | `parse`, `lookup`, `evaluate` | a term is worth what it says, or is not used; a name finds one row |
| Enforcement ledger | rows and copies, the file | `add`, `copy`, `finish`, `writeFileAtomically` | what it calls guarded is checked; the file is whole |
| Driver, build, packaging | | | not modelled |

The passes write calls of the runtime and loads of its shadow into the program;
the allocator, the frames' code and the program's own ASan calls write the
shadow, and guards read it without a lock. Threads meet in the region locks, in
atomic operations on slot words, in the relaxed counters, and in the stop
signal. What is hard here: a sweep stops the other threads *wherever they are*,
so each half-done release or allocation is a state it must cope with; an answer
to a stop may come after the stop gave up; the free lists, caches and quarantine
exchange slots whose old bytes still hold pointers; a shadow byte outlives what
it described; and a guard is dropped because of another that ran on other paths,
before a call that released, or before a scope that ended.

## Modules

| Module | Models | Source |
| --- | --- | --- |
| `SafeReuse` | what the heap promises (guarantees (R) and (T) of `docs/pages/reference/guarantees.md`): a released block becomes vacant only while nothing the program can read points to it; releasing anything but a live block ends the program | abstract |
| `Heap` | one size class: its regions, the threads' caches, the quarantine, the sweep | `weavec_alloc.c`, `weavecRtSweep` |
| `HeapProofs` | the inductive invariant of `Heap` and its proof | |
| `HeapRefinement` | the proof that `Heap` implements `SafeReuse` | |
| `ThreadsProofs` | the inductive invariants of `StopWorld`, `Pacing` and `ForkCaches`, and their proofs | |
| `NestingProofs` | the same for `Nesting` | |
| `SweepProofs` | for `MarkWork` and `Reports` | |
| `RuntimeProofs` | for `HugeBlocks`, `Library` and `Shadow` | |
| `GuardProofs` | for `GuardRules`, `LoopGuards`, `InlineChecks` and `Frames` | |
| `LedgerProofs` | for `Ledger`, `LibraryRows` and `LibraryCalls` | |
| `StopWorld` | the stop signal, its handler, the stop table and generation on Linux | `weavec_sweep.c` 799-1043, 1236-1313 |
| `Pacing` | the counters, the budgets, the pacing check, with `size_t` wrapping | `weavec_alloc.c` 1073-1118, 1153-1198, 1844-1910 |
| `Nesting` | one thread, with the calls that signal handlers nest in it: `depth`, `locks`, `deferred`, the sweep's signal mask | `weavec_alloc.c` 145-213, 883-1054, 1446-1602; `weavecRtSweep` |
| `ForkCaches` | the caches a child of fork copies, and how it drains them | `weavec_alloc.c` 926-1054, 1143-1198, 1702-1738 |
| `MarkWork` | the mark workers: starting them, the work list, rounds, fork | `weavec_sweep.c` 159-353, 1263-1313 |
| `Reports` | the table of reported sites, the fault handler | `weavec_report.c` 57-93, 171-179, 268-377, 568-639 |
| `Classes` | size classes, the slot of an address, the entry points | `weavec_alloc.c` 260-316, 667-689, 1448-1488; `weavec_malloc.c` |
| `HugeBlocks` | the table of huge blocks, their pages and shadow | `weavec_alloc.c` 215-234, 1200-1347, 1785-1833, 1887-1910; `weavec_libc.c` 646-663 |
| `Shadow` | the shadow's values, who writes them, the guards that read them | `weavec_rt.h` 67-154; `weavec_alloc.c` 343-503, 644-748; `weavec_guard.c`; `weavec_asan.c` |
| `Library` | the checked versions of library calls | `weavec_libc.c` |
| `Frames` | the layout and shadow of a frame | `GuardFrames.cpp` |
| `GuardRules` | the guards that are proven, dominated and merged | `GuardPass.cpp` 73-124; `GuardExpand.cpp` 87-335, 408-484, 809-939 |
| `LoopGuards` | loops checked at once | `GuardLoops.cpp` |
| `InlineChecks` | the checks written into the program | `GuardPass.cpp` 555-925 |
| `LibraryTerms` | the terms of the specification: spelling, reading, value | `LibrarySpec.cpp` 30-177, 311-430; `GuardLibrary.cpp` 228-299 |
| `LibraryRows` | its rows, their aliases and the lookup | `LibrarySpec.cpp` 187-210, 550-929 |
| `LibraryCalls` | what becomes of a library call | `GuardLibrary.cpp` |
| `Ledger` | the ledger through the passes, and its file | `EnforcementLedger.cpp`; `GuardInsert.cpp` 236-353; `GuardExpand.cpp` 875-944 |
| `MC*` | small instances for TLC | |

`MCThreads`, `MCSweep`, `MCRuntime` and `MCCompiler` check several modules in
one run: they extend them all, and the variable `part` says which one a
behaviour is about. The variables of the other modules stay in a state that says
nothing. The parts do not interact; each is checked as if it had a run of its
own. Modules whose input is a program, a call or a request (`Classes`, `Library`,
`Frames`, `GuardRules`, `LoopGuards`, `InlineChecks`, `LibraryTerms`,
`LibraryRows`, `LibraryCalls`) let `Init` choose it from a small set, exhaustively.

In every module a *fault* is an operator that changes one action the way a
plausible mistake would; it stands before the action and no specification uses
it. `PROJECT.json` pairs each property with a fault that breaks it.

### Heap

`word`, `listed`, `fresh` and `regions` are the slot words, the free lists, the
slots past the bump and the regions the class has; `alloc` and `release` are a
thread's two caches, `cache` whether it has them; `shadow` what a guard sees.
`ptr[h]` is the set of slots that the words of holder `h` point into, where a
holder is a thread (registers and stack), a slot, or one of the program's other
mappings (`Data`). `pc[t]` is where a thread is in the runtime.

A step is what a thread does between two points at which another can interfere:
one critical section of a region lock, one atomic operation on a word, one
write of a slot's shadow. So a release is `Free` (read the word), `Claim` (the
compare-and-swap), `ShadowDead`, then `CachedRelease` and later
`FlushReleases`, or `Retire`, then `Budget`; an allocation is `Malloc`,
`PopClass` (or `PopSweep`, `TakeSpare`, `PopNothing`), `MakeLive`, `ZeroFill`,
`Publish`; a sweep is `EnterSweep` after the thread's own cache is drained,
`LockAll`, `Stop` per thread, `Mark`, one `Scan` per piece of memory in any
order (as the sequential and the parallel marking read it), `Recycle`,
`ResumeThreads`, `LeaveSweep`. `trapped` is `__weavec_rt_fatal`.

Assumptions about the program, as the project's own guarantee states them: A3,
no thread is between an access's guard and the access while another releases
the block (`RaceFree`); A6, pointers are not hidden from the sweep. It may keep
and release stale pointers as it likes.

Data left out: free lists and caches are sets (which slot comes off first is a
choice); sizes within a class; the quarantine's queue order; `decommit`; the
statistics. Whether a release is over budget is a choice here and is `Pacing`'s
subject; how a thread stops is `StopWorld`'s. `realloc` has no action of its own:
one that moves is `Malloc`, `Copy`, `Free` by one thread, one in place changes a
size that the model does not have.

### StopWorld

One thread sweeps again and again; the others run, create threads, exit, block
the signal (by a raw system call), and take the signal's handler step by step:
load the generation, test `stopping`, find oneself in the table, answer, wait
for the generation to change. The sweeping thread lists the tasks, fills the
table, sends, waits, notices exits, times out, marks, lists again, recycles,
clears `stopping`, grows the generation. `ran` collects the threads that ran the
program since the marking began.

Three constants say what the environment may do: `Prompt` (a handler that has
started is not suspended for a whole second), `ShortLived` (a thread born
during a sweep may also exit during it), `ListFails` (`/proc/self/task` may
fail to open when it is read again).

### Pacing

`Queue` then `Count`: a slot joins the quarantine under its region's lock and
its bytes are added after the lock is given back. `OverBudget` and `Pace` are
the two halves of `overBudget` (decide, then store the next check). `TrySweep`,
`Recycle` or `CannotMark`, and `Swept` are the sweep's counting. `since` counts
the bytes released since the last sweep, whatever the counters say.
A sweep may stop a thread between `Queue` and `Count`, as the code lets it, and
recycle what it queued. `overdrawn` is history: the last sweep that marked took
more off the counters than they held. Blocks have one size and the live heap is constant; `classGained` is left out.

### Nesting

The thread is a stack of frames: calls of `__weavec_rt_alloc` and
`__weavec_rt_free`, handlers, and `dropCache`; the last one runs, and a handler
may be pushed between any two of its steps, unless the sweep has blocked the
signals. `cache` is the value of the key (`none`, `made`, `gone`), so that a
thread's first call, which makes the cache, and the calls after its exit are
steps of the same actions. A critical section is `Take` (count the lock), `Lock`
(wait for it), `Work` (what is done under it, and give it back), `Give` (count
it down): the counts change outside the lock, where a handler can run. The loop
over `deferred` is three steps, as the count is tested, stored, and used.

`Uncounted` permits signals during the calls that no cache counts: a thread's
first, `dropCache`, and those after it. `Nested` permits a handler to interrupt
another. `MaxSignals`, `HandlerCalls` and `DeferredLimit` bound the handlers during
one outermost call, their calls, and the table of releases that wait. `torn` is
history: a handler came between a load of `deferredCount` and the store that
follows from it, in the loop over `deferred` or in the entry of a release into it.
One size class and one region; taking the last cached slot and making it live is one step.
Other threads are left out: a handler's danger is to its own thread.

### ForkCaches

Threads allocate and release through caches, each a count and entries, so that
an entry beyond the count keeps its old value; a list is how many times each
slot is on it, so that a slot listed twice is a state of the model. Two stores
to one cache are two steps: the entries and the count of a refill, the two
stores of each swap of the reversal that follows, the count and the entry of a
push, the slots a flush or a return has moved and the count that says so.
`Fork` is possible whenever no critical section is in progress, which is what
`forkPrepare`'s locks ensure; after it the variables are the child's and
`DrainCopied` is `drainCache(cache, 1)` of one copied cache. The child's thread
goes on afterwards.

`CountFirst` is the order in which the build stores a push. `stale` is history:
one of the copied caches lists a slot twice, or one that is not the cache's any
more, and the slot's word does not tell (`StaleCopy`): a half-done swap of a
refill's reversal, slots that `returnSlots` has given back, slots that
`flushReleases` has queued and that were recycled, allocated and claimed again
since, and with `CountFirst` an entry not stored yet over such a slot. The parent's
handler only gives the locks back. The view `Seen` of `MCThreads` leaves out the entries that no step can
read before they are written again.

### MarkWork

The sweeping thread goes through `EnterSweep`, `StartWorker` or `StartFails` for
each worker it wants, `StartedAll` (divide the work or not), `AddWork` per range,
`RunWork`, then takes and marks items like a worker and waits (`AwaitWorkers`).
A worker goes through `Notice`, `WaitForWork`, `WorkerTakes`, `WorkerMarks`,
`Finish`. What is done under `workLock` is one step; taking an item (an atomic
increment) and marking it are two. A list that is full makes the item marked at
once (`Beyond`). `ForkChild` leaves no workers. `toMark` and `markedItems` say
what this sweep has to read and has read. `LiveFalls` permits the live bytes to
cross `ParallelBytes` while workers are started.

### Reports

A thread that fails computes its slot, loads it, claims it by compare-and-swap,
and goes to the next when another site has it; a line printed is counted. In
abort mode every failure ends the process. A fault, a trap or an abort is
delivered to the disposition the signal has: the runtime's handler (reset by its
delivery), the same handler restored by the program without the reset, the
program's own, or the default.

### Classes, HugeBlocks

`Classes` is arithmetic: `ClassFor`, `SlotOf` (with the multiplier that replaces
a division), and what `allocate` and each entry point return for a request, in
words of `SizeBits` bits. In `HugeBlocks` threads map pages before they take the
table's lock and publish the block under it, while others release, look up, mark
and recycle, and the program maps and unmaps pages of its own at any free
address. A page has one owner; the shadow is a value per granule. `Search` is the
rounds of `hugeIndex`'s binary search and `KeptUpTo` the loop of `weavecRtRecycle` that
compacts the table, both recursive functions. Marking and recycling are about
released blocks only, as in the code.

### Shadow

`shadow` maps a granule's address to the code's byte. The steps are what changes
it: slots committed, made live and released; globals registered; frames entered,
left, jumped over by `longjmp`; allocas; the ASan calls; and `GuardSlow`, which
stores the byte that `settle` clears. `allowed` and `denied` say, from the C
program's view, which bytes it may access and which are no object's (bytes of
neither kind may be answered either way). `spoiled` is history: bytes the program
may access whose granule a region's first commit or the end of an unpoisoning has
made unaddressable; `pooled` are the bytes outside the heap that an unpoisoning
has uncolored. The guards are operators on the shadow
and must pass `allowed` and refuse `denied`; `QuickOk` and `RangeOk` must answer
as the loop they shorten; `JumpOk` must keep a pointer in its object and tell
its neighbours. Granules have 4 bytes, and colors repeat as in the code.

### Library

Memory is a row of cells: bytes, terminators, and for the number parsers blanks,
signs, digits and marks (an `x`, a point, an `e`). A call records what it reads, writes and whether a
check stopped it. Reads and writes outside `usable` without a stop are strays; a
stop of a call that would have stayed inside is a false stop. `CheckFormat`
walks a sequence of conversions, by place or in order, with widths and precisions
that are numbers, also ones past `readNumber`'s limit, or come from arguments, and
must check of each argument what printf reads of it (`PrintedTo`).

### Frames, GuardRules, LoopGuards, InlineChecks

`Init` is a program, the passes' decisions are operators, and the steps execute
what the passes left, so that a property is about the execution and not about
the rule. `Frames`: enter, scope starts and ends, dynamic allocas,
stack restores, return; the shadow is checked after each. `GuardRules`: an
executed access must have had its bytes checked since the last instruction that
may have released them (`checked`), and what is checked early must be owed: an
access that follows (`owed`). A function is a graph of blocks (`flow`) and their
instructions (`code`), chosen from `Programs`: any graph and any code in the
proofs, those of `MCPrograms` in the run. The code's work lists compute fixpoints,
which are written as such: the least set of blocks entered out of scope, the
greatest set of blocks entered with a guard available. `LoopGuards`: the test before the loop, then every
iteration of the version it chose; objects have colors that repeat, some none, and
a granule that an object ends in has the class of its color only, as `jumpKind`
compares them. `InlineChecks`: one access over one word of shadow, with any root,
null base, merged members or run-time length, against the bytes that are good.

### LibraryTerms, LibraryRows, LibraryCalls, Ledger

A term is a tuple and its spelling a sequence of tokens; `Parse` is the code's
recursive descent. `Evaluate` folds in `Width` bits or gives up; `Computed` is
the code written into the program, which saturates. `LibraryRows` reads entries
one by one, enters their aliases, and looks names up. `LibraryCalls` takes one
call through the early pass, the optimizer, which may make loads of a comparison,
and the late pass. `Ledger` follows
its rows through insertion, copies made and deleted by the optimizer, pruning,
expansion and settling, and then the file through writers that fail or are
killed.

## Runs

| Run | Checks | Instance | Result |
| --- | --- | --- | --- |
| `heap` | `TypeOK`, `NoDangling`, `NoSlotLost`, `ShadowAgrees`, `OneOwner` | 2 threads, 2 regions of 1 slot or 1 region of 2, caches of 2 | holds, 1,780,000 states |
| `heap_shared` | `ImplementsSafeReuse`, `AllResume` | 2 threads, 1 slot, 1 shared mapping, caches of 2, fair | holds, 89,000 states |
| `threads` | `StopWorld`: `RecyclesAlone`; `Nesting`: `NoSelfDeadlock`, `ReleasedUnlessTorn`, `AtRest`; `ForkCaches`: `ChildWholeUnlessStale`; `Pacing`: `CountersExact`, `HardBudgetUnlessOverdrawn` | 3 threads of which 2 exist at first, 2 sweeps, under `Prompt`; a cache of 2, 3 slots, 2 handlers of 1 call, nested or in turn; 2 threads at a fork anywhere, regions of 2 and 1 slots; 2 threads, 8 releases, counters of 8 bits | holds, 3,040,000 states |
| `sweep_ends` | `StopWorld`: `NoneLeftWaiting`; `MarkWork`: `MarkedBeforeRecycle`, `QuietAfterMark`, `SweepEnds`; `Reports`: `OncePerSite`, `EverySiteReported`, `FaultEnds` | 2 threads, 2 sweeps, everything permitted; 2 workers, 3 items, a list of 2, 2 parallel sweeps; 2 threads, 3 sites, 2 slots; fair | holds, 68,000 states |
| `runtime` | `Classes`: `RequestServed`; `HugeBlocks`: `HugeFoundExactly`, `HugeShadowExact`, `HugeStays`; `Library`: `StoppedExactly`, `FormatCovered`; `Shadow`: `GuardsExact`, `ColorsExact` | below | holds, 538,000 states |
| `compiler` | `Frames`: `FrameShadowExact`; `GuardRules`: `AccessChecked`, `NothingCheckedEarly`; `LoopGuards`: `RangedStaysInObject`; `InlineChecks`: `InlineExact`; `LibraryTerms`: `SpellingReadsBack`, `TermsExact`; `LibraryRows`: `RowsExact`; `LibraryCalls`: `CallStoppedExactly`; `Ledger`: `LedgerExact`, `LedgerFileWhole` | below | holds, 1,430,000 states |
| `stop_late` | `RecyclesAlone` | 2 threads, 2 sweeps, without `Prompt` | violated |
| `pacing_wrap` | `HardBudget` | 2 threads, as in `threads` | violated |
| `nesting_uncounted` | `NoSelfDeadlock` | 2 slots, a handler of 1 call, `Uncounted` | violated |
| `nesting_torn` | `ReleasedOnce` | 2 slots, 2 handlers of 1 call in turn | violated |
| `fork_midway` | `ChildListsWhole` | as in `threads` | violated |
| `mark_late` | `MarkedBeforeRecycle` | as in `sweep_ends`, `LiveFalls` | violated |

The properties that end in *Exactly* or *Exact* are conjunctions of named parts
that stand before them: what must be stopped is, and nothing else is. The type
invariants of `StopWorld` and `Pacing` are proved and not run on their own; those
of `Nesting` and `ForkCaches` are proved as parts of `NestInv` and `ForkInv`.

Why the bounds are enough to be interesting.

* `heap*`. Two regions of one slot: a flush that crosses regions gives one lock
  back before it takes the other, `popClass` fails in its own region and takes
  the spare, and a pointer can lie in another heap block. One region of two
  slots: a refill takes both, and a sweep or an exit returns the one not used. A
  cache of two is neither always empty nor always full. Two threads that share a
  mapping release the same slot, and one can move a pointer behind the back of a
  sweep if it is not stopped.
* `threads`. Three threads and two sweeps: a thread may be born in a sweep, exit
  in the next, or answer the wrong one. Eight releases are four hard budgets of
  slots and huge blocks together, so that sweeps that retain, recycle and fail
  follow each other. Three slots, caches of two and two handlers: the first
  refills, releases and is refused in every step of a refill, a flush and a sweep,
  the second interrupts it, or comes while the outermost call makes what the first
  deferred. Two threads at a fork: the child keeps one cache and drains the other,
  copied in any step of its owner.
* `sweep_ends`. Two workers and three items in a list of two: a worker finishes
  while another marks, the list overflows, a worker cannot be started, the
  second parallel sweep reuses the round's counters, a fork drops the workers.
  Three sites in a table of two: a probe passes a full slot, and the table fills.
* `runtime`. Every size of a `size_t` of 10 bits with regions of 2^10 bytes, and
  each alignment, a wrong one among them; five pages, so that a block lies below, between and above
  others and leaves pages that the program maps again; six cells of memory with
  every pair of pointers, so that strings overlap, touch and run into each
  other; texts of numbers with signs, prefixes and exponents, and formats of two
  conversions with stars, places and numbers on both sides of the limit; a window
  of 80 addresses with two regions side by side, a global and a stack, every
  sequence of five steps, the ASan calls at any address of an object among them, and after each the accesses from *every* address that
  fit a granule and that cross one, and ranges over one to three granules.
* `compiler`. Three locals in each order of sizes below and above the size from
  which bytes are shared, with and without scopes, and each relation of who may
  live with whom; every function of up to four instructions in five graphs of
  three blocks, loops among them; all loops in a space of 32 addresses with
  strides that cross it, over objects whose colors and classes repeat; every shadow
  word of granules from four values, with lengths up to one past the widest inline
  form;
  every term of two operators in 4-bit arithmetic; tables of up to three rows;
  each row's shape from the shipped specification, with all memories of two
  elements.

Symmetry (of threads in `heap`, of the slots of `Nesting` and the threads of
`Pacing` in `threads`) is used for safety only. `Threads.cfg` has a view (`Seen`) that drops the entries of
a cache that no step can read before they are written again.

Deadlock is checked in the `Heap` runs: a thread can always go on or the
process has ended. The other runs bound their sweeps, releases or steps, or end
when a call is decided, and do not check it; that nothing waits for ever is what
`NoSelfDeadlock`, `NoneLeftWaiting`, `SweepEnds` and `FaultEnds` say.

Fairness. `Heap!Fairness`, `StopFairness`, `MarkFairness` and `ReportsFairness`
are weak fairness of the steps of a thread inside the runtime (of a worker, of a
handler): the kernel schedules a runnable thread, a stop's wait ends by its own
deadline of one second, and workers are never stopped. The program's steps and
calls, a fork and another sweep are not assumed to happen.

## Findings

* **A counter that wraps** (`pacing_wrap`). A sweep that stops a thread after
  its slot is queued and before its bytes are counted subtracts bytes that were
  never added. `quarantineBytes` goes below zero, `retainedBytes` keeps the
  wrapped sum, and the difference in `overBudget` is zero from then on: neither
  budget starts a sweep until one starts for another reason (an empty class).
  Memory is held longer than documented; safety does not suffer.
* **A late answer** (`stop_late`). A handler suspended for longer than a stop's
  second, after it loaded the generation, is counted by the next stop and
  leaves its wait at once. It needs a thread that is not scheduled for a second
  and two sweeps; then a sweep recycles while a thread runs.
* **A call that is not counted** (`nesting_uncounted`). `depth` and `locks` are
  in the thread's cache: the call that makes the cache is not counted in it, and
  from `dropCache` on there is none to count in. A handler that allocates there
  waits for a lock of its own thread.
* **A second handler** (`nesting_torn`). The outermost call makes the deferred
  releases when `depth` is 0 again. A handler that comes between its load of
  `deferredCount` and the store of the decrement is not nested: its own `free` runs
  the loop too and makes the release that waits; the interrupted loop then makes it
  again, and the second one ends the process. A handler inside the entry of a
  release into the table loses one in the same way.
* **A copied cache** (`fork_midway`). The check of a copied entry asks whether
  its word is of the kind the cache holds, not whether the cache holds it once and
  still: the run shows a fork between the two stores of a swap in `cachedAlloc`'s
  reversal, which leaves one slot in the cache twice. A slot that `returnSlots` had
  given back already passes the check as well: `forkPrepare` waits for the very
  locks `returnSlots` takes and gives for each slot.
* **A worker counted twice** (`mark_late`). A worker that is created after an
  earlier round has never seen a round, takes the earlier one for new, and adds
  its finish to the count of whichever round is current. It needs the live bytes
  to fall below `ParallelBytes` while one sweep starts its workers and to be
  above it in a later one; then `runWork` returns while a worker marks, and the
  sweep recycles what that worker would have marked.

The passing run of each module has the behaviours of these findings in it, but for
`Uncounted` and `LiveFalls`, which are constants: its property is stated of the
states up to the event that the finding is about (`overdrawn`, `torn`, `stale`),
and the `violation` run has the property without it. `RecyclesAlone` rests on
three constants: `Prompt`, and it fails also under `ShortLived` (`threadsChanged`
cannot see a thread that has come and gone while the sweep marked) and `ListFails`
(a `/proc/self/task` that does not open is taken for an empty list).

### Disagreements outside the runs

Met while modelling. Where the behaviour is in the model, the property of the
passing run excepts it by the condition named, and TLC finds the property false in
that run's instance without the condition.

* `weavec_libc.c:669`: `parsed` checks a number up to the end pointer and one
  character. The C library reads further after a prefix or an exponent that no digit
  follows: of `0x` in base 16 it reads the character after the `x`, of `1e+` the one
  after the sign, and the end pointer is before both. `docs/architecture.md:378` has
  "the bytes the C library read (up to the end pointer and the character that stopped
  it)", and the comment before `parsed` "the bytes a number parser read". `Parse`
  records these reads (`did.ahead`); `StrayIsStopped` excepts them, `ParsedChecked`
  does not and is false.
* `weavec_libc.c:144`, `:232`, `:288`: `readNumber` gives up at a number above 100000,
  and a precision it gives up on is taken for 0, so that nothing of the string is
  checked. Of an argument that two conversions print, the precision of the last one
  decides what is checked. The comment (line 163) says "each `%s` string, up to its
  precision". `FormatCovered` excepts both.
* `GuardLibrary.cpp:331`: before the optimizer, `guardFirstBytes` guards the first
  element of the *strings* of a comparison that is left to the late pass, since "a
  string has at least its terminator" (line 796). Of `strncmp` no argument is
  such a string (it may be bounded), and the optimizer makes loads of it too, when
  its bound is 1 or a string is a literal: these have no guard, as those beyond the
  first element have none when `strcmp` with a literal becomes loads. `StrayCallStopped`
  excepts them (`Loads`), `FoldedCallStopped` does not and is false.
* `GuardPass.cpp:611`: a check of more than 113 bytes returns before the base is
  tested for null (line 634). `docs/architecture.md:226` says that the access "also
  tests `p`: a null base takes the slow path", `GuardPassImpl.h:303` that the base "is
  tested for null first". `Bad` of `InlineChecks` does not count a null base there.
* `weavec_alloc.c:746`: the first slot of a region poisons the granule *before*
  the region. If a region fills the one before it to the end and its last slot
  is live and full but for the spare byte, that granule is the slot's last, and
  its bytes are refused until the slot is released. The comment (line 745) speaks
  of a slot "allocated there later". `Runtime.cfg` has two such regions; the bytes
  are `spoiled`, which `GuardsExact` excepts.
* `weavec_asan.c:80`: an unpoisoning that ends inside a granule makes a poisoned
  granule the partial end of an object. If the poison was the stale mark of a
  returned frame (a function has run on a stack inside a heap block), or the
  program's own of bytes it unpoisons later, the bytes past the end are refused
  although the program may access them. They are `spoiled` as well.
* `weavec_asan.c:73`: memory outside the heap is unpoisoned in color 0, also a
  part of a global or of a local that has another color; a pointer that jumps
  inside the object is then refused. `cli.md:41` names pool allocators, and a
  pool may be a global. `ColorsExact` excepts these bytes (`pooled`).
* `weavec_alloc.c:1900`: recycling clears the shadow of a huge block's size and
  one granule; `shadowLive` had poisoned its tail to the end of the page. Memory
  that code without Weave C maps there later is refused by a guard.
  `ProgramMemoryAddressable` is about memory mapped through `__weavec_rt_mmap`.
* `weavec_asan.c:80`: an unpoisoning that ends inside a granule makes a poisoned
  granule the partial end of an object. A stale mark of a returned frame (a
  function has run on a stack inside a heap block) is poison too, of which
  `settle` would have cleared the whole; now the bytes past the end are refused
  although the program may access them. `AsanUnpoison` has the condition that no
  such mark is where it ends; without it `GuardsExact` fails in four steps.
* `LibrarySpec.cpp:92`: the product of `a0` and `a1/2` is spelled `a0*a1/2`,
  which is read back as the quotient of a product. `LibrarySpec.h:79` says
  "The canonical spelling, which `parse` reads back to an equal term".
  `SpellingReadsBack` leaves a quotient on the right of a product out
  (`DividesRight`); no row of the shipped specification has one.
* `GuardExpand.cpp:876`, `GuardLibrary.cpp:720`: the guards of strings, and of
  calls redirected early, note no copy, so that `finish` settles their rows as
  proven, "optimized", although the check is there. `cli.md:189` says of
  `optimized` "The optimizer removed every copy of the access."
  `ProvenIsUnchecked` is about accesses and ranges.
* `GuardLibrary.cpp:190`: a null string whose row says null is allowed only when
  the bound is zero (`strnlen`, `strndup`) is accepted for any bound.
  `LibrarySpec.h:158` says "null is allowed when this term is zero".
  `StrayCallStopped` excludes it (`NullAccepted`).
* `GuardExpand.cpp:289` says "at most 32" of a merged guard's bytes, line 302
  has 64. `MaxHull` is a constant.
* `README.md:110` and `docs/development.md:294` of the repository give 16 MiB as
  the default of `WEAVEC_RT_QUARANTINE`, the code and
  `docs/pages/reference/cli.md:126` 64 MiB.

## Proofs

`HeapProofs` proves, for any sets of threads, slots, regions and mappings and
any cache limit (`HeapAssumption`), with no bound:

* `TypeCorrect`: `Spec => []TypeOK`;
* `Invariant`: `Spec => []HeapInv`, and from it `TemporalSafety` (`NoDangling`,
  guarantee (T)), `SingleOwner`, `NothingLost` and `ShadowSound`.

`HeapRefinement` proves `Refinement`, `Spec => ImplementsSafeReuse`: under the
mapping of `Heap`, `Publish` is `Allocate`, a successful `Claim` is `Release`, a
trap is `BadRelease`, the program's steps that move pointers are `SafeReuse`'s,
`Recycle` is a `Reuse` of the slots it takes from the quarantine, and every other
step stutters. The invariant is used where the promise is made: a slot `Recycle`
takes is pointed to from nowhere readable.

None of these invariants is inductive alone. That no vacant slot is pointed to
needs that a slot in somebody's hands is really his (`OneOwner`), that the word
of a slot says which place it is in (`WordsAgree`: otherwise a recycled slot
could be one a thread has in its cache), that a slot handed out holds no
pointer (`Blank`), that what the program can reach through a guard is live
(`ShadowAgrees`), and that while a sweep marks, no other thread runs and
everything read so far has left its marks (`MarksCover`). `CacheEmpty` says
that a refill overwrites an empty cache. `HeapInv` is their conjunction; TLC
checked it on the `heap` instance before it was proved. There is one lemma per
action, and under it one step per conjunct.

The other proof modules follow the same order: a lemma per action, under it a
step per conjunct.

| Theorem | States | Assumes | Inductive invariant |
| --- | --- | --- | --- |
| `StopTypeCorrect` | `StopTypeOK` | | with `SentExact`: the count of signals is the number of threads sent to, so it never goes below zero when one exits |
| `SweepsAlone` | `RecyclesAlone` | `Undisturbed` | `StopInv` |
| `PacingTypeCorrect` | `PacingTypeOK` | | |
| `CountersCorrect` | `CountersExact` | `FewBytes` | `PacingInv` |
| `HardBudgetHolds` | `HardBudgetUnlessOverdrawn` | `FewBytes` | `PacingInv` |
| `RecyclesMarked` | `MarkedBeforeRecycle` | `~LiveFalls` | `MarkInv` |
| `WorkersQuiet` | `QuietAfterMark` | `~LiveFalls` | `MarkInv` |
| `SitePrintedOnce` | `OncePerSite` | | `ReportsInv` |
| `LedgerTrue` | `LedgerExact` | | `LedgerInv` |
| `LedgerFileNeverTorn` | `LedgerFileWhole` | | `LedgerInv` |
| `RangedLoopsSafe` | `RangedStaysInObject` | | `LoopsInv` |
| `RemovedGuardsSafe` | `AccessChecked` | | `RulesInv` |
| `MergedGuardsOwed` | `NothingCheckedEarly` | | `RulesInv` |
| `InlineChecksExact` | `InlineExact` | | `InlineInv` |
| `FrameShadowKept` | `FrameShadowExact` | | `FrameInv` |
| `LocksNeverAwaited` | `NoSelfDeadlock` until `torn`, and always if `MaxSignals <= 1` | `OneAtATime` | `torn \/ NestInv` |
| `ReleasesMadeOnce` | `ReleasedUnlessTorn` | `OneAtATime` | `torn \/ NestInv` |
| `RestRestored` | `AtRest` | `OneAtATime` | `torn \/ NestInv` |
| `ChildStartsWhole` | `ChildWholeUnlessStale` | | `stale \/ ForkInv` |
| `LookupExact` | `HugeFoundExactly` | | `HugeInv` |
| `HugeShadowKept` | `HugeShadowExact` | | `HugeInv` |
| `BlocksStay` | `HugeStays` | | `HugeInv` |
| `GuardsStayExact` | `GuardsExact` | | `ShadowInv` |
| `ColorsStayExact` | `ColorsExact` | | `ShadowInv`, `ColorInv` |
| `CheckedCallsExact` | `StoppedExactly` | | `LibInv` |
| `TableExact` | `RowsExact` | | `RowsInv` |
| `CallsStopped` | `CallStoppedExactly` | | `CallsInv` |

They hold for any threads, sweeps, sizes, budgets, workers, items, sites, slots,
writers, objects, strides, functions, locals, pages, granules up to the code's 16
bytes, memories and specifications, and for any number of steps. The third column
names what the theorem itself supposes; each is what a passing run supposes too,
or less, and a `violation` run or the findings show why:

* `Undisturbed` is `Prompt`, without `ShortLived` and `ListFails`.
* `FewBytes`: all bytes ever released are fewer than `Modulus`, 2^64 in the code.
* `~LiveFalls`: the live bytes do not cross `ParallelBytes` while one sweep starts
  its workers.
* `OneAtATime`: handlers interrupt calls that a cache counts (`~Uncounted`), any
  number of them one after the other, and not each other (`~Nested`; the `threads`
  run has nested ones too).

The constants' assumptions are facts of the code. `LoopAssumption`: objects are
apart, colored ones by a byte that is no object's (the spare byte of a slot, the
padding of a local or a global), and a stride is below half of the address space. `RulesAssumption`: a function has an entry, and its graph and code
are over its blocks. `InlineAssumption`: powers of two up to a granule divide it, a
partial granule has some of its bytes and not all, poison has no color, and one
granule fits a form that loads a whole word of shadow. `FrameAssumption`: redzones
and frames are whole granules, and an alignment above the frame's is too.
`ShadowAssumption` and `PlacesAssumption`: slots, regions, the padded global and
the stack are whole granules and apart, and an object is smaller than its slot (the
spare byte). `EntriesAssumption`: a row's numbers are those the parser can
make. `CallRowsAssumption`: what the rows of `lib/Core/LibrarySpec.txt` have in
common, such as that a call that may stop early has a wrapper and writes nothing. `HugeAssumption`,
`ForkAssumption`, `NestingAssumption` and `LibraryAssumption` say that sizes are
numbers and that names are apart.

Why the invariants are needed:

* `StopInv`. That nobody ran is known at the end from two lists of threads; in
  between, it rests on the table (`TableCovers`), on each answer counted once and
  from a handler of this generation (`AnswersExact`, `HandlersCurrent`), and on a
  listed thread waiting for this generation as long as the sweep marks
  (`ListedStopped`).
* `PacingInv`. The counters are the queue less the slots not counted yet, modulo
  the counters' width (`BytesExact`, a cardinality, which is negative after a sweep
  has recycled such slots). The hard budget needs a bound on when the clock is
  looked at again although the store of the next check may come late (`CheckSoon`),
  measured from what the last sweep left (`Leftover`).
* `MarkInv`. `workersFinished` is the number of workers that rest and have seen
  this round (`FinishedExact`), which holds because all have seen the last one
  when a round begins (`RestBetween`) and none starts after the first
  (`NoneStartsLate`, false under `LiveFalls`); and what was taken is marked or
  somebody is marking it (`TakenIsMarked`).
* `ReportsInv`. A site sits where its probes lead (`TableExact`), and a thread has
  seen another site in each slot it passed (`SearchExact`), which stays true since a
  slot is written once. So two threads never claim two slots for one site.
* `LedgerInv`. For each row, the copies noted to stay and the markers left add up
  to the checks in the program, until the row is settled (`RowExact`).
* `LoopsInv`. The loop without guards releases nothing, so that the test's answer
  lasts. The rest is arithmetic: without overflow the bytes of an iteration are in
  the range, and a range of bytes that are all some object's, beginning in a
  colored one, cannot leave it across the byte that ends it; so the color of its
  first granule is that of each iteration's.
* `RulesInv`. What the analyses say of a point holds for each execution that
  reaches it: a guard said to be available has had its bytes checked
  (`AvailableChecked`), a hull stays checked until something closes it
  (`HullChecked`), a local whose scope has ended may be out of scope (`ScopeKnown`).
  `DeadFlows`, `ReachFlows` and `AvailableFlows` carry the three fixpoints along an
  edge of the graph; `WalkOK` is the invariant of `mergeInBlocks`' walk over a block.
* `InlineInv`. An access never changes, so the theorem is the lemma `OutcomeExact`:
  a form that passes has looked at every granule of the access (`WordExact`,
  `PairExact`, `SingleExact`), and the bytes it looks at past the access can only
  send it to the exact guard.

* `FrameInv`. The places `layoutStatic` chooses are apart, redzones included,
  for locals that may live together: where the last extent ends is always free. No
  local begins or ends between two of the cuts at which the entry code writes, so
  that one value describes each run. Allocas lie one below the other.
* `NestInv`, which holds until a handler comes inside an update of `deferred` (`torn`).
  Of the stack only the running and the interrupted frame matter. The
  counts are those of the locks the two hold (`Counts`); a nested call is refused
  exactly when the interrupted one has a lock counted, and then leaves the cache
  alone; a slot is in one of nine places (`SlotsOnce`); a release is deferred
  only while the interrupted frame holds a lock, so that its loop finds it.
* `ForkInv`, which holds in the parent always and in a child unless it copied a stale
  cache. A slot's word says which kind of place it is in, and of that kind it is in
  one place only (`FreeOnce`, `DeadOnce`), counting of each cache the part that its
  thread has not moved yet. The part it has moved is told apart by the words, or the
  copy is stale (`CopiesWhole`); after the fork only the caches not drained yet count
  (`Kept`).
* `HugeInv`. The table is in address order within the bounds and without overlap
  (`InOrder`, `InBounds`, `MapsApart`), a page's owner is the block or the mapping
  that has it (`PagesKept`), and the shadow is that of its owner
  (`BlockShadowExact`, `ProgramMemoryAddressable`).
* `ShadowInv`. A byte the program may access is one of a live slot, of the
  registered global or of the stack above the stack pointer, and the shadow byte
  passes it or is a returned frame's stale mark, which `settle` clears there, or the
  byte is spoiled. A byte
  it must not access fails by the shadow byte itself, and by a returned frame's mark
  only on the stack below the stack pointer, where `settle` keeps it. Stack of no
  tracked frame is 0 or such a mark (`StackClean`), frames lie one after the
  other, and no step makes a value outside the encoding (`ShadowKinds`).
  `GuardDecides` reduces the guard's loop over granules to its bytes, and the short
  forms are shown to look at the same granules.
* `ColorInv`. A granule of a slot has the slot's color, whole or partial, or is
  poison, or 0 where a stale mark was cleared (`SlotsToned`). The bytes of the global
  and of tracked locals that the program may access and did not unpoison itself have
  the color of their object (`GlobalToned`), and a local's are 0 only after a
  non-local exit (`FramesToned`), which is when the check forgives 0 on the stack.
  Two slots side by side have colors of different classes (`NextClassDiffers`), also
  where the colors wrap around.
* `LibInv`. The last cell stays a terminator, so that every scan ends; the rest is
  one lemma per family of wrappers.
* `RowsInv`. The names of rows and aliases read so far are apart, and the last
  answer is that of the table as it is.
* `CallsInv`. What the passes have done with a call, by its kind: unsafe, left to the
  late pass, redirected, guarded in place; and of the last, each parameter's guard
  against the extent the call as written touches.

Four definitions are recursive functions: `Walk` over the instructions of a block,
`Placed` over the locals of a frame, `Search` over the rounds of a binary search,
`KeptUpTo` over the table it compacts. The library's induction theorems take an
operator as a parameter, which the provers do not instantiate; `SetInduction` says
the same of a *set* of numbers, from the least element of its complement (`WFMin`),
and proves the four for blocks, frames and tables of any length.

Only model-checked:

* liveness (`AllResume`, `NoneLeftWaiting`, `SweepEnds`, `EverySiteReported`,
  `FaultEnds`), which this prover does not reach;
* `SpellingReadsBack` and `TermsExact`: the operators of `LibraryTerms` are
  recursive over terms;
* `FormatCovered`: `CheckFormat` folds over the conversions of a format, and what
  the fold computes for every format is an induction over data;
* `RequestServed`: the class arithmetic is of powers of two and quotients by a
  variable, beyond the installed solver.

## Plan

The modules are written, and of the invariants the runs check only those of the
list above have no theorem.

## Not modelled

* The driver (`Driver.cpp`, `ResourceDir.cpp`) builds command lines and calls
  Clang; its functions keep no state between calls and compute text.
* Of the passes, the construction of LLVM IR: values, types, debug locations,
  the thunks of address-taken library functions, the argument lists that
  `guardFormat` packs, the layout of padded globals (the shadow of one is in
  `Shadow`). The models have the decisions and the bytes that are checked.
* `UnsafeRegions.cpp` asks Clang's preprocessor which lines are unsafe; an access
  in such a region is the action `InsertUnsafe` of `Ledger`.
* Text: splitting specification lines into words, report lines, stack traces.
* Darwin's zone and thread suspension, which are the same protocols over other
  system calls. Reading `/proc/self/maps` and `pagemap`, choosing a signal, the C
  library's allocator behind `nextFree` and friends are I/O: the models take
  their possible outcomes.
* `realloc` in place against a concurrent release of the same block: the program
  then releases memory another thread is about to use, which assumption A3 of the
  repository's guarantees excludes.
