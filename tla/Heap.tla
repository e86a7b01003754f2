-------------------------------- MODULE Heap --------------------------------
(***************************************************************************)
(* The heap of the WeaveC runtime for one size class: the slots of its      *)
(* regions, each thread's caches of free and of released slots, the         *)
(* quarantine, and the sweep that moves a released slot back to the free    *)
(* lists (runtime/weavec_alloc.c, runtime/weavec_sweep.c).                  *)
(*                                                                          *)
(* A step is what a thread does between two points at which another thread  *)
(* can act on the same state: the body of a critical section of a region's  *)
(* lock, one atomic operation on a slot word, one write of a slot's shadow. *)
(* The program is the environment: it copies and erases pointers, allocates *)
(* and releases, and it may release any pointer it holds, stale ones too.   *)
(* Its accesses are race free with releases (assumption A3 of the project's *)
(* guarantee) and its pointers are not hidden from the sweep (A6).          *)
(*                                                                          *)
(* Abstractions: the free list of a region and a thread's caches are sets   *)
(* (which of the slots comes off first is a choice); the quarantine queue   *)
(* is the set of slots whose word is "dead"; the budget that decides        *)
(* whether a release sweeps is a choice (module Pacing models it); stopping *)
(* a thread is one step (module StopWorld models the signals).              *)
(***************************************************************************)
EXTENDS Naturals, FiniteSets

CONSTANTS
    Threads,      \* the program's threads
    Slots,        \* the slots of the class, over all the regions it may take
    Regions,      \* its own region and the spares
    RegionOf,     \* the region of each slot
    OwnRegion,    \* the region the class starts with
    CacheLimit,   \* SlotCache.limit
    Data,         \* the program's mappings outside the heap and the stacks
    None          \* no thread, no slot

ASSUME HeapAssumption ==
    /\ RegionOf \in [Slots -> Regions]
    /\ OwnRegion \in Regions
    /\ CacheLimit \in Nat \ {0}
    /\ None \notin Threads \cup Slots
    /\ Data \cap (Threads \cup Slots) = {}
    /\ Threads \cap Slots = {}

Holders == Threads \cup Slots \cup Data

VARIABLES
    (* The allocator's metadata *)
    word,      \* the state of each slot's word
    shadow,    \* what the shadow says of each slot
    listed,    \* the slots on the free lists
    fresh,     \* the slots the regions' bumps have not reached
    regions,   \* the regions the class has taken
    (* The threads *)
    cache,     \* whether the thread has a cache: none yet, made, gone
    alloc,     \* its cache of free slots
    release,   \* its cache of released slots
    pc,        \* where it is in the runtime; "run" in the program
    arg,       \* the slot its call is about
    ret,       \* where it goes on after a sweep
    (* The sweep *)
    sweeper,   \* the owner of sweepLock
    locks,     \* the owner of every region's lock (weavecRtLockAll)
    stopped,   \* the threads the sweep has stopped
    unscanned, \* the memory the sweep has not read yet
    marks,     \* the slots the sweep has marked
    (* The program *)
    ptr,       \* the slots that the words of a holder's memory point into
    trapped    \* __weavec_rt_fatal stopped the program

allocVars == <<word, shadow, listed, fresh, regions>>
sweepVars == <<sweeper, locks, stopped, unscanned, marks>>
vars == <<word, shadow, listed, fresh, regions, cache, alloc, release, pc, arg,
          ret, sweeper, locks, stopped, unscanned, marks, ptr, trapped>>

Words == {"never", "free", "live", "claimed", "dead"}
Shadows == {"tail", "freed", "object"}
Places == {"run", "take", "refill", "pop", "have", "zero", "publish",
           "claim", "shade", "push", "queue", "flush", "budget", "drop",
           "sweep", "lock", "stop", "mark", "recycle", "resume", "unlock"}

(* The places of a call that has a slot in its hands. *)
Holding == {"have", "zero", "publish", "claim", "shade", "push", "queue"}

(***************************************************************************)
(* A word of "claimed" is the released state with the value CachedDead;     *)
(* "dead" is a released slot that its region's queue holds.                 *)
(***************************************************************************)
Init ==
    /\ word = [s \in Slots |-> "never"]
    /\ shadow = [s \in Slots |-> "tail"]
    /\ listed = {}
    /\ fresh = Slots
    /\ regions = {OwnRegion}
    /\ cache = [t \in Threads |-> "none"]
    /\ alloc = [t \in Threads |-> {}]
    /\ release = [t \in Threads |-> {}]
    /\ pc = [t \in Threads |-> "run"]
    /\ arg = [t \in Threads |-> None]
    /\ ret = [t \in Threads |-> "run"]
    /\ sweeper = None
    /\ locks = None
    /\ stopped = {}
    /\ unscanned = {}
    /\ marks = {}
    /\ ptr = [h \in Holders |-> {}]
    /\ trapped = FALSE

(* Thread t, not stopped, is at one of the places P. *)
At(t, P) == pc[t] \in P /\ t \notin stopped /\ ~trapped

Goto(t, place) == pc' = [pc EXCEPT ![t] = place]

In(r) == {s \in Slots : RegionOf[s] = r}

-----------------------------------------------------------------------------
(* The program *)

(* A3: no thread is inside a release of slot h. *)
RaceFree(h) == \A u \in Threads : pc[u] \in {"claim", "shade"} => arg[u] # h

(* The memory thread t can read and write: its own, the program's data, and *)
(* the heap blocks it points to whose guard passes.                         *)
Reach(t) ==
    {t} \cup Data \cup {h \in ptr[t] : shadow[h] = "object" /\ RaceFree(h)}

(* The program loads a pointer, stores one, or overwrites one. *)
Copy(t, from, to, s) ==
    /\ At(t, {"run"})
    /\ {from, to} \subseteq Reach(t)
    /\ t \in {from, to}
    /\ s \in ptr[from]
    /\ ptr' = [ptr EXCEPT ![to] = @ \cup {s}]
    /\ UNCHANGED <<allocVars, cache, alloc, release, pc, arg, ret, sweepVars,
                   trapped>>

Erase(t, from, s) ==
    /\ At(t, {"run"})
    /\ from \in Reach(t)
    /\ s \in ptr[from]
    /\ ptr' = [ptr EXCEPT ![from] = @ \ {s}]
    /\ UNCHANGED <<allocVars, cache, alloc, release, pc, arg, ret, sweepVars,
                   trapped>>

-----------------------------------------------------------------------------
(* Allocation: __weavec_rt_alloc, allocate, cachedAlloc, takeSlot *)

(* threadCache: a thread's first call makes its cache, unless no memory can *)
(* be mapped; an exiting thread has none.                                   *)
CacheFor(t) ==
    \/ cache[t] = "none" /\ cache' = [cache EXCEPT ![t] = "made"]
    \/ UNCHANGED cache

Malloc(t) ==
    /\ At(t, {"run"})
    /\ CacheFor(t)
    /\ Goto(t, IF cache'[t] # "made" THEN "pop"
               ELSE IF alloc[t] = {} THEN "refill" ELSE "take")
    /\ UNCHANGED <<allocVars, alloc, release, arg, ret, sweepVars, ptr,
                   trapped>>

(* popSlot: a free slot of the region, or a fresh one when there is none. *)
Poppable(r, S) ==
    /\ S # {}
    /\ S \subseteq In(r) \cap (listed \cup fresh)
    /\ S \cap fresh = {} \/ listed \cap In(r) \subseteq S

(* popClass, popRegion: up to `want` slots of one of the class's regions,   *)
(* under its lock; fewer when memory cannot be committed.                   *)
PopClass(t) ==
    /\ At(t, {"refill", "pop"})
    /\ locks = None
    /\ \E r \in regions, S \in SUBSET (listed \cup fresh) :
        /\ Poppable(r, S)
        /\ listed' = listed \ S
        /\ fresh' = fresh \ S
        /\ \/ /\ pc[t] = "refill"
              /\ Cardinality(S) <= CacheLimit
              /\ alloc' = [alloc EXCEPT ![t] = S]
              /\ Goto(t, "take")
              /\ UNCHANGED arg
           \/ /\ pc[t] = "pop"
              /\ \E s \in S : S = {s} /\ arg' = [arg EXCEPT ![t] = s]
              /\ Goto(t, "have")
              /\ UNCHANGED alloc
    /\ ret' = [ret EXCEPT ![t] = "run"]
    /\ UNCHANGED <<word, shadow, regions, cache, release, sweepVars, ptr,
                   trapped>>

(* The last region popClass tried gave nothing (its free list is empty, and *)
(* it has no fresh slot or cannot commit one).                              *)
PopFailed(t) ==
    /\ At(t, {"refill", "pop"})
    /\ locks = None
    /\ \E r \in regions : listed \cap In(r) = {}

(* popClass sweeps once: enough was released into the class, or no spare is *)
(* left.                                                                    *)
PopSweep(t) ==
    /\ PopFailed(t)
    /\ ret[t] = "run"
    /\ ret' = [ret EXCEPT ![t] = pc[t]]
    /\ Goto(t, "sweep")
    /\ UNCHANGED <<allocVars, cache, alloc, release, arg, sweepVars, ptr,
                   trapped>>

TakeSpare(t) ==
    /\ PopFailed(t)
    /\ \E r \in Regions \ regions : regions' = regions \cup {r}
    /\ UNCHANGED <<word, shadow, listed, fresh, cache, alloc, release, pc, arg,
                   ret, sweepVars, ptr, trapped>>

(* Fault: the result of popClass is used though it popped nothing. *)
PopNothingUsed(t) ==
    /\ PopFailed(t)
    /\ regions = Regions
    /\ ret[t] # "run"
    /\ ret' = [ret EXCEPT ![t] = "run"]
    /\ Goto(t, IF pc[t] = "pop" THEN "have" ELSE "take")
    /\ UNCHANGED <<allocVars, cache, alloc, release, arg, sweepVars, ptr,
                   trapped>>

(* No spare is left and the sweep freed nothing: the request falls to       *)
(* hugeAlloc, outside this module.                                          *)
PopNothing(t) ==
    /\ PopFailed(t)
    /\ regions = Regions
    /\ ret[t] # "run"
    /\ ret' = [ret EXCEPT ![t] = "run"]
    /\ Goto(t, "run")
    /\ UNCHANGED <<allocVars, cache, alloc, release, arg, sweepVars, ptr,
                   trapped>>

(* Fault: a recycled slot's bytes are not cleared. *)
MakeLiveDirty(t) ==
    /\ At(t, {"take", "have"})
    /\ \E s \in IF pc[t] = "take" THEN alloc[t] ELSE {arg[t]} :
        /\ alloc' = [alloc EXCEPT ![t] = @ \ {s}]
        /\ arg' = [arg EXCEPT ![t] = s]
        /\ word' = [word EXCEPT ![s] = "live"]
        /\ Goto(t, "publish")
    /\ UNCHANGED <<shadow, listed, fresh, regions, cache, release, ret,
                   sweepVars, ptr, trapped>>

(* makeLive: the word; the bytes, when the slot was used before (the low    *)
(* bit of its entry, set for a slot that came off a free list); the shadow. *)
MakeLive(t) ==
    /\ At(t, {"take", "have"})
    /\ \E s \in IF pc[t] = "take" THEN alloc[t] ELSE {arg[t]} :
        /\ alloc' = [alloc EXCEPT ![t] = @ \ {s}]
        /\ arg' = [arg EXCEPT ![t] = s]
        /\ word' = [word EXCEPT ![s] = "live"]
        /\ Goto(t, IF word[s] = "never" THEN "publish" ELSE "zero")
    /\ UNCHANGED <<shadow, listed, fresh, regions, cache, release, ret,
                   sweepVars, ptr, trapped>>

ZeroFill(t) ==
    /\ At(t, {"zero"})
    /\ ptr' = [ptr EXCEPT ![arg[t]] = {}]
    /\ Goto(t, "publish")
    /\ UNCHANGED <<allocVars, cache, alloc, release, arg, ret, sweepVars,
                   trapped>>

(* shadowLive, and the block's address returned to the program. *)
Publish(t) ==
    /\ At(t, {"publish"})
    /\ shadow' = [shadow EXCEPT ![arg[t]] = "object"]
    /\ ptr' = [ptr EXCEPT ![t] = @ \cup {arg[t]}]
    /\ arg' = [arg EXCEPT ![t] = None]
    /\ Goto(t, "run")
    /\ UNCHANGED <<word, listed, fresh, regions, cache, alloc, release, ret,
                   sweepVars, trapped>>

-----------------------------------------------------------------------------
(* Release: __weavec_rt_free, release, claim, cachedRelease, retire *)

(* release reads the slot's word; a pointer to no live block is fatal. *)
Free(t, s) ==
    /\ At(t, {"run"})
    /\ s \in ptr[t]
    /\ \/ /\ word[s] = "live"
          /\ arg' = [arg EXCEPT ![t] = s]
          /\ Goto(t, "claim")
          /\ UNCHANGED trapped
       \/ /\ word[s] # "live"
          /\ trapped' = TRUE
          /\ UNCHANGED <<arg, pc>>
    /\ UNCHANGED <<allocVars, cache, alloc, release, ret, sweepVars, ptr>>

(* claim: the compare-and-swap on the word release read. *)
Claim(t) ==
    /\ At(t, {"claim"})
    /\ \/ /\ word[arg[t]] = "live"
          /\ word' = [word EXCEPT ![arg[t]] = "claimed"]
          /\ CacheFor(t)
          /\ Goto(t, "shade")
          /\ UNCHANGED trapped
       \/ /\ word[arg[t]] # "live"
          /\ trapped' = TRUE
          /\ UNCHANGED <<word, cache, pc>>
    /\ UNCHANGED <<shadow, listed, fresh, regions, alloc, release, arg, ret,
                   sweepVars, ptr>>

(* Fault: a cached release leaves the shadow for the flush to write. *)
ShadowDeadLate(t) ==
    /\ At(t, {"shade"})
    /\ shadow' = IF cache[t] = "made" THEN shadow
                 ELSE [shadow EXCEPT ![arg[t]] = "freed"]
    /\ Goto(t, IF cache[t] = "made" THEN "push" ELSE "queue")
    /\ UNCHANGED <<word, listed, fresh, regions, cache, alloc, release, arg,
                   ret, sweepVars, ptr, trapped>>

(* shadowDead, before the slot is queued or cached. *)
ShadowDead(t) ==
    /\ At(t, {"shade"})
    /\ shadow' = [shadow EXCEPT ![arg[t]] = "freed"]
    /\ Goto(t, IF cache[t] = "made" THEN "push" ELSE "queue")
    /\ UNCHANGED <<word, listed, fresh, regions, cache, alloc, release, arg,
                   ret, sweepVars, ptr, trapped>>

(* cachedRelease: the slot joins the cache, which is flushed when full. *)
CachedRelease(t) ==
    /\ At(t, {"push"})
    /\ release' = [release EXCEPT ![t] = @ \cup {arg[t]}]
    /\ arg' = [arg EXCEPT ![t] = None]
    /\ Goto(t, IF Cardinality(release'[t]) = CacheLimit THEN "flush" ELSE "run")
    /\ UNCHANGED <<allocVars, cache, alloc, ret, sweepVars, ptr, trapped>>

(* Fault: the cache is emptied after its first run of slots. *)
FlushOneRun(t) ==
    /\ At(t, {"flush", "sweep", "drop"})
    /\ locks = None
    /\ \E r \in Regions : \E run \in SUBSET (release[t] \cap In(r)) :
        /\ run # {}
        /\ word' = [s \in Slots |-> IF s \in run THEN "dead" ELSE word[s]]
        /\ release' = [release EXCEPT ![t] = {}]
    /\ Goto(t, IF pc[t] = "flush" THEN "budget" ELSE pc[t])
    /\ UNCHANGED <<shadow, listed, fresh, regions, cache, alloc, arg, ret,
                   sweepVars, ptr, trapped>>

(* flushReleases: a run of the cache's slots of one region joins its        *)
(* quarantine, under its lock.                                              *)
FlushReleases(t) ==
    /\ At(t, {"flush", "sweep", "drop"})
    /\ locks = None
    /\ \E r \in Regions : \E run \in SUBSET (release[t] \cap In(r)) :
        /\ run # {}
        /\ word' = [s \in Slots |-> IF s \in run THEN "dead" ELSE word[s]]
        /\ release' = [release EXCEPT ![t] = @ \ run]
    /\ Goto(t, IF pc[t] = "flush" /\ release'[t] = {} THEN "budget" ELSE pc[t])
    /\ UNCHANGED <<shadow, listed, fresh, regions, cache, alloc, arg, ret,
                   sweepVars, ptr, trapped>>

(* retire: without a cache the slot is queued at once. *)
Retire(t) ==
    /\ At(t, {"queue"})
    /\ locks = None
    /\ word' = [word EXCEPT ![arg[t]] = "dead"]
    /\ arg' = [arg EXCEPT ![t] = None]
    /\ Goto(t, "budget")
    /\ UNCHANGED <<shadow, listed, fresh, regions, cache, alloc, release, ret,
                   sweepVars, ptr, trapped>>

(* overBudget: the release sweeps, or returns. *)
Budget(t) ==
    /\ At(t, {"budget"})
    /\ \E place \in {"run", "sweep"} : Goto(t, place)
    /\ UNCHANGED <<allocVars, cache, alloc, release, arg, ret, sweepVars, ptr,
                   trapped>>

(* Fault: a returned slot stays in the cache. *)
ReturnSlotKept(t) ==
    /\ At(t, {"sweep", "drop"})
    /\ locks = None
    /\ release[t] = {}
    /\ \E s \in alloc[t] :
        /\ listed' = listed \cup {s}
        /\ word' = [word EXCEPT ![s] = "free"]
    /\ UNCHANGED <<shadow, fresh, regions, cache, alloc, release, pc, arg, ret,
                   sweepVars, ptr, trapped>>

(* returnSlots: a cached free slot goes back to its region's free list. *)
ReturnSlot(t) ==
    /\ At(t, {"sweep", "drop"})
    /\ locks = None
    /\ release[t] = {}
    /\ \E s \in alloc[t] :
        /\ alloc' = [alloc EXCEPT ![t] = @ \ {s}]
        /\ listed' = listed \cup {s}
        /\ word' = [word EXCEPT ![s] = "free"]
    /\ UNCHANGED <<shadow, fresh, regions, cache, release, pc, arg, ret,
                   sweepVars, ptr, trapped>>

Drained(t) == release[t] = {} /\ alloc[t] = {}

(* dropCache: an exiting thread uses no cache from here on, though its      *)
(* later destructors may still allocate and release.                        *)
DropCache(t) ==
    /\ At(t, {"run"})
    /\ cache[t] = "made"
    /\ cache' = [cache EXCEPT ![t] = "gone"]
    /\ Goto(t, "drop")
    /\ UNCHANGED <<allocVars, alloc, release, arg, ret, sweepVars, ptr,
                   trapped>>

DropDone(t) ==
    /\ At(t, {"drop"})
    /\ Drained(t)
    /\ Goto(t, "run")
    /\ UNCHANGED <<allocVars, cache, alloc, release, arg, ret, sweepVars, ptr,
                   trapped>>

-----------------------------------------------------------------------------
(* The sweep: weavecRtSweep *)

(* After weavecRtFlushThread: nothing to sweep, another thread's sweep, or  *)
(* no memory for the world returns; else sweepLock is taken.                *)
EnterSweep(t) ==
    /\ At(t, {"sweep"})
    /\ Drained(t)
    /\ \/ Goto(t, ret[t]) /\ UNCHANGED sweeper
       \/ sweeper = None /\ sweeper' = t /\ Goto(t, "lock")
    /\ UNCHANGED <<allocVars, cache, alloc, release, arg, ret, locks, stopped,
                   unscanned, marks, ptr, trapped>>

LockAll(t) ==
    /\ At(t, {"lock"})
    /\ locks = None
    /\ locks' = t
    /\ Goto(t, "stop")
    /\ UNCHANGED <<allocVars, cache, alloc, release, arg, ret, sweeper, stopped,
                   unscanned, marks, ptr, trapped>>

(* A thread stops wherever it is. *)
Stop(t, u) ==
    /\ At(t, {"stop"})
    /\ u \notin stopped \cup {t}
    /\ stopped' = stopped \cup {u}
    /\ UNCHANGED <<allocVars, cache, alloc, release, pc, arg, ret, sweeper,
                   locks, unscanned, marks, ptr, trapped>>

(* Fault: the threads stopped before the failure are left stopped. *)
StopFailsForgets(t) ==
    /\ At(t, {"stop"})
    /\ Goto(t, "unlock")
    /\ UNCHANGED <<allocVars, cache, alloc, release, arg, ret, sweepVars, ptr,
                   trapped>>

(* stopThreads or weavecRtPrepareMarks failed: nothing is marked. *)
StopFails(t) ==
    /\ At(t, {"stop"})
    /\ Goto(t, "resume")
    /\ UNCHANGED <<allocVars, cache, alloc, release, arg, ret, sweepVars, ptr,
                   trapped>>

(* Where the sweep looks: the threads' registers and stacks, the program's  *)
(* mappings, and the blocks whose word says live (weavecRtMarkSlots).       *)
Scanned == Threads \cup Data \cup {h \in Slots : word[h] = "live"}

Quarantined == {s \in Slots : word[s] = "dead"}

(* markAddress: a released slot of a region whose quarantine holds one. *)
Markable(s) ==
    /\ word[s] \in {"dead", "claimed"}
    /\ In(RegionOf[s]) \cap Quarantined # {}

(* Fault: the sweep marks though a thread has not stopped. *)
MarkRunning(t) ==
    /\ At(t, {"stop"})
    /\ unscanned' = Scanned
    /\ Goto(t, "mark")
    /\ UNCHANGED <<allocVars, cache, alloc, release, arg, ret, sweeper, locks,
                   stopped, marks, ptr, trapped>>

(* Every thread has answered: the roots and the heap are marked from. *)
Mark(t) ==
    /\ At(t, {"stop"})
    /\ stopped = Threads \ {t}
    /\ unscanned' = Scanned
    /\ Goto(t, "mark")
    /\ UNCHANGED <<allocVars, cache, alloc, release, arg, ret, sweeper, locks,
                   stopped, marks, ptr, trapped>>

(* weavecRtMarkWords, by the sweeping thread or by a worker: a stack, a     *)
(* mapping or a live block is read, in any order.                           *)
Scan(t, h) ==
    /\ At(t, {"mark"})
    /\ h \in unscanned
    /\ marks' = marks \cup {s \in ptr[h] : Markable(s)}
    /\ unscanned' = unscanned \ {h}
    /\ Goto(t, IF unscanned' = {} THEN "recycle" ELSE "mark")
    /\ UNCHANGED <<allocVars, cache, alloc, release, arg, ret, sweeper, locks,
                   stopped, ptr, trapped>>

(* weavecRtRecycle: unmarked slots of the quarantine join the free lists,   *)
(* none when a mapping could not be read or a thread was not stopped.       *)
Recycle(t) ==
    /\ At(t, {"recycle"})
    /\ \E unmarked \in {Quarantined \ marks, {}} :
        /\ word' = [s \in Slots |-> IF s \in unmarked THEN "free" ELSE word[s]]
        /\ listed' = listed \cup unmarked
    /\ marks' = {}
    /\ Goto(t, "resume")
    /\ UNCHANGED <<shadow, fresh, regions, cache, alloc, release, arg, ret,
                   sweeper, locks, stopped, unscanned, ptr, trapped>>

ResumeThreads(t) ==
    /\ At(t, {"resume"})
    /\ stopped' = {}
    /\ Goto(t, "unlock")
    /\ UNCHANGED <<allocVars, cache, alloc, release, arg, ret, sweeper, locks,
                   unscanned, marks, ptr, trapped>>

(* weavecRtUnlockAll, weavecRtSwept, weavecRtSweepUnlock. *)
LeaveSweep(t) ==
    /\ At(t, {"unlock"})
    /\ locks' = None
    /\ sweeper' = None
    /\ Goto(t, ret[t])
    /\ UNCHANGED <<allocVars, cache, alloc, release, arg, ret, stopped,
                   unscanned, marks, ptr, trapped>>

-----------------------------------------------------------------------------
Program(t) ==
    \/ \E from, to \in Holders, s \in Slots : Copy(t, from, to, s)
    \/ \E from \in Holders, s \in Slots : Erase(t, from, s)

Call(t) ==
    \/ Malloc(t)
    \/ \E s \in Slots : Free(t, s)
    \/ DropCache(t)

(* The steps a thread inside the runtime takes by itself. *)
Allocator(t) ==
    \/ PopClass(t) \/ PopSweep(t) \/ TakeSpare(t) \/ PopNothing(t)
    \/ MakeLive(t) \/ ZeroFill(t) \/ Publish(t)
    \/ Claim(t) \/ ShadowDead(t) \/ CachedRelease(t) \/ FlushReleases(t)
    \/ Retire(t) \/ Budget(t) \/ ReturnSlot(t) \/ DropDone(t)
    \/ EnterSweep(t)

Sweep(t) ==
    \/ LockAll(t) \/ (\E u \in Threads : Stop(t, u)) \/ StopFails(t)
    \/ Mark(t) \/ (\E h \in Holders : Scan(t, h))
    \/ Recycle(t) \/ ResumeThreads(t) \/ LeaveSweep(t)

(* A fatal report ends the process. *)
Ended == trapped /\ UNCHANGED vars

Next ==
    \/ \E t \in Threads : Program(t) \/ Call(t) \/ Allocator(t) \/ Sweep(t)
    \/ Ended

Spec == Init /\ [][Next]_vars

(***************************************************************************)
(* A thread inside the runtime is scheduled: its steps are not preempted    *)
(* for ever. The program's own steps and calls may never come.              *)
(***************************************************************************)
Fairness == \A t \in Threads : WF_vars(Sweep(t)) /\ WF_vars(Allocator(t))

FairSpec == Spec /\ Fairness

-----------------------------------------------------------------------------
MetadataType ==
    /\ word \in [Slots -> Words]
    /\ shadow \in [Slots -> Shadows]
    /\ listed \subseteq Slots
    /\ fresh \subseteq Slots
    /\ regions \subseteq Regions

ThreadType ==
    /\ cache \in [Threads -> {"none", "made", "gone"}]
    /\ alloc \in [Threads -> SUBSET Slots]
    /\ release \in [Threads -> SUBSET Slots]
    /\ pc \in [Threads -> Places]
    /\ arg \in [Threads -> Slots \cup {None}]
    /\ \A t \in Threads : pc[t] \in Holding => arg[t] \in Slots
    /\ ret \in [Threads -> {"run", "refill", "pop"}]

SweepType ==
    /\ sweeper \in Threads \cup {None}
    /\ locks \in Threads \cup {None}
    /\ stopped \subseteq Threads
    /\ unscanned \subseteq Holders
    /\ marks \subseteq Slots

ProgramType ==
    /\ ptr \in [Holders -> SUBSET Slots]
    /\ trapped \in BOOLEAN

(* Type correctness of the variables. *)
TypeOK == MetadataType /\ ThreadType /\ SweepType /\ ProgramType

(* The slot thread t's call is making live, or has claimed and not passed   *)
(* on yet.                                                                  *)
InHand(t) ==
    IF pc[t] \in {"have", "zero", "publish", "shade", "push", "queue"}
    THEN {arg[t]} ELSE {}

Making(t) == IF pc[t] \in {"have", "zero", "publish"} THEN {arg[t]} ELSE {}

Vacant(s) == word[s] \in {"never", "free"}

(* The memory the program can read: a block is part of it from its          *)
(* allocation's return to its release.                                      *)
Readable ==
    Threads \cup Data \cup
    {h \in Slots : word[h] = "live" /\ \A t \in Threads : h \notin Making(t)}

(* Guarantee (T): no slot that can be handed out, or that is being handed   *)
(* out, is pointed to from memory the program can read. So a pointer held   *)
(* since before a release never comes to point to another object, whatever  *)
(* the threads and the sweep did meanwhile.                                 *)
NoDangling ==
    \A s \in Slots :
        Vacant(s) \/ (\E t \in Threads : s \in Making(t))
            => \A h \in Readable : s \notin ptr[h]

(* The slots that are thread t's: in its caches or in its hands. *)
Owned(t) == alloc[t] \cup release[t] \cup InHand(t)

(* A slot is in one place at a time: on a free list, beyond the bump, in    *)
(* one thread's cache of free or of released slots, or in one thread's      *)
(* hands. (Twice on a free list or in two caches, it is handed out twice.)  *)
OneOwner ==
    /\ listed \cap fresh = {}
    /\ \A t \in Threads :
        /\ \A s \in Owned(t) : s \notin listed \cup fresh
        /\ \A s \in alloc[t] : s \notin release[t]
        /\ \A s \in InHand(t) : s \notin alloc[t] \cup release[t]
        /\ \A u \in Threads \ {t} : \A s \in Owned(t) : s \notin Owned(u)

(* No slot is lost: one that is neither live nor in the quarantine is in    *)
(* one of those places, the one its word says, so a later allocation or     *)
(* flush finds it.                                                          *)
NoSlotLost ==
    \A s \in Slots :
        /\ Vacant(s) => \/ s \in listed \cup fresh
                        \/ \E t \in Threads : s \in Owned(t)
        /\ word[s] = "claimed" => \E t \in Threads : s \in Owned(t)

(* The shadow agrees with the words whichever threads are in the middle of  *)
(* what: a block the program has is addressable, and a slot that is         *)
(* released, vacant or not yet handed out is not, but for the one a thread  *)
(* has claimed and not yet shaded.                                          *)
ShadowAgrees ==
    \A s \in Slots :
        /\ word[s] = "live" /\ (\A t \in Threads : s \notin Making(t))
             => shadow[s] = "object"
        /\ (\E t \in Threads : s \in Making(t)) => shadow[s] # "object"
        /\ word[s] # "live" /\ shadow[s] = "object"
             => \E t \in Threads : pc[t] = "shade" /\ arg[t] = s

(* What the program sees is a SafeReuse heap: a slot is live for it from    *)
(* the return of its allocation to the claim of its release.                *)
BlockState(s) ==
    IF \E t \in Threads : s \in Making(t) THEN "vacant"
    ELSE IF Vacant(s) THEN "vacant"
    ELSE IF word[s] = "live" THEN "live" ELSE "released"

Abstract == INSTANCE SafeReuse WITH
    Blocks <- Slots,
    state <- [s \in Slots |-> BlockState(s)],
    held <- [h \in Holders |-> IF h \in Readable THEN ptr[h] ELSE {}],
    ended <- trapped

(* Guarantees (R) and (T) together: the allocator, its caches and its sweep *)
(* implement the abstract heap.                                             *)
ImplementsSafeReuse == Abstract!Safe

(* Every thread a sweep stops runs again (or the process has ended): the    *)
(* sweep never waits for a lock that a stopped thread holds.                *)
AllResume == \A t \in Threads : t \in stopped ~> (t \notin stopped \/ trapped)

=============================================================================
