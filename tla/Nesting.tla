------------------------------ MODULE Nesting ------------------------------
(***************************************************************************)
(* Calls of the allocator nested by signal handlers, in one thread.         *)
(*                                                                          *)
(* A handler may run between any two steps of the thread and may call the   *)
(* allocator.  What keeps it from using the cache the thread is changing,   *)
(* and from waiting for a lock the thread holds, is in the thread's cache:  *)
(* depth counts the calls in progress and locks the allocator locks held    *)
(* (runtime/weavec_alloc.c, __weavec_rt_alloc and __weavec_rt_free).        *)
(*                                                                          *)
(* One cached size class of one region.  A frame of the stack is a call in  *)
(* progress or a handler; the last one runs.                                *)
(***************************************************************************)
EXTENDS Integers, Sequences, FiniteSets

CONSTANTS
    Slots,
    None,
    CacheLimit,      \* SlotCache.limit
    DeferredLimit,   \* the entries of ThreadCache.deferred (16 in the code)
    Uncounted,       \* a signal may come during a call that no cache counts
    MaxSignals,      \* the handlers that may run during one outermost call
    Nested,          \* a handler may interrupt the calls of another
    HandlerCalls     \* the calls a handler may make

ASSUME NestingAssumption ==
    /\ IsFiniteSet(Slots)
    /\ None \notin Slots
    /\ {CacheLimit, DeferredLimit, HandlerCalls} \subseteq Nat \ {0}
    /\ {Uncounted, Nested} \subseteq BOOLEAN
    /\ MaxSignals \in Nat

VARIABLES
    cache,      \* the value of cacheKey: "none", "made" or "gone" (CacheGone)
    avail,      \* the slots of ThreadCache.alloc
    rel,        \* the slots of ThreadCache.release
    depth,      \* ThreadCache.depth
    locks,      \* ThreadCache.locks; -1 stands for its wrapped value
    count,      \* ThreadCache.deferredCount
    deferred,   \* ThreadCache.deferred
    free,       \* the region's free list
    queued,     \* the region's quarantine
    live,       \* the slots whose word says live
    locked,     \* the locks that are held, of "region" and "list"
    sweeping,   \* the sweep's lock
    masked,     \* every signal is blocked (weavecRtSweep)
    stack,      \* the calls and handlers in progress
    signals,    \* the handlers that ran during the outermost call
    held,       \* the blocks the program holds and has not released
    left,       \* the blocks whose release did not fit in deferred
    trapped,    \* __weavec_rt_fatal was called
    torn        \* history: a handler ran inside an update of deferred

cacheVars == <<cache, avail, rel>>
deferVars == <<count, deferred>>
nestVars == <<depth, locks, deferVars>>
heapVars == <<free, queued, live>>
lockVars == <<locked, sweeping, masked>>
progVars == <<signals, held, left, trapped, torn>>
nestingVars == <<cacheVars, nestVars, heapVars, lockVars, stack, progVars>>

(* A frame: what it is, where it is, what ownCache gave it at its start,    *)
(* the block it is about, the slots it has popped or gives back, a saved    *)
(* count, the critical section it is in, whether it uses the cache, whether *)
(* it is emptying it, whether popClass has swept, and where a sweep returns.*)
Frame(kind, at, p) ==
    [kind |-> kind, at |-> at, self |-> FALSE, arg |-> p, got |-> {}, n |-> 0,
     job |-> "none", cached |-> FALSE, draining |-> FALSE, swept |-> FALSE,
     back |-> "leave"]

Kinds == {"alloc", "free", "handler", "drop"}

Jobs == {"none", "list", "refill", "pop", "flush", "retire", "return"}

Places == {"enter", "defer", "claim", "cache", "map", "choose", "take", "lock",
           "work", "give", "filled", "have", "nothing", "flushed", "budget",
           "sweep", "drain", "returning", "trysweep", "mask", "lockall",
           "recycle", "unmask", "unsweep", "leave", "deferred", "decrement",
           "read", "retry", "handler"}

Top == stack[Len(stack)]

Running(places) == ~trapped /\ stack # <<>> /\ Top.at \in places

Becomes(f) == stack' = [stack EXCEPT ![Len(stack)] = f]

(* A step of the frame alone. *)
Moves == UNCHANGED <<cacheVars, nestVars, heapVars, lockVars, progVars>>

Go(place) == Becomes([Top EXCEPT !.at = place])

(* Enters the critical section of a job, which begins with take. *)
Section(job) == Becomes([Top EXCEPT !.at = "take", !.job = job])

Return == stack' = SubSeq(stack, 1, Len(stack) - 1)

LockOf(job) == IF job = "list" THEN "list" ELSE "region"

(* ownCache, which makes none. *)
OwnCache == cache = "made"

NestingInit ==
    /\ cache = "none"
    /\ avail = {} /\ rel = {}
    /\ depth = 0 /\ locks = 0 /\ count = 0
    /\ deferred = [i \in 0 .. DeferredLimit - 1 |-> None]
    /\ free = Slots /\ queued = {} /\ live = {}
    /\ locked = {} /\ sweeping = FALSE /\ masked = FALSE
    /\ stack = <<>>
    /\ signals = 0 /\ held = {} /\ left = {} /\ trapped = FALSE /\ torn = FALSE

-----------------------------------------------------------------------------
(* The program *)

(* A call that the frames below do not wait for. *)
Begin(f, s) ==
    /\ stack' = Append(s, f)
    /\ UNCHANGED <<cacheVars, nestVars, heapVars, lockVars, left, trapped>>

CallAlloc(s) == Begin(Frame("alloc", "enter", None), s) /\ UNCHANGED held

CallFree(s) ==
    \E p \in held : Begin(Frame("free", "enter", p), s) /\ held' = held \ {p}

(* A call of the program itself. *)
Call ==
    /\ ~trapped /\ stack = <<>>
    /\ CallAlloc(stack) \/ CallFree(stack)
    /\ signals' = 0 /\ UNCHANGED torn

(* The outermost call is counted in the thread's cache, or will be; not so  *)
(* the call that makes the cache, dropCache, and every call after it.       *)
Counted == OwnCache /\ (stack[1].self \/ stack[1].at = "enter")

Interrupted == \E i \in 1 .. Len(stack) : stack[i].kind = "handler"

(* The running call is between two steps of deferred[deferredCount++] = p or *)
(* of free(deferred[--deferredCount]).                                       *)
Updating == Top.at \in {"defer", "decrement", "read"}

(* A signal is delivered to the thread: its handler runs at once. *)
Signal ==
    /\ ~trapped /\ stack # <<>> /\ Top.kind # "handler"
    /\ ~masked
    /\ Uncounted \/ Counted
    /\ Nested \/ ~Interrupted
    /\ signals < MaxSignals
    /\ Begin(Frame("handler", "handler", None), stack)
    /\ signals' = signals + 1
    /\ torn' = (torn \/ Updating)
    /\ UNCHANGED held

HandlerCall ==
    /\ Running({"handler"})
    /\ Top.n < HandlerCalls
    /\ LET s == [stack EXCEPT ![Len(stack)].n = @ + 1]
       IN  CallAlloc(s) \/ CallFree(s)
    /\ UNCHANGED <<signals, torn>>

HandlerReturn ==
    /\ Running({"handler"})
    /\ Return
    /\ Moves

(* dropCache, the key's destructor: the thread's cache is gone first and    *)
(* emptied after; the thread may still make calls.                          *)
Exit ==
    /\ ~trapped /\ stack = <<>>
    /\ OwnCache
    /\ cache' = "gone"
    /\ stack' = <<Frame("drop", "drain", None)>>
    /\ signals' = 0 /\ UNCHANGED torn
    /\ UNCHANGED <<avail, rel, nestVars, heapVars, lockVars, held, left, trapped>>

-----------------------------------------------------------------------------
(* __weavec_rt_alloc and __weavec_rt_free *)

(* The thread is inside the allocator and holds one of its locks. *)
Refused == OwnCache /\ depth # 0 /\ locks # 0

(* The call is counted in the cache, if the thread has one now. *)
Enter ==
    /\ Running({"enter"})
    /\ ~Refused
    /\ depth' = IF OwnCache THEN depth + 1 ELSE depth
    /\ Becomes([Top EXCEPT !.self = OwnCache,
                           !.at = IF Top.kind = "alloc" THEN "cache" ELSE "claim"])
    /\ UNCHANGED <<cacheVars, locks, deferVars, heapVars, lockVars, progVars>>

(* An allocation that cannot be made now fails. *)
RefuseAlloc ==
    /\ Running({"enter"}) /\ Top.kind = "alloc"
    /\ Refused
    /\ Return
    /\ Moves

(* A release that cannot be made now waits, if there is room for it. *)
DeferFree ==
    /\ Running({"enter"}) /\ Top.kind = "free"
    /\ Refused
    /\ \/ /\ count < DeferredLimit
          /\ Becomes([Top EXCEPT !.at = "defer", !.n = count])
          /\ UNCHANGED left
       \/ /\ count >= DeferredLimit
          /\ left' = left \cup {Top.arg}
          /\ Return
    /\ UNCHANGED <<cacheVars, nestVars, heapVars, lockVars, signals, held,
                   trapped, torn>>

Defer ==
    /\ Running({"defer"})
    /\ deferred' = [deferred EXCEPT ![Top.n] = Top.arg]
    /\ count' = Top.n + 1
    /\ Return
    /\ UNCHANGED <<cacheVars, depth, locks, heapVars, lockVars, progVars>>

(* The call ends; the last one makes the releases that wait. *)
Leave ==
    /\ Running({"leave"})
    /\ depth' = IF Top.self THEN depth - 1 ELSE depth
    /\ IF Top.self /\ depth' = 0 THEN Go("deferred") ELSE Return
    /\ UNCHANGED <<cacheVars, locks, deferVars, heapVars, lockVars, progVars>>

(* while (deferredCount != 0) free(deferred[--deferredCount]): the count is *)
(* loaded and tested, stored, and the entry read, in three steps.           *)
TestDeferred ==
    /\ Running({"deferred"})
    /\ \/ count = 0 /\ Return
       \/ count # 0 /\ Becomes([Top EXCEPT !.at = "decrement", !.n = count])
    /\ Moves

(* Fault: the count stays. *)
DecrementNot ==
    /\ Running({"decrement"})
    /\ Go("read")
    /\ Moves

Decrement ==
    /\ Running({"decrement"})
    /\ count' = Top.n - 1
    /\ Go("read")
    /\ UNCHANGED <<cacheVars, depth, locks, deferred, heapVars, lockVars,
                   progVars>>

FreeDeferred ==
    /\ Running({"read"})
    /\ stack' = Append([stack EXCEPT ![Len(stack)].at = "deferred"],
                       Frame("free", "enter", deferred[Top.n - 1]))
    /\ Moves

-----------------------------------------------------------------------------
(* Locks *)

(* take counts the lock in the cache, then waits for it. *)
Take ==
    /\ Running({"take"})
    /\ locks' = IF OwnCache THEN locks + 1 ELSE locks
    /\ Go("lock")
    /\ UNCHANGED <<cacheVars, depth, deferVars, heapVars, lockVars, progVars>>

Lock ==
    /\ Running({"lock"})
    /\ LockOf(Top.job) \notin locked
    /\ locked' = locked \cup {LockOf(Top.job)}
    /\ Go("work")
    /\ UNCHANGED <<cacheVars, nestVars, heapVars, sweeping, masked, progVars>>

(* What is done under the lock: popRegion takes free slots, flushReleases   *)
(* and retire queue released ones, returnSlots gives one back, and the      *)
(* list of caches changes.  The lock is given back.                         *)
Work ==
    /\ Running({"work"})
    /\ LET done(S) == Becomes([Top EXCEPT !.at = "give", !.got = S])
       IN  CASE Top.job = "refill" ->
                    \E S \in SUBSET free :
                        /\ Cardinality(S) <= CacheLimit
                        /\ Cardinality(S) < CacheLimit => S = free
                        /\ free' = free \ S /\ done(S) /\ UNCHANGED queued
             [] Top.job = "pop" ->
                    \E S \in SUBSET free :
                        /\ Cardinality(S) = IF free = {} THEN 0 ELSE 1
                        /\ free' = free \ S /\ done(S) /\ UNCHANGED queued
             [] Top.job = "flush" ->
                    /\ queued' = queued \cup rel
                    /\ done({}) /\ UNCHANGED free
             [] Top.job = "retire" ->
                    /\ queued' = queued \cup {Top.arg}
                    /\ done({}) /\ UNCHANGED free
             [] Top.job = "return" ->
                    \E s \in Top.got :
                        /\ free' = free \cup {s}
                        /\ done(Top.got \ {s}) /\ UNCHANGED queued
             [] OTHER -> done({}) /\ UNCHANGED <<free, queued>>
    /\ locked' = locked \ {LockOf(Top.job)}
    /\ UNCHANGED <<cacheVars, nestVars, live, sweeping, masked, progVars>>

(* give looks for the cache again before it takes the lock off the count. *)
Give ==
    /\ Running({"give"})
    /\ locks' = IF OwnCache THEN locks - 1 ELSE locks
    /\ Go(CASE Top.job = "list" /\ Top.kind = "drop" -> "leave"
            [] Top.job = "list" /\ Top.kind # "drop" -> "choose"
            [] Top.job = "refill" -> "filled"
            [] Top.job = "pop" -> "have"
            [] Top.job = "flush" -> "flushed"
            [] Top.job = "retire" -> "budget"
            [] Top.job = "return" -> "returning")
    /\ UNCHANGED <<cacheVars, depth, deferVars, heapVars, lockVars, progVars>>

-----------------------------------------------------------------------------
(* Allocation and release *)

(* claim: a release of a block that is not live ends the program. *)
Claim ==
    /\ Running({"claim"})
    /\ trapped' = (Top.arg \notin live)
    /\ live' = live \ {Top.arg}
    /\ Go("cache")
    /\ UNCHANGED <<cacheVars, nestVars, free, queued, lockVars, signals, held,
                   left, torn>>

(* threadCache: a cache that is missing, and not gone, is made. *)
FindCache ==
    /\ Running({"cache"})
    /\ Go(IF cache = "none" THEN "map" ELSE "choose")
    /\ Moves

(* makeCache: the cache cannot be mapped, or replaces what the key has and  *)
(* joins the list.                                                          *)
MakeCache ==
    /\ Running({"map"})
    /\ \/ Go("choose") /\ UNCHANGED <<cacheVars, nestVars>>
       \/ /\ cache' = "made" /\ avail' = {} /\ rel' = {}
          /\ depth' = 0 /\ locks' = 0 /\ count' = 0 /\ UNCHANGED deferred
          /\ Section("list")
    /\ UNCHANGED <<heapVars, lockVars, progVars>>

(* Fault: a call one handler deep uses the cache. *)
CachedDeeper == OwnCache /\ depth <= 2

(* cacheFor: only the thread's one call in the allocator uses its cache. *)
Cached == OwnCache /\ depth <= 1

MadeLive(s) ==
    /\ live' = live \cup {s}
    /\ held' = held \cup {s}

(* allocate: a slot of the class, or of a cache that must be filled. *)
ChooseAlloc ==
    /\ Running({"choose"}) /\ Top.kind = "alloc"
    /\ ~(Cached /\ avail # {})
    /\ Becomes([Top EXCEPT !.at = "retry", !.cached = Cached])
    /\ Moves

PopClass ==
    /\ Running({"retry"})
    /\ Section(IF Top.cached THEN "refill" ELSE "pop")
    /\ Moves

(* cachedAlloc with slots in the cache. *)
TakeCached ==
    /\ Running({"choose"}) /\ Top.kind = "alloc"
    /\ Cached
    /\ \E s \in avail : avail' = avail \ {s} /\ MadeLive(s)
    /\ Go("leave")
    /\ UNCHANGED <<cache, rel, nestVars, free, queued, lockVars, signals, left,
                   trapped, torn>>

(* cachedAlloc after popClass: the cache is what it gave, whatever it was;  *)
(* a slot of it is made live and handed out.                                *)
Refilled ==
    /\ Running({"filled"})
    /\ \/ /\ Top.got = {} /\ Go("nothing")
          /\ UNCHANGED <<cacheVars, live, held>>
       \/ \E s \in Top.got :
            /\ avail' = Top.got \ {s}
            /\ MadeLive(s)
            /\ Go("leave")
            /\ UNCHANGED <<cache, rel>>
    /\ UNCHANGED <<nestVars, free, queued, lockVars, signals, left, trapped, torn>>

(* takeSlot. *)
TakeUncached ==
    /\ Running({"have"})
    /\ \/ Top.got = {} /\ Go("nothing") /\ UNCHANGED <<live, held>>
       \/ \E s \in Top.got : MadeLive(s) /\ Go("leave")
    /\ UNCHANGED <<cacheVars, nestVars, free, queued, lockVars, signals, left,
                   trapped, torn>>

(* popClass with every region empty: it sweeps once and tries again, or     *)
(* gives up.                                                                *)
Nothing ==
    /\ Running({"nothing"})
    /\ \/ /\ ~Top.swept
          /\ Becomes([Top EXCEPT !.at = "sweep", !.swept = TRUE,
                                 !.back = "retry"])
       \/ Top.swept /\ Go("leave")
    /\ Moves

(* cachedRelease, which flushes a full cache, or retire. *)
ChooseFree ==
    /\ Running({"choose"}) /\ Top.kind = "free"
    /\ \/ /\ Cached
          /\ rel' = rel \cup {Top.arg}
          /\ IF Cardinality(rel') >= CacheLimit THEN Section("flush")
             ELSE Go("leave")
       \/ ~Cached /\ Section("retire") /\ UNCHANGED rel
    /\ UNCHANGED <<cache, avail, nestVars, heapVars, lockVars, progVars>>

(* flushReleases empties the cache when its slots are queued. *)
Flushed ==
    /\ Running({"flushed"})
    /\ rel' = {}
    /\ IF Top.draining
       THEN Becomes([Top EXCEPT !.at = "returning", !.got = avail])
       ELSE Go("budget")
    /\ UNCHANGED <<cache, avail, nestVars, heapVars, lockVars, progVars>>

(* overBudget says whether to sweep. *)
Budget ==
    /\ Running({"budget"})
    /\ \/ Go("leave")
       \/ Becomes([Top EXCEPT !.at = "sweep", !.back = "leave"])
    /\ Moves

-----------------------------------------------------------------------------
(* drainCache and the sweep *)

(* Emptying the cache, flushReleases first: its loop takes no lock when the *)
(* cache has no released slot.                                              *)
Drain ==
    /\ Running({"drain"})
    /\ Becomes([Top EXCEPT !.draining = TRUE, !.job = "flush",
                           !.at = IF rel = {} THEN "flushed" ELSE "take"])
    /\ Moves

(* returnSlots: a lock for each slot, and the cache is empty at the end.    *)
(* What follows is the list of caches (dropCache) or the sweep.             *)
ReturnSlots ==
    /\ Running({"returning"})
    /\ \/ Top.got # {} /\ Section("return") /\ UNCHANGED avail
       \/ /\ Top.got = {}
          /\ avail' = {}
          /\ Becomes([Top EXCEPT !.draining = FALSE, !.job = "list",
                                 !.at = IF Top.kind = "drop" THEN "take"
                                        ELSE "trysweep"])
    /\ UNCHANGED <<cache, rel, nestVars, heapVars, lockVars, progVars>>

(* weavecRtSweep: a nested call (weavecRtAllocatorNested) does not sweep;   *)
(* another empties the thread's cache first.                                *)
Sweep ==
    /\ Running({"sweep"})
    /\ Go(IF ~OwnCache THEN "trysweep"
          ELSE IF depth > 1 THEN Top.back ELSE "drain")
    /\ Moves

(* The sweep is not wanted, or another has begun; else it begins. *)
TrySweep ==
    /\ Running({"trysweep"})
    /\ \/ Go(Top.back) /\ UNCHANGED sweeping
       \/ ~sweeping /\ sweeping' = TRUE /\ Go("mask")
    /\ UNCHANGED <<cacheVars, nestVars, heapVars, locked, masked, progVars>>

(* Fault: signals stay as they are. *)
MaskNot ==
    /\ Running({"mask"})
    /\ Go("lockall")
    /\ Moves

Mask ==
    /\ Running({"mask"})
    /\ masked' = TRUE
    /\ Go("lockall")
    /\ UNCHANGED <<cacheVars, nestVars, heapVars, locked, sweeping, progVars>>

LockAll ==
    /\ Running({"lockall"})
    /\ "region" \notin locked
    /\ locked' = locked \cup {"region"}
    /\ Go("recycle")
    /\ UNCHANGED <<cacheVars, nestVars, heapVars, sweeping, masked, progVars>>

(* What the sweep finds no pointer to is free again. *)
Recycle ==
    /\ Running({"recycle"})
    /\ \E S \in SUBSET queued : queued' = queued \ S /\ free' = free \cup S
    /\ locked' = locked \ {"region"}
    /\ Go("unmask")
    /\ UNCHANGED <<cacheVars, nestVars, live, sweeping, masked, progVars>>

Unmask ==
    /\ Running({"unmask"})
    /\ masked' = FALSE
    /\ Go("unsweep")
    /\ UNCHANGED <<cacheVars, nestVars, heapVars, locked, sweeping, progVars>>

Unsweep ==
    /\ Running({"unsweep"})
    /\ sweeping' = FALSE
    /\ Go(Top.back)
    /\ UNCHANGED <<cacheVars, nestVars, heapVars, locked, masked, progVars>>

-----------------------------------------------------------------------------
NestingNext ==
    \/ Call \/ Signal \/ HandlerCall \/ HandlerReturn \/ Exit
    \/ Enter \/ RefuseAlloc \/ DeferFree \/ Defer \/ Leave
    \/ TestDeferred \/ Decrement \/ FreeDeferred
    \/ Take \/ Lock \/ Work \/ Give
    \/ Claim \/ FindCache \/ MakeCache \/ ChooseAlloc \/ PopClass
    \/ TakeCached \/ Refilled \/ TakeUncached \/ Nothing
    \/ ChooseFree \/ Flushed \/ Budget \/ Drain \/ ReturnSlots
    \/ Sweep \/ TrySweep \/ Mask \/ LockAll \/ Recycle \/ Unmask \/ Unsweep

NestingSpec == NestingInit /\ [][NestingNext]_nestingVars

-----------------------------------------------------------------------------
(* Properties *)

FrameType ==
    [kind : Kinds, at : Places, self : BOOLEAN, arg : Slots \cup {None},
     got : SUBSET Slots, n : Nat, job : Jobs, cached : BOOLEAN,
     draining : BOOLEAN, swept : BOOLEAN, back : {"leave", "retry"}]

(* The variables keep their types: the cache of the thread, its counts and  *)
(* the frames of its stack.                                                 *)
NestingTypeOK ==
    /\ cache \in {"none", "made", "gone"}
    /\ {avail, rel, free, queued, live, held, left} \subseteq SUBSET Slots
    /\ depth \in Nat /\ locks \in Int /\ count \in 0 .. DeferredLimit
    /\ deferred \in [0 .. DeferredLimit - 1 -> Slots \cup {None}]
    /\ locked \subseteq {"region", "list"}
    /\ sweeping \in BOOLEAN /\ masked \in BOOLEAN
    /\ trapped \in BOOLEAN /\ torn \in BOOLEAN
    /\ signals \in 0 .. MaxSignals
    /\ \A i \in 1 .. Len(stack) : stack[i] \in FrameType

(* A call never waits for a lock that a call below it in the same thread    *)
(* holds: it would wait for ever (the comment on ThreadCache.depth).        *)
NoSelfDeadlock ==
    /\ Running({"lock"}) => LockOf(Top.job) \notin locked
    /\ Running({"lockall"}) => "region" \notin locked

(* The program releases every block it got once, so claim refuses no        *)
(* release: one that waited in deferred is made once, whatever handlers do  *)
(* meanwhile, but for one that comes between the load and the store of      *)
(* deferredCount or before the entry is read or written.                    *)
ReleasedUnlessTorn == trapped => torn

(* The same with no exception.                                              *)
ReleasedOnce == ~trapped

(* When the thread is outside the allocator its counts are back at zero,    *)
(* no release waits, and every slot is in one place: the program's, the     *)
(* free list, the quarantine or the cache; or it did not fit in deferred.   *)
(* The exception is that of ReleasedUnlessTorn.                             *)
AtRest ==
    stack = <<>> /\ ~trapped /\ ~torn =>
        /\ depth = 0 /\ locks = 0 /\ count = 0
        /\ locked = {} /\ ~sweeping /\ ~masked
        /\ \A s \in Slots :
              Cardinality({i \in 1 .. 6 :
                  s \in <<held, left, free, queued, avail, rel>>[i]}) = 1
=============================================================================
