----------------------------- MODULE ForkCaches -----------------------------
(***************************************************************************)
(* What a child of fork does with the caches of the threads it does not     *)
(* have (runtime/weavec_alloc.c, forkPrepare and forkChild).                *)
(*                                                                          *)
(* fork waits for the sweep and for every lock, so it copies no critical    *)
(* section in progress; but a cache belongs to its thread and has no lock,  *)
(* and the copy may be of a cache in the middle of a change.  drainCache    *)
(* then checks each slot before it moves it to the shared lists.  After     *)
(* Fork the variables are the child's.                                      *)
(***************************************************************************)
EXTENDS Integers, FiniteSets, Functions

CONSTANTS
    ForkSlots,
    Regions,
    RegionOf,       \* the region of each slot
    Own,            \* the thread that forks
    Others,
    NoSlot,
    ForkCacheLimit,     \* SlotCache.limit
    CountFirst      \* the build stores a cache's count before the entry

ForkThreads == Others \cup {Own}

ASSUME ForkAssumption ==
    /\ IsFiniteSet(ForkSlots) /\ RegionOf \in [ForkSlots -> Regions]
    /\ Own \notin Others /\ NoSlot \notin ForkSlots
    /\ \A S \in SUBSET Others : S # NoSlot
    /\ ForkCacheLimit \in Nat \ {0}
    /\ CountFirst \in BOOLEAN

VARIABLES
    word,     \* the word of each slot; "claimed" is a CachedDead one
    bumped,   \* the slots below their region's bump index
    listed,   \* how many times a slot is on its region's free list
    quarantined,   \* how many times it is in its region's quarantine
    alloc,    \* ThreadCache.alloc of each thread, a count and its entries
    release,  \* ThreadCache.release
    forkAt,       \* where a thread is
    reached,       \* the index its loop has reached, or the number it popped
    arg,      \* the slot it has taken, claimed or swaps
    forkHeld,     \* the blocks the program has
    todo,     \* NoSlot, or in the child the threads whose caches are left
    stale     \* history: fork copied a cache that its checks cannot tell

forkHeapVars == <<word, bumped, listed, quarantined>>
forkVars == <<word, bumped, listed, quarantined, alloc, release, forkAt, reached,
              arg, forkHeld, todo, stale>>

Words == {"never", "free", "live", "claimed", "dead"}

ForkPlaces == {"run", "filled", "swap", "swapped", "taken", "push", "pushed",
           "flush", "return"}

Empty == [count |-> 0, slots |-> [i \in 1 .. ForkCacheLimit |-> NoSlot]]

In(c) == {i \in 1 .. c.count : c.slots[i] # NoSlot}

Entries(c) == {c.slots[i] : i \in In(c)}

(* S more once in a list. *)
Plus(list, S) == [s \in ForkSlots |-> IF s \in S THEN list[s] + 1 ELSE list[s]]
Less(list, S) == [s \in ForkSlots |-> IF s \in S THEN list[s] - 1 ELSE list[s]]

Marked(S, w) == [s \in ForkSlots |-> IF s \in S THEN w ELSE word[s]]

Forked == todo # NoSlot

(* A thread that exists and may take a step of the place. *)
At(t, place) == forkAt[t] = place /\ (Forked => t = Own /\ todo = {})

GoesTo(t, place) == forkAt' = [forkAt EXCEPT ![t] = place]

ForkInit ==
    /\ word = [s \in ForkSlots |-> "never"]
    /\ bumped = {}
    /\ listed = [s \in ForkSlots |-> 0]
    /\ quarantined = [s \in ForkSlots |-> 0]
    /\ alloc = [t \in ForkThreads |-> Empty]
    /\ release = [t \in ForkThreads |-> Empty]
    /\ forkAt = [t \in ForkThreads |-> "run"]
    /\ reached = [t \in ForkThreads |-> 0]
    /\ arg = [t \in ForkThreads |-> NoSlot]
    /\ forkHeld = {}
    /\ todo = NoSlot
    /\ stale = FALSE

-----------------------------------------------------------------------------
(* Allocation and release through the cache *)

(* The slots popRegion gives: those on the free list, then fresh ones. *)
Popped(r, S) ==
    LET Of(T) == {s \in T : RegionOf[s] = r}
        free == Of({s \in ForkSlots : listed[s] > 0})
        new == Of(ForkSlots \ bumped)
    IN  /\ S # {} /\ S \subseteq free \cup new
        /\ Cardinality(S) <= ForkCacheLimit
        /\ S \cap new # {} => free \subseteq S

(* Only the slots that were on the free list leave it. *)
Unlinked(S) == Less(listed, {s \in S : listed[s] > 0})

(* cachedAlloc with an empty cache: popRegion writes the entries, under the *)
(* region's lock; the count is set when popClass has returned.              *)
Refill(t) ==
    /\ At(t, "run") /\ alloc[t].count = 0
    /\ \E r \in Regions, S \in SUBSET ForkSlots :
        /\ Popped(r, S)
        /\ \E f \in Injection(1 .. Cardinality(S), S) :
             alloc' = [alloc EXCEPT ![t].slots =
                 [i \in 1 .. ForkCacheLimit |->
                     IF i \in DOMAIN f THEN f[i] ELSE @[i]]]
        /\ listed' = Unlinked(S)
        /\ bumped' = bumped \cup S
        /\ reached' = [reached EXCEPT ![t] = Cardinality(S)]
    /\ GoesTo(t, "filled")
    /\ UNCHANGED <<word, quarantined, release, arg, forkHeld, todo, stale>>

Filled(t) ==
    /\ At(t, "filled")
    /\ alloc' = [alloc EXCEPT ![t].count = reached[t]]
    /\ reached' = [reached EXCEPT ![t] = 0]
    /\ GoesTo(t, "swap")
    /\ UNCHANGED <<forkHeapVars, release, arg, forkHeld, todo, stale>>

(* The entries are then reversed, a pair at a time, in two stores. *)
SwapFirst(t) ==
    /\ At(t, "swap") /\ reached[t] < alloc[t].count \div 2
    /\ arg' = [arg EXCEPT ![t] = alloc[t].slots[reached[t] + 1]]
    /\ alloc' = [alloc EXCEPT ![t].slots[reached[t] + 1] =
                                alloc[t].slots[alloc[t].count - reached[t]]]
    /\ GoesTo(t, "swapped")
    /\ UNCHANGED <<forkHeapVars, release, reached, forkHeld, todo, stale>>

SwapSecond(t) ==
    /\ At(t, "swapped")
    /\ alloc' = [alloc EXCEPT ![t].slots[alloc[t].count - reached[t]] = arg[t]]
    /\ arg' = [arg EXCEPT ![t] = NoSlot]
    /\ reached' = [reached EXCEPT ![t] = @ + 1]
    /\ GoesTo(t, "swap")
    /\ UNCHANGED <<forkHeapVars, release, forkHeld, todo, stale>>

(* The last entry is taken, then made live and handed out. *)
TakeFromCache(t) ==
    /\ \/ At(t, "run") /\ alloc[t].count > 0
       \/ At(t, "swap") /\ reached[t] = alloc[t].count \div 2
    /\ arg' = [arg EXCEPT ![t] = alloc[t].slots[alloc[t].count]]
    /\ alloc' = [alloc EXCEPT ![t].count = @ - 1]
    /\ reached' = [reached EXCEPT ![t] = 0]
    /\ GoesTo(t, "taken")
    /\ UNCHANGED <<forkHeapVars, release, forkHeld, todo, stale>>

MakeLive(t) ==
    /\ At(t, "taken")
    /\ word' = [word EXCEPT ![arg[t]] = "live"]
    /\ forkHeld' = forkHeld \cup {arg[t]}
    /\ arg' = [arg EXCEPT ![t] = NoSlot]
    /\ GoesTo(t, "run")
    /\ UNCHANGED <<bumped, listed, quarantined, alloc, release, reached, todo, stale>>

(* free: the block is claimed, then pushed. *)
ClaimOne(t) ==
    /\ At(t, "run")
    /\ \E s \in forkHeld :
        /\ word' = [word EXCEPT ![s] = "claimed"]
        /\ forkHeld' = forkHeld \ {s}
        /\ arg' = [arg EXCEPT ![t] = s]
    /\ GoesTo(t, "push")
    /\ UNCHANGED <<bumped, listed, quarantined, alloc, release, reached, todo, stale>>

(* slots[count++] = entry, in the order of the build. *)
PushFirst(t) ==
    /\ At(t, "push")
    /\ release' = IF CountFirst
                  THEN [release EXCEPT ![t].count = @ + 1]
                  ELSE [release EXCEPT ![t].slots[release[t].count + 1] = arg[t]]
    /\ GoesTo(t, "pushed")
    /\ UNCHANGED <<forkHeapVars, alloc, reached, arg, forkHeld, todo, stale>>

PushSecond(t) ==
    /\ At(t, "pushed")
    /\ release' = IF CountFirst
                  THEN [release EXCEPT ![t].slots[release[t].count] = arg[t]]
                  ELSE [release EXCEPT ![t].count = @ + 1]
    /\ arg' = [arg EXCEPT ![t] = NoSlot]
    /\ GoesTo(t, IF release'[t].count = ForkCacheLimit THEN "flush" ELSE "run")
    /\ UNCHANGED <<forkHeapVars, alloc, reached, forkHeld, todo, stale>>

-----------------------------------------------------------------------------
(* Emptying a cache *)

(* flushReleases: a run of slots of one region is queued under its lock. *)
Flush(t) ==
    /\ At(t, "flush") /\ reached[t] < release[t].count
    /\ \E last \in reached[t] + 1 .. release[t].count :
        LET S == {release[t].slots[i] : i \in reached[t] + 1 .. last}
            region(i) == RegionOf[release[t].slots[i]]
        IN  /\ \A i \in reached[t] + 1 .. last : region(i) = region(last)
            /\ last < release[t].count => region(last + 1) # region(last)
            /\ word' = Marked(S, "dead")
            /\ quarantined' = Plus(quarantined, S)
            /\ reached' = [reached EXCEPT ![t] = last]
    /\ UNCHANGED <<bumped, listed, alloc, release, forkAt, arg, forkHeld, todo, stale>>

(* The cache is empty when its last run is queued; a thread that is about   *)
(* to sweep or exits returns its free slots too.                            *)
FlushedRun(t) ==
    /\ At(t, "flush") /\ reached[t] = release[t].count
    /\ release' = [release EXCEPT ![t].count = 0]
    /\ reached' = [reached EXCEPT ![t] = 0]
    /\ \E place \in {"run", "return"} : GoesTo(t, place)
    /\ UNCHANGED <<forkHeapVars, alloc, arg, forkHeld, todo, stale>>

(* drainCache, of weavecRtFlushThread or dropCache. *)
DrainCache(t) ==
    /\ At(t, "run")
    /\ GoesTo(t, "flush")
    /\ UNCHANGED <<forkHeapVars, alloc, release, reached, arg, forkHeld, todo, stale>>

(* returnSlots: the region's lock is taken for each slot. *)
ReturnCached(t) ==
    /\ At(t, "return") /\ reached[t] < alloc[t].count
    /\ LET s == alloc[t].slots[reached[t] + 1]
       IN  /\ word' = [word EXCEPT ![s] = "free"]
           /\ listed' = Plus(listed, {s})
    /\ reached' = [reached EXCEPT ![t] = @ + 1]
    /\ UNCHANGED <<bumped, quarantined, alloc, release, forkAt, arg, forkHeld, todo, stale>>

Returned(t) ==
    /\ At(t, "return") /\ reached[t] = alloc[t].count
    /\ alloc' = [alloc EXCEPT ![t].count = 0]
    /\ reached' = [reached EXCEPT ![t] = 0]
    /\ GoesTo(t, "run")
    /\ UNCHANGED <<forkHeapVars, release, arg, forkHeld, todo, stale>>

(* A sweep frees what it finds no pointer to: slots of the quarantine.  It  *)
(* excludes fork, and stops the other threads wherever they are.            *)
RecycleQueued ==
    /\ todo \in {NoSlot, {}}
    /\ \E S \in SUBSET {s \in ForkSlots : quarantined[s] > 0} :
        /\ S # {}
        /\ quarantined' = Less(quarantined, S)
        /\ listed' = Plus(listed, S)
        /\ word' = Marked(S, "free")
    /\ UNCHANGED <<bumped, alloc, release, forkAt, reached, arg, forkHeld, todo, stale>>

-----------------------------------------------------------------------------
(* fork *)

(* A cache in the middle of a change lists a slot that its thread has moved *)
(* on, or twice, and the word of the slot does not tell: between the two    *)
(* stores of a swap; after a slot was returned, or queued, recycled,        *)
(* allocated and released again; or before a pushed entry is stored.        *)
StaleCopy(t) ==
    LET moved(c) == {c.slots[i] : i \in {j \in In(c) : j <= reached[t]}}
        last(c) == {c.slots[i] : i \in {j \in In(c) : j = c.count}}
    IN  \/ forkAt[t] = "swapped"
        \/ /\ forkAt[t] = "return"
           /\ \E s \in moved(alloc[t]) : word[s] \in {"never", "free"}
        \/ forkAt[t] = "flush" /\ \E s \in moved(release[t]) : word[s] = "claimed"
        \/ /\ CountFirst /\ forkAt[t] = "pushed"
           /\ \E s \in last(release[t]) : word[s] = "claimed"

(* Every lock is held, so the other threads are between critical sections,  *)
(* wherever that is.                                                        *)
Fork ==
    /\ ~Forked /\ forkAt[Own] = "run"
    /\ todo' = Others
    /\ stale' = (stale \/ \E t \in Others : StaleCopy(t))
    /\ UNCHANGED <<forkHeapVars, alloc, release, forkAt, reached, arg, forkHeld>>

(* Fault: the released slots of a copied cache are not checked. *)
DrainCopiedUnchecked(t) ==
    /\ Forked /\ t \in todo
    /\ LET dead == Entries(release[t])
           spare == {i \in In(alloc[t]) :
                       word[alloc[t].slots[i]] \in {"never", "free"}}
           times(s) == Cardinality({i \in spare : alloc[t].slots[i] = s})
       IN  /\ quarantined' = Plus(quarantined, dead)
           /\ listed' = [s \in ForkSlots |-> listed[s] + times(s)]
           /\ word' = [s \in ForkSlots |-> IF s \in dead THEN "dead"
                                       ELSE IF times(s) > 0 THEN "free"
                                       ELSE word[s]]
    /\ todo' = todo \ {t}
    /\ UNCHANGED <<bumped, alloc, release, forkAt, reached, arg, forkHeld,
                   stale>>

(* drainCache(cache, 1): a released slot is queued if it is claimed, a free *)
(* one is listed if it is neither live nor released.  Both are below their  *)
(* region's bump, as every slot that was ever in a cache is.                *)
DrainCopied(t) ==
    /\ Forked /\ t \in todo
    /\ LET dead == {s \in Entries(release[t]) : word[s] = "claimed"}
           spare == {i \in In(alloc[t]) :
                       word[alloc[t].slots[i]] \in {"never", "free"}}
           times(s) == Cardinality({i \in spare : alloc[t].slots[i] = s})
       IN  /\ quarantined' = Plus(quarantined, dead)
           /\ listed' = [s \in ForkSlots |-> listed[s] + times(s)]
           /\ word' = [s \in ForkSlots |-> IF s \in dead THEN "dead"
                                       ELSE IF times(s) > 0 THEN "free"
                                       ELSE word[s]]
    /\ todo' = todo \ {t}
    /\ UNCHANGED <<bumped, alloc, release, forkAt, reached, arg, forkHeld,
                   stale>>

ForkNext ==
    \/ \E t \in ForkThreads :
        \/ Refill(t) \/ Filled(t) \/ SwapFirst(t) \/ SwapSecond(t)
        \/ TakeFromCache(t) \/ MakeLive(t)
        \/ ClaimOne(t) \/ PushFirst(t) \/ PushSecond(t)
        \/ Flush(t) \/ FlushedRun(t) \/ DrainCache(t) \/ ReturnCached(t) \/ Returned(t)
        \/ DrainCopied(t)
    \/ RecycleQueued
    \/ Fork

ForkSpec == ForkInit /\ [][ForkNext]_forkVars

-----------------------------------------------------------------------------
(* Properties *)

CacheType == [count : 0 .. ForkCacheLimit,
              slots : [1 .. ForkCacheLimit -> ForkSlots \cup {NoSlot}]]

(* The variables keep their types; a cache never holds more than its limit. *)
ForkTypeOK ==
    /\ word \in [ForkSlots -> Words]
    /\ bumped \subseteq ForkSlots
    /\ listed \in [ForkSlots -> Nat] /\ quarantined \in [ForkSlots -> Nat]
    /\ alloc \in [ForkThreads -> CacheType] /\ release \in [ForkThreads -> CacheType]
    /\ forkAt \in [ForkThreads -> ForkPlaces]
    /\ reached \in [ForkThreads -> 0 .. ForkCacheLimit]
    /\ arg \in [ForkThreads -> ForkSlots \cup {NoSlot}]
    /\ forkHeld \subseteq ForkSlots
    /\ todo = NoSlot \/ todo \subseteq Others
    /\ stale \in BOOLEAN

(* How many times a slot can still be handed out or released in the child.  *)
Uses(s) ==
    LET entries(c) == Cardinality({i \in In(c) : c.slots[i] = s})
    IN  listed[s] + quarantined[s] + entries(alloc[Own]) + entries(release[Own])
          + (IF s \in forkHeld THEN 1 ELSE 0)

(* In the child, when the copied caches are gone and no call is in          *)
(* progress, a slot is in one list or cache at most, once: another place    *)
(* would hand a block out twice.                                            *)
ChildSlotsOnce ==
    todo = {} /\ forkAt[Own] = "run" => \A s \in ForkSlots : Uses(s) <= 1

(* And its word says where it is: a slot on the free list, or in the        *)
(* child's cache of free slots, is not live.                                *)
ChildWordsAgree ==
    todo = {} /\ forkAt[Own] = "run" =>
        \A s \in ForkSlots :
            /\ listed[s] > 0 => word[s] = "free"
            /\ quarantined[s] > 0 => word[s] = "dead"
            /\ s \in Entries(alloc[Own]) => word[s] \in {"never", "free"}
            /\ s \in Entries(release[Own]) => word[s] = "claimed"

(* What the child allocates from and releases to is whole (forkChild,       *)
(* drainCache), as its comments have it wherever fork found the caches.     *)
ChildListsWhole == ChildSlotsOnce /\ ChildWordsAgree

(* The same, whatever the other threads were doing, unless fork copied a    *)
(* cache that lists a slot no longer its own, or one twice, with a word     *)
(* that passes drainCache's check: then only the word can tell, and it does *)
(* for a cache being filled, pushed to, or flushed before a sweep.          *)
ChildWholeUnlessStale == ~stale => ChildListsWhole
=============================================================================
