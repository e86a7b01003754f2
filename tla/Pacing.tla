------------------------------- MODULE Pacing -------------------------------
(***************************************************************************)
(* When the runtime sweeps: the counters of quarantined bytes, the budgets  *)
(* and the clock (runtime/weavec_alloc.c: retire, flushReleases, hugeFree,  *)
(* overBudget, weavecRtSwept, the counting part of weavecRtRecycle).        *)
(*                                                                          *)
(* The counters are size_t: arithmetic wraps at Modulus. A step is one      *)
(* atomic operation on a counter or one critical section. A sweep stops the *)
(* other threads wherever they are, so from their point of view it counts   *)
(* in one step.                                                             *)
(*                                                                          *)
(* Abstractions: every block has Size bytes; which quarantined blocks a     *)
(* sweep recycles is a choice (module Heap says which it may), and so is    *)
(* the clock; the live heap does not change.                                *)
(***************************************************************************)
EXTENDS Integers, FiniteSets

CONSTANTS
    Releasers,
    Modulus,          \* 2^w of a size_t of w bits
    QuarantineBudget, \* quarantineBudget
    Live,             \* what liveNow() returns
    Size,             \* the bytes of a block
    MaxReleases,      \* bound: how many blocks are released
    Nobody

ASSUME PacingAssumption ==
    /\ {Modulus, QuarantineBudget, Size} \subseteq Nat \ {0}
    /\ {Live, MaxReleases} \subseteq Nat
    /\ Nobody \notin Releasers

Larger(a, b) == IF a > b THEN a ELSE b

(* The budgets of overBudget and weavecRtSwept. *)
Soft == Larger(QuarantineBudget, Live \div 4)
Hard == Larger(2 * QuarantineBudget, Live \div 2)

VARIABLES
    queuedSlots,           \* how many slots the quarantine really holds
    hugeDead,         \* how many released huge blocks
    quarantineBytes,
    hugeDeadBytes,
    retainedBytes,
    nextPacingCheck,
    sweepLock,        \* the thread that sweeps
    marked,           \* whether its sweep marked
    pacingAt,
    gained,           \* overBudget's `gained` of a thread
    releases,         \* how many blocks have been released
    since,            \* bytes counted as released since the last sweep
    overdrawn         \* history: the last sweep that marked took off the
                      \* counters more than they held

pacingVars == <<queuedSlots, hugeDead, quarantineBytes, hugeDeadBytes, retainedBytes,
          nextPacingCheck, sweepLock, marked, pacingAt, gained, releases, since,
          overdrawn>>

PacingPlaces == {"run", "count", "budget", "pace", "sweep", "recycle", "swept"}

PacingInit ==
    /\ queuedSlots = 0
    /\ hugeDead = 0
    /\ quarantineBytes = 0
    /\ hugeDeadBytes = 0
    /\ retainedBytes = 0
    /\ nextPacingCheck = 0
    /\ sweepLock = Nobody
    /\ marked = FALSE
    /\ pacingAt = [t \in Releasers |-> "run"]
    /\ gained = [t \in Releasers |-> 0]
    /\ releases = 0
    /\ since = 0
    /\ overdrawn = FALSE

(* The threads that have queued a slot and not counted it. *)
Counting == {t \in Releasers : pacingAt[t] = "count"}

Goto(t, place) == pacingAt' = [pacingAt EXCEPT ![t] = place]

(* The difference that overBudget and weavecRtSwept take. *)
Gained ==
    LET held == (quarantineBytes + hugeDeadBytes) % Modulus
    IN  IF held > retainedBytes THEN held - retainedBytes ELSE 0

(* retire, flushReleases: the slot joins the quarantine under its region's  *)
(* lock ...                                                                 *)
Queue(t) ==
    /\ pacingAt[t] = "run"
    /\ releases < MaxReleases
    /\ releases' = releases + 1
    /\ queuedSlots' = queuedSlots + 1
    /\ Goto(t, "count")
    /\ UNCHANGED <<hugeDead, quarantineBytes, hugeDeadBytes, retainedBytes,
                   nextPacingCheck, sweepLock, marked, gained, since, overdrawn>>

(* ... and its bytes are counted after the lock is given back.              *)
Count(t) ==
    /\ pacingAt[t] = "count"
    /\ quarantineBytes' = (quarantineBytes + Size) % Modulus
    /\ since' = since + Size
    /\ Goto(t, "budget")
    /\ UNCHANGED <<queuedSlots, hugeDead, hugeDeadBytes, retainedBytes,
                   nextPacingCheck, sweepLock, marked, gained, releases, overdrawn>>

(* hugeFree counts a huge block's bytes under its lock. *)
HugeFree(t) ==
    /\ pacingAt[t] = "run"
    /\ releases < MaxReleases
    /\ releases' = releases + 1
    /\ hugeDead' = hugeDead + 1
    /\ hugeDeadBytes' = (hugeDeadBytes + Size) % Modulus
    /\ since' = since + Size
    /\ Goto(t, "budget")
    /\ UNCHANGED <<queuedSlots, quarantineBytes, retainedBytes, nextPacingCheck,
                   sweepLock, marked, gained, overdrawn>>

(* Fault: the hard budget does not override the clock. *)
OverBudgetPaced(t) ==
    /\ pacingAt[t] = "budget"
    /\ gained' = [gained EXCEPT ![t] = Gained]
    /\ \/ /\ Gained < Soft \/ Gained < nextPacingCheck
          /\ Goto(t, "run")
       \/ /\ Gained >= Larger(Soft, nextPacingCheck)
          /\ \E place \in {"sweep", "pace"} : Goto(t, place)
    /\ UNCHANGED <<queuedSlots, hugeDead, quarantineBytes, hugeDeadBytes,
                   retainedBytes, nextPacingCheck, sweepLock, marked, releases,
                   since, overdrawn>>

(* overBudget: under the soft budget, or before the next look at the clock, *)
(* no; over the hard budget, or when the last sweep is long enough ago,     *)
(* yes; else the clock is looked at later.                                  *)
OverBudget(t) ==
    /\ pacingAt[t] = "budget"
    /\ gained' = [gained EXCEPT ![t] = Gained]
    /\ \/ /\ Gained < Soft \/ Gained < nextPacingCheck
          /\ Goto(t, "run")
       \/ /\ Gained >= Larger(Soft, nextPacingCheck)
          /\ Goto(t, "sweep")
       \/ /\ Gained >= Larger(Soft, nextPacingCheck)
          /\ Gained < Hard
          /\ Goto(t, "pace")
    /\ UNCHANGED <<queuedSlots, hugeDead, quarantineBytes, hugeDeadBytes,
                   retainedBytes, nextPacingCheck, sweepLock, marked, releases,
                   since, overdrawn>>

(* The store of overBudget, by when a sweep may have come between. *)
Pace(t) ==
    /\ pacingAt[t] = "pace"
    /\ nextPacingCheck' = (gained[t] + Soft \div 16) % Modulus
    /\ Goto(t, "run")
    /\ UNCHANGED <<queuedSlots, hugeDead, quarantineBytes, hugeDeadBytes,
                   retainedBytes, sweepLock, marked, gained, releases, since,
                   overdrawn>>

(* weavecRtSweep: nothing to sweep or another's sweep returns. *)
PacedTrySweep(t) ==
    /\ pacingAt[t] = "sweep"
    /\ \/ /\ quarantineBytes # 0 \/ hugeDead # 0
          /\ sweepLock = Nobody
          /\ sweepLock' = t
          /\ Goto(t, "recycle")
       \/ /\ (quarantineBytes = 0 /\ hugeDead = 0) \/ sweepLock # Nobody
          /\ Goto(t, "run")
          /\ UNCHANGED sweepLock
    /\ UNCHANGED <<queuedSlots, hugeDead, quarantineBytes, hugeDeadBytes,
                   retainedBytes, nextPacingCheck, marked, gained, releases,
                   since, overdrawn>>

(* Fault: a huge block's bytes are taken from the wrong counter. *)
RecycleOther(t) ==
    /\ pacingAt[t] = "recycle"
    /\ \E s \in 0 .. queuedSlots, h \in 0 .. hugeDead :
        /\ queuedSlots' = queuedSlots - s
        /\ hugeDead' = hugeDead - h
        /\ quarantineBytes' =
             (quarantineBytes + Modulus - Size * (s + h)) % Modulus
    /\ retainedBytes' = (quarantineBytes' + hugeDeadBytes) % Modulus
    /\ marked' = TRUE
    /\ since' = 0
    /\ overdrawn' = (queuedSlots' + hugeDead' < Cardinality(Counting))
    /\ Goto(t, "swept")
    /\ UNCHANGED <<hugeDeadBytes, nextPacingCheck, sweepLock, gained, releases>>

(* weavecRtRecycle: s slots and h huge blocks leave the quarantine, none of *)
(* them when a root could not be read.                                      *)
RecycleCounted(t) ==
    /\ pacingAt[t] = "recycle"
    /\ \E s \in 0 .. queuedSlots, h \in 0 .. hugeDead :
        /\ queuedSlots' = queuedSlots - s
        /\ hugeDead' = hugeDead - h
        /\ quarantineBytes' = (quarantineBytes + Modulus - Size * s) % Modulus
        /\ hugeDeadBytes' = (hugeDeadBytes + Modulus - Size * h) % Modulus
    /\ retainedBytes' = (quarantineBytes' + hugeDeadBytes') % Modulus
    /\ marked' = TRUE
    /\ since' = 0
    /\ overdrawn' = (queuedSlots' + hugeDead' < Cardinality(Counting))
    /\ Goto(t, "swept")
    /\ UNCHANGED <<nextPacingCheck, sweepLock, gained, releases>>

(* The threads could not be stopped, or there is no memory for the marks. *)
CannotMark(t) ==
    /\ pacingAt[t] = "recycle"
    /\ marked' = FALSE
    /\ Goto(t, "swept")
    /\ UNCHANGED <<queuedSlots, hugeDead, quarantineBytes, hugeDeadBytes,
                   retainedBytes, nextPacingCheck, sweepLock, gained, releases,
                   since, overdrawn>>

(* weavecRtSwept: after a sweep that did not mark, the next waits for       *)
(* another hard budget of releases.                                         *)
Swept(t) ==
    /\ pacingAt[t] = "swept"
    /\ nextPacingCheck' = IF marked THEN 0 ELSE (Gained + Hard) % Modulus
    /\ since' = IF marked THEN since ELSE 0
    /\ sweepLock' = Nobody
    /\ Goto(t, "run")
    /\ UNCHANGED <<queuedSlots, hugeDead, quarantineBytes, hugeDeadBytes,
                   retainedBytes, marked, gained, releases, overdrawn>>

Step(t) ==
    \/ Queue(t) \/ Count(t) \/ HugeFree(t) \/ OverBudget(t) \/ Pace(t)
    \/ PacedTrySweep(t) \/ RecycleCounted(t) \/ CannotMark(t) \/ Swept(t)

PacingNext == \E t \in Releasers : Step(t)

PacingSpec == PacingInit /\ [][PacingNext]_pacingVars

-----------------------------------------------------------------------------
(* Type correctness of the variables. *)
PacingTypeOK ==
    /\ queuedSlots \in Nat /\ hugeDead \in Nat
    /\ releases \in Nat /\ since \in Nat
    /\ quarantineBytes \in 0 .. Modulus - 1 /\ hugeDeadBytes \in 0 .. Modulus - 1
    /\ retainedBytes \in 0 .. Modulus - 1 /\ nextPacingCheck \in 0 .. Modulus - 1
    /\ sweepLock \in Releasers \cup {Nobody}
    /\ marked \in BOOLEAN /\ overdrawn \in BOOLEAN
    /\ pacingAt \in [Releasers -> PacingPlaces]
    /\ gained \in [Releasers -> 0 .. Modulus - 1]

(* When no thread is inside a release, the counters say what the quarantine *)
(* holds, so that weavecRtSweepWanted and overBudget see it.                *)
CountersExact ==
    (\A t \in Releasers : pacingAt[t] # "count") =>
        /\ quarantineBytes = Size * queuedSlots
        /\ hugeDeadBytes = Size * hugeDead

(* While no sweep runs, overBudget answers no only below the hard budget    *)
(* and the sixteenth of the soft one between two looks at the clock.        *)
BelowHard ==
    \A t \in Releasers :
        /\ pacingAt[t] = "budget"
        /\ pacingAt'[t] \in {"run", "pace"}
        /\ sweepLock = Nobody
        => since < Hard + Soft \div 16

(* Twice the quarantine and half the live heap, released since the last     *)
(* sweep, start one at once, whatever sweeps and releases came between      *)
(* overBudget's steps: as RFC 0037 has it.  It is not so after a sweep that *)
(* recycled slots before the threads that queued them counted them.         *)
HardBudget == [][BelowHard]_pacingVars

(* The same, until a sweep takes off the counters more than all that is     *)
(* counted, so that retainedBytes wraps; and again from the next sweep that *)
(* does not.  A sweep may stop threads between queueing and counting, and   *)
(* recycle what they queued, as long as the counters hold as much.          *)
HardBudgetUnlessOverdrawn == [][~overdrawn => BelowHard]_pacingVars

=============================================================================
