----------------------------- MODULE MCThreads ------------------------------
(***************************************************************************)
(* The parts of the runtime that threads and signal handlers interleave in, *)
(* on small instances: StopWorld, Nesting, ForkCaches and Pacing.  Each     *)
(* behaviour is one of one part; the others stay in their initial states.   *)
(***************************************************************************)
EXTENDS StopWorld, Nesting, ForkCaches, Pacing, TLC

CONSTANTS u1, u2, u3, s1, s2, s3, f1, f2, f3, r1, r2

VARIABLE part

MCThreadSet == {u1, u2, u3}
MCStarters == {u1, u2}

(* A region of two slots and one of one. *)
TwoAndOne == [s \in ForkSlots |-> IF s = f3 THEN r2 ELSE r1]

(* The slots of Nesting are alike, and the threads of Pacing. *)
SlotSymmetry == Permutations(Slots) \cup Permutations(Releasers)

Init ==
    /\ part \in {"stop", "nesting", "fork", "pacing"}
    /\ StopInit /\ NestingInit /\ ForkInit /\ PacingInit

Next ==
    \/ /\ part = "stop" /\ StopNext
       /\ UNCHANGED <<part, nestingVars, forkVars, pacingVars>>
    \/ /\ part = "nesting" /\ NestingNext
       /\ UNCHANGED <<part, stopVars, forkVars, pacingVars>>
    \/ /\ part = "fork" /\ ForkNext
       /\ UNCHANGED <<part, stopVars, nestingVars, pacingVars>>
    \/ /\ part = "pacing" /\ PacingNext
       /\ UNCHANGED <<part, stopVars, nestingVars, forkVars>>

Spec == Init /\ [][Next]_<<part, stopVars, nestingVars, forkVars, pacingVars>>

(* A cache without the entries beyond the first n. *)
Cut(c, n) ==
    [c EXCEPT !.slots =
        [i \in 1 .. ForkCacheLimit |-> IF i <= n THEN @[i] ELSE NoSlot]]

(* A call of Nesting without what it does not read again: once it leaves,   *)
(* and while it sweeps, its block, its slots and its last section.          *)
Ahead(f) ==
    LET bare == [Frame(f.kind, f.at, None) EXCEPT !.self = f.self]
    IN  CASE f.at \in {"leave", "deferred"} -> bare
          [] f.at \in {"budget", "sweep", "drain", "trysweep", "mask", "lockall",
                       "recycle", "unmask", "unsweep", "retry"} ->
                [bare EXCEPT !.cached = f.cached, !.swept = f.swept,
                             !.back = f.back]
          [] OTHER -> f

(* deferred without the entries beyond its count, unless one is about to be *)
(* read.                                                                    *)
Waiting ==
    IF \E i \in 1 .. Len(stack) : stack[i].at \in {"decrement", "read"}
    THEN deferred
    ELSE [i \in DOMAIN deferred |-> IF i < count THEN deferred[i] ELSE None]

NestingSeen ==
    <<cacheVars, depth, locks, count, heapVars, lockVars, held, left, trapped,
      torn, [i \in 1 .. Len(stack) |-> Ahead(stack[i])], Waiting,
      IF stack = <<>> THEN 0 ELSE signals>>

(* The state without the entries that nothing reads before they are written *)
(* again: those beyond a cache's count, in a build that stores the entry    *)
(* before the count, but for the ones a refill or a push has just written.  *)
Seen ==
    LET written(t) == IF forkAt[t] = "filled" THEN reached[t] ELSE alloc[t].count
        pushed(t) == release[t].count + (IF forkAt[t] = "pushed" THEN 1 ELSE 0)
    IN  <<part, stopVars, NestingSeen, pacingVars, forkHeapVars, forkAt,
          reached, arg, forkHeld, todo, stale,
          [t \in ForkThreads |-> Cut(alloc[t], written(t))],
          [t \in ForkThreads |-> IF CountFirst THEN release[t]
                                 ELSE Cut(release[t], pushed(t))]>>
=============================================================================
