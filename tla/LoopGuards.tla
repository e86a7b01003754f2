----------------------------- MODULE LoopGuards -----------------------------
(***************************************************************************)
(* Versioned loops (lib/Frontend/GuardLoops.cpp): a loop whose guard moves *)
(* by a constant step is copied, and the copy without the guard runs when  *)
(* one test, made before the loop, finds the bytes of the whole trip       *)
(* addressable; otherwise the guarded loop runs.                           *)
(*                                                                         *)
(* Addresses have Bits bits (64 in the code), and so has the arithmetic of *)
(* the test.  Init is a loop and the memory it runs over.  The steps are   *)
(* the test, and the iterations of the loop it chooses.                    *)
(***************************************************************************)
EXTENDS Integers, FiniteSets, FiniteSetsExt

CONSTANTS Bits,        \* the width of an address
          ShadowGranule, \* WeavecRtShadowGranule
          Objects,     \* a sequence of [first, end, color, heap, lost]
          LoopRoots,   \* the pointers a guard's address is computed from
          Steps,       \* steps, each of a magnitude below 2^(Bits - 1)
          Widths,      \* the bytes of the guard
          Trips,      \* how often the backedge is taken
          MinTrip      \* the fewest iterations worth the test

\* A colored object ends with a byte that is no object's (the spare byte of a
\* block, the zone after a local or a global).  Uncolored memory is whole
\* granules, and another object may begin where it ends.
Before(o, p) == \/ Objects[o].end < Objects[p].first
                \/ Objects[o].color = 0 /\ Objects[o].end = Objects[p].first
Apart(o, p) == Before(o, p) \/ Before(p, o)

ASSUME LoopAssumption ==
  /\ Bits \in Nat /\ ShadowGranule \in Nat \ {0}
  /\ Steps \subseteq Int /\ Widths \subseteq Nat /\ LoopRoots \subseteq Nat
  /\ Trips \subseteq 0..(2 ^ Bits - 1)
  /\ \A s \in Steps : s < 2 ^ (Bits - 1) /\ -s < 2 ^ (Bits - 1)
  /\ \A o \in DOMAIN Objects :
       /\ Objects[o] \in [first : Nat, end : Nat, color : Nat, heap : BOOLEAN,
                          lost : BOOLEAN]
       /\ Objects[o].first % ShadowGranule = 0
  /\ \A o, p \in DOMAIN Objects : o # p => Apart(o, p)

VARIABLES loop, live, loopAt, iteration

loopVars == <<loop, live, loopAt, iteration>>

Addresses == 0..(2 ^ Bits - 1)
WrappedValue(n) == n % 2 ^ Bits
ObjectBytes(o) == Objects[o].first..(Objects[o].end - 1)
ObjectAt(a) == {o \in live : a \in ObjectBytes(o)}
AddressableByte(a) == ObjectAt(a) # {}

\* The shadow of a's granule: the object that marks it (none: it is poison),
\* with the object's color when the granule is whole, else with its class.
GranuleFirst(a) == a - (a % ShadowGranule)
MarkedBy(a) == {o \in live : GranuleFirst(a) \in ObjectBytes(o)}
WholeFor(o, a) == GranuleFirst(a) + ShadowGranule <= Objects[o].end
SameColor(o, a, p, b) ==
  IF WholeFor(o, a) /\ WholeFor(p, b) THEN Objects[o].color = Objects[p].color
  ELSE Objects[o].color % 8 = Objects[p].color % 8

\* The bytes the guard covers in iteration k, whose address is computed in
\* Bits bits.
Address(k) == WrappedValue(loop.start + k * loop.step)
IterationBytes(k) == {WrappedValue(Address(k) + i) : i \in 0..(loop.bytes - 1)}

-----------------------------------------------------------------------------
(* rangeOf and versionable: a guard may have a root, whose color that of   *)
(* the range's first granule is compared with, and a base it tests for     *)
(* null; a loop that may release anything is not versioned.                *)
(***************************************************************************)
LoopsInit ==
  /\ loop \in [start : Addresses, step : Steps, bytes : Widths,
               count : Trips, root : {{}} \cup {{r} : r \in LoopRoots},
               nullBase : BOOLEAN, releases : BOOLEAN]
  /\ live = DOMAIN Objects
  /\ loopAt = "check" /\ iteration = 0

Versionable == ~loop.releases /\ loop.count >= MinTrip - 1

\* One operation of the test, and whether it overflows.
Checked(n) == [value |-> WrappedValue(n), overflow |-> n \notin Addresses]

\* Mutant: the overflow of the last address is not tested.
RangeWrapped ==
  LET magnitude == IF loop.step < 0 THEN -loop.step ELSE loop.step
      span == Checked(loop.count * magnitude)
      last == IF loop.step > 0 THEN Checked(loop.start + span.value)
              ELSE Checked(loop.start)
      low == IF loop.step < 0 THEN Checked(loop.start - span.value)
             ELSE Checked(loop.start)
      high == Checked(last.value + loop.bytes)
  IN [low |-> low.value, length |-> WrappedValue(high.value - low.value),
      overflow |-> FALSE]

\* rangesAddressable: the range of the trip, [low, low + length).
Range64 ==
  LET magnitude == IF loop.step < 0 THEN -loop.step ELSE loop.step
      span == Checked(loop.count * magnitude)
      last == IF loop.step > 0 THEN Checked(loop.start + span.value)
              ELSE Checked(loop.start)
      low == IF loop.step < 0 THEN Checked(loop.start - span.value)
             ELSE Checked(loop.start)
      high == Checked(last.value + loop.bytes)
  IN [low |-> low.value, length |-> WrappedValue(high.value - low.value),
      overflow |-> span.overflow \/ last.overflow \/ low.overflow
                     \/ high.overflow]

\* jumpKind and __weavec_rt_color_ok: an access at a computed from root r
\* passes.  Poison is not compared; nor is anything with uncolored memory, an
\* object that lost its colors, or a root inside a heap object.
ColorOk(a, r) ==
  \A o \in MarkedBy(a), p \in MarkedBy(r) :
    \/ SameColor(o, a, p, r)
    \/ Objects[p].color = 0
    \/ Objects[o].color = 0 /\ Objects[o].lost
    \/ Objects[p].heap /\ (o = p \/ Objects[p].first # r)

RangesAddressable ==
  LET range == Range64
  IN /\ ~range.overflow
     /\ \A i \in 0..(range.length - 1) : AddressableByte(WrappedValue(range.low + i))
     /\ ~loop.nullBase
     /\ \A r \in loop.root : ColorOk(range.low, r)

-----------------------------------------------------------------------------
(* The test, and the loop it chooses.                                      *)
(***************************************************************************)
Choose ==
  /\ loopAt = "check"
  /\ loopAt' = IF Versionable /\ RangesAddressable THEN "ranged" ELSE "guarded"
  /\ UNCHANGED <<loop, live, iteration>>

Advanced == IF iteration < loop.count THEN iteration + 1 ELSE iteration
After(at) == IF iteration < loop.count THEN at ELSE "done"

RangedIteration ==
  /\ loopAt = "ranged"
  /\ iteration' = Advanced /\ loopAt' = After("ranged")
  /\ UNCHANGED <<loop, live>>

\* The guard of an iteration: a null base, a byte that is not addressable
\* and a color that is not the root's are reported.
GuardPasses(k) ==
  loop.bytes > 0 =>
    /\ ~loop.nullBase
    /\ \A a \in IterationBytes(k) : AddressableByte(a)
    /\ \A r \in loop.root : ColorOk(Address(k), r)

GuardedIteration ==
  /\ loopAt = "guarded"
  /\ iteration' = Advanced
  /\ loopAt' = IF GuardPasses(iteration) THEN After("guarded") ELSE "failed"
  /\ UNCHANGED <<loop, live>>

\* The loop's own call releases an object (one: a bound).
Release(o) ==
  /\ loopAt \in {"ranged", "guarded"} /\ loop.releases
  /\ live = DOMAIN Objects /\ o \in live
  /\ live' = live \ {o}
  /\ UNCHANGED <<loop, loopAt, iteration>>

LoopsNext == Choose \/ RangedIteration \/ GuardedIteration
               \/ \E o \in DOMAIN Objects : Release(o)

LoopsSpec == LoopsInit /\ [][LoopsNext]_loopVars

-----------------------------------------------------------------------------
(* Properties.                                                             *)
(***************************************************************************)

\* No iteration of the loop without guards touches a byte that is not
\* addressable, or follows a null base, whatever wraps in the trip's
\* arithmetic and whatever the loop's own calls release.  One whose range
\* starts in a colored object stays in that object, and the iteration's own
\* guard would pass it, color included: the one test of the range's first
\* granule stands for every iteration's, although colors repeat, become a
\* class at an object's end, and are not compared for some roots
\* (rangesAddressable, versionLoop, __weavec_rt_color_ok).
RangedStaysInObject ==
  loopAt = "ranged" /\ loop.bytes > 0 =>
    /\ ~loop.nullBase
    /\ \A a \in IterationBytes(iteration) : AddressableByte(a)
    /\ \A o \in ObjectAt(Range64.low) :
         Objects[o].color # 0 =>
           IterationBytes(iteration) \subseteq ObjectBytes(o) /\ GuardPasses(iteration)
=============================================================================
