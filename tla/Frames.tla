------------------------------- MODULE Frames -------------------------------
(***************************************************************************)
(* Stack frames (lib/Frontend/GuardFrames.cpp): where layoutStatic puts    *)
(* the tracked locals of a function, and the shadow its code writes at the *)
(* entry, where a local's scope starts and ends, and at the exits;         *)
(* layoutDynamic's redzone after an alloca of a computed size.             *)
(*                                                                         *)
(* Init is a function: its locals in layout order (larger alignments       *)
(* first), which of them have lifetime markers, and which pairs of those   *)
(* LLVM's StackLifetime says may live at once.  The steps are one call of  *)
(* it, in which two locals are in scope at once only if StackLifetime said *)
(* so, and a scope ends only where it is open.                             *)
(***************************************************************************)
EXTENDS Naturals, Sequences, FiniteSets, FiniteSetsExt

CONSTANTS LocalSizes, LocalAligns, MaxLocals,
          LeftZone, FrameAlign, ShareAbove,
          DynamicSizes, DynamicGranules  \* the stack below the frame, and the
                                         \* sizes of the allocas made there

VARIABLES locals, mayMeet, offsets, frameSize,  \* the function's layout
          frameAt, inScope, frameShadow,        \* the call
          stackPointer, allocas, stackShadow

\* Zones and alignments are whole granules, as the constants of
\* GuardFrames.cpp and the powers of two of alignments are.
ASSUME FrameAssumption ==
  /\ LocalSizes \subseteq Nat /\ LocalAligns \subseteq Nat /\ DynamicSizes \subseteq Nat
  /\ {MaxLocals, ShareAbove, DynamicGranules} \subseteq Nat
  /\ {LeftZone, FrameAlign} \subseteq Nat \ {0}
  /\ LeftZone % 16 = 0 /\ FrameAlign % 16 = 0
  /\ \A align \in LocalAligns : align > FrameAlign => align % 16 = 0

layoutVars == <<locals, mayMeet, offsets, frameSize>>
dynamicVars == <<stackPointer, allocas, stackShadow>>
frameVars == <<layoutVars, frameAt, inScope, frameShadow, dynamicVars>>

Granule == 16
RoundUp(n, to) == ((n + to - 1) \div to) * to
Granules(size) == (size + Granule - 1) \div Granule
Clamp(n, low, high) == Max({low, Min({n, high})})

PaddedSize(size) == RoundUp(size + Clamp(size \div 8, 32, 4096), 32)

\* Shadow values: poison of a kind, or the k-th granule of an object.
Poison(kind) == [kind |-> kind, of |-> 0, bytes |-> 0]
Whole(i) == [kind |-> "object", of |-> i, bytes |-> Granule]
Partial(i, k) == [kind |-> "object", of |-> i, bytes |-> k]
IsPoison(value) == value.kind # "object"

\* objectRuns: the value of granule k of object i.
ObjectRun(i, size, k) == IF k < size \div Granule THEN Whole(i)
                         ELSE Partial(i, size % Granule)

-----------------------------------------------------------------------------
(* The layout.                                                             *)
(***************************************************************************)
Scoped == {i \in DOMAIN locals : locals[i].scoped}
SizeOf(i) == locals[i].size
Covered(i) == (offsets[i] \div Granule) ..
                 (offsets[i] \div Granule + Granules(SizeOf(i)) - 1)
Redzone(i) == (offsets[i] \div Granule + Granules(SizeOf(i))) ..
                 ((offsets[i] + PaddedSize(SizeOf(i))) \div Granule - 1)

\* Whether object i at offset `at` would meet the extent of object j, placed
\* at o[j], while both live.
Clash(of, meets, at, j, o, i) ==
  /\ at < o[j] + PaddedSize(of[j].size)
  /\ o[j] < at + PaddedSize(of[i].size)
  /\ {i, j} \in meets

\* place, for object i: the first of the offsets the loop tries, the lowest
\* one and the end of each extent before it, where it clashes with none.
Spot(of, meets, before, i) ==
  LET align == Max({FrameAlign, of[i].align})
      ends == {LeftZone} \cup {before[j] + PaddedSize(of[j].size) : j \in 1..(i - 1)}
  IN Min({o \in {RoundUp(e, align) : e \in ends} :
            \A j \in 1..(i - 1) : ~Clash(of, meets, o, j, before, i)})

\* place, for every object in turn.
Placed(of, meets) ==
  LET at[i \in 0..Len(of)] ==
        IF i = 0 THEN <<>> ELSE Append(at[i - 1], Spot(of, meets, at[i - 1], i))
  IN at
Place(of, meets) == Placed(of, meets)[Len(of)]

SizeFor(of, o) == Max({LeftZone} \cup {o[i] + PaddedSize(of[i].size)
                                        : i \in DOMAIN o})

\* Two objects live together unless both have markers and their ranges do
\* not overlap; sharing is tried only in a frame that is large without it.
Pairs(of) == {{i, j} : i, j \in DOMAIN of}

Together(of, overlaps) ==
  {p \in Pairs(of) : (\E i \in p : ~of[i].scoped) \/ p \in overlaps}

Layout(of, overlaps) ==
  LET apart == Place(of, Pairs(of))
  IN IF SizeFor(of, apart) > ShareAbove /\ \E i \in DOMAIN of : of[i].scoped
     THEN Place(of, Together(of, overlaps)) ELSE apart

-----------------------------------------------------------------------------
(* The shadow written at entry: each stretch between two boundaries takes  *)
(* the value of its first granule.                                         *)
(***************************************************************************)
ObjectsEnd == Max({0} \cup {offsets[i] + SizeOf(i) : i \in DOMAIN locals})
Cuts == {0, LeftZone \div Granule, Granules(ObjectsEnd)}
          \cup {offsets[i] \div Granule : i \in DOMAIN locals}
          \cup {(offsets[i] \div Granule) + (SizeOf(i) \div Granule)
                  : i \in DOMAIN locals}
          \cup {(offsets[i] \div Granule) + Granules(SizeOf(i))
                  : i \in DOMAIN locals}

EntryAt(g) ==
  LET on == {i \in DOMAIN locals : g \in Covered(i)}
      own == on \ Scoped   \* at most one: it shares its bytes with none
  IN IF g >= Granules(ObjectsEnd) THEN Poison("right")
     ELSE IF own # {}
          THEN LET i == Max(own)
               IN ObjectRun(i, SizeOf(i), g - offsets[i] \div Granule)
     ELSE IF on # {} /\ g >= LeftZone \div Granule THEN Poison("scope")
     ELSE IF g < LeftZone \div Granule THEN Poison("left") ELSE Poison("mid")

EntryShadow ==
  [g \in 0..(frameSize \div Granule - 1) |-> EntryAt(Max({c \in Cuts : c <= g}))]

-----------------------------------------------------------------------------
(* A call.                                                                 *)
(***************************************************************************)
ReturnedFrame == [g \in 0..(frameSize \div Granule - 1) |-> Poison("returned")]
Addressable == [kind |-> "object", of |-> 0, bytes |-> Granule]
Stack == 0..(DynamicGranules - 1)

FramesInit ==
  /\ \E n \in 0..MaxLocals :
       locals \in [1..n -> [size : LocalSizes, align : LocalAligns,
                            scoped : BOOLEAN]]
  /\ \A i, j \in DOMAIN locals : i < j => locals[i].align >= locals[j].align
  /\ mayMeet \in SUBSET {{i, j} : i, j \in Scoped}
  /\ \A i \in Scoped : {i} \in mayMeet
  /\ offsets = Layout(locals, mayMeet)
  /\ frameSize = SizeFor(locals, offsets)
  /\ frameAt = "out" /\ inScope = {}
  /\ frameShadow = ReturnedFrame
  /\ stackPointer = DynamicGranules /\ allocas = <<>>
  /\ \E old \in {Addressable} \cup
                  (IF Len(locals) <= 1 THEN {Poison("returned")} ELSE {}) :
       stackShadow = [g \in Stack |-> old]

Enter ==
  /\ frameAt = "out"
  /\ frameAt' = "in"
  /\ frameShadow' = EntryShadow
  /\ inScope' = DOMAIN locals \ Scoped
  /\ UNCHANGED <<layoutVars, dynamicVars>>

\* A redzone another object's bytes reach into is written again.
SharesRedzone(i) ==
  \E j \in DOMAIN locals \ {i} :
    /\ offsets[j] < offsets[i] + PaddedSize(SizeOf(i))
    /\ offsets[i] + SizeOf(i) < offsets[j] + SizeOf(j)

\* The shadow a lifetime.start of object i leaves.
StartShadow(i) ==
  [g \in DOMAIN frameShadow |->
     IF g \in Covered(i)
     THEN ObjectRun(i, SizeOf(i), g - offsets[i] \div Granule)
     ELSE IF SharesRedzone(i) /\ g \in Redzone(i) THEN Poison("mid")
     ELSE frameShadow[g]]

ScopeStart(i) ==
  /\ frameAt = "in" /\ i \in Scoped
  /\ \A j \in inScope \cap Scoped : {i, j} \in mayMeet
  /\ inScope' = inScope \cup {i}
  /\ frameShadow' = StartShadow(i)
  /\ UNCHANGED <<layoutVars, frameAt, dynamicVars>>

\* Mutant: the granule that the object only fills in part is forgotten.
ScopeEndWhole(i) ==
  /\ frameAt = "in" /\ i \in inScope \cap Scoped
  /\ inScope' = inScope \ {i}
  /\ frameShadow' = [g \in DOMAIN frameShadow |->
                       IF g \in Covered(i) /\
                          g < offsets[i] \div Granule + SizeOf(i) \div Granule
                       THEN Poison("scope") ELSE frameShadow[g]]
  /\ UNCHANGED <<layoutVars, frameAt, dynamicVars>>

ScopeEnd(i) ==
  /\ frameAt = "in" /\ i \in inScope \cap Scoped
  /\ inScope' = inScope \ {i}
  /\ frameShadow' = [g \in DOMAIN frameShadow |->
                       IF g \in Covered(i) THEN Poison("scope")
                       ELSE frameShadow[g]]
  /\ UNCHANGED <<layoutVars, frameAt, dynamicVars>>

\* An alloca in a frame of few locals: rounded to 32 and 32 more.
\* __weavec_rt_alloca_poison writes the object and its redzone.
DynamicPadded(size) == RoundUp(size, 32) + 32
DynamicAlloca(size) ==
  LET low == stackPointer - DynamicPadded(size) \div Granule
  IN /\ frameAt = "in" /\ Len(locals) <= 1
     /\ DynamicPadded(size) \div Granule <= stackPointer
     /\ stackPointer' = low
     /\ allocas' = Append(allocas, [at |-> low, size |-> size])
     /\ stackShadow' =
          [g \in Stack |->
             IF g \in low..(low + Granules(size) - 1)
             THEN ObjectRun(Len(allocas) + 1, size, g - low)
             ELSE IF g \in low..(stackPointer - 1) THEN Poison("dynamic")
             ELSE stackShadow[g]]
     /\ UNCHANGED <<layoutVars, frameAt, inScope, frameShadow>>

\* __weavec_rt_alloca_unpoison.
Unpoisoned(low, high) ==
  [g \in Stack |-> IF g \in low..(high - 1) THEN Addressable
                   ELSE stackShadow[g]]

\* A stackrestore frees the allocas made since its stacksave.
StackRestore(n) ==
  LET to == IF n = 0 THEN DynamicGranules ELSE allocas[n].at
  IN /\ frameAt = "in" /\ n \in 0..(Len(allocas) - 1)
     /\ stackShadow' = Unpoisoned(stackPointer, to)
     /\ stackPointer' = to
     /\ allocas' = SubSeq(allocas, 1, n)
     /\ UNCHANGED <<layoutVars, frameAt, inScope, frameShadow>>

Return ==
  /\ frameAt = "in"
  /\ frameAt' = "out" /\ inScope' = {}
  /\ frameShadow' = ReturnedFrame
  /\ stackShadow' = IF allocas = <<>> THEN stackShadow
                    ELSE Unpoisoned(stackPointer, DynamicGranules)
  /\ stackPointer' = DynamicGranules /\ allocas' = <<>>
  /\ UNCHANGED layoutVars

FramesNext == \/ Enter \/ Return
              \/ \E i \in DOMAIN locals : ScopeStart(i) \/ ScopeEnd(i)
              \/ \E size \in DynamicSizes : DynamicAlloca(size)
              \/ \E n \in 0..Len(allocas) : StackRestore(n)

FramesSpec == FramesInit /\ [][FramesNext]_frameVars

-----------------------------------------------------------------------------
(* Properties.                                                             *)
(***************************************************************************)

\* While a local is in scope its shadow says exactly its bytes, in its
\* color, though other locals' scopes began and ended in the same frame.
LocalsAddressable ==
  \A i \in inScope : \A g \in Covered(i) :
    frameShadow[g] = ObjectRun(i, SizeOf(i), g - offsets[i] \div Granule)

\* While a local is in scope the granule before it and its whole redzone are
\* poison, and no other local in scope has bytes there.
LocalRedzonesPoison ==
  \A i \in inScope :
    \A g \in Redzone(i) \cup {offsets[i] \div Granule - 1} :
      /\ IsPoison(frameShadow[g])
      /\ \A j \in inScope : g \notin Covered(j)

\* Bytes of the frame that belong to no local in scope are poison: those of
\* a local before its scope and after it, and the whole frame once its
\* function returned.
OutOfScopePoison ==
  \A g \in DOMAIN frameShadow :
    (\A i \in inScope : g \notin Covered(i)) => IsPoison(frameShadow[g])

\* An alloca is addressable in its bytes and poisoned after them until the
\* stack pointer moves back over it, and no redzone of an alloca stays
\* behind below the stack pointer.
AllocasExact ==
  /\ \A n \in DOMAIN allocas :
       LET a == allocas[n]
           end == IF n = 1 THEN DynamicGranules ELSE allocas[n - 1].at
       IN \A g \in a.at..(end - 1) :
            stackShadow[g] = IF g < a.at + Granules(a.size)
                             THEN ObjectRun(n, a.size, g - a.at)
                             ELSE Poison("dynamic")
  /\ \A g \in 0..(stackPointer - 1) :
       stackShadow[g] \in {Addressable, Poison("returned")}

\* At every moment of a call the shadow of the stack says what is in scope:
\* of the frame and of the allocas below it (layoutStatic, layoutDynamic).
FrameShadowExact ==
  LocalsAddressable /\ LocalRedzonesPoison /\ OutOfScopePoison /\ AllocasExact
=============================================================================
