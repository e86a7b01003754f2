------------------------------- MODULE Shadow -------------------------------
(***************************************************************************)
(* The shadow memory and the guards that read it (runtime/weavec_rt.h, the  *)
(* shadow part of weavec_alloc.c, weavec_guard.c, weavec_asan.c).           *)
(*                                                                          *)
(* One thread of the program allocates and releases heap slots of two       *)
(* neighbouring regions, registers a global, calls and returns from         *)
(* functions with and without tracked frames, takes dynamic stack objects,  *)
(* leaves frames with a non-local exit, runs frames on a stack it           *)
(* allocated, and poisons and unpoisons its own memory through ASan's       *)
(* interface.  Each step writes the shadow as the code does.  Beside it,    *)
(* `allowed` and `denied` say what the step means to the program: the bytes *)
(* it may access, and those that are no object's.  The guards must agree.   *)
(*                                                                          *)
(* A shadow value is the code's byte.  A granule is G bytes (16 in the      *)
(* code), so that TLC can try every access; a chunk, the granules one load  *)
(* of an inline guard reads, is Chunk granules (8).  What settle clears is  *)
(* part of the decision (Settled); the store of the cleared byte is the     *)
(* action GuardSlow.                                                        *)
(***************************************************************************)
EXTENDS Integers, Sequences, FiniteSets, FiniteSetsExt

CONSTANTS
    G,            \* WeavecRtShadowGranule
    Chunk,        \* granules per eight-byte load of the shadow
    Window,       \* addresses below it have a shadow of their own
    SlotBytes,    \* slot size of the class of both regions
    RegionBases,  \* where the regions start, one after the other
    RegionBytes,  \* 1 << shift
    TailLimit,    \* most of a slot's tail that is poisoned
    GlobalAt, GlobalSize, GlobalPadded,   \* the record of one global
    StackLow, StackTop,                   \* the thread's own stack
    EntryBytes,   \* the frame of the runtime's entry point
    Sizes,        \* sizes the program allocates
    UserBytes,    \* lengths the program passes to ASan's interface
    MaxSteps      \* bound on the program's steps

ASSUME ShadowAssumption ==
    /\ {G, Chunk, Window, SlotBytes, RegionBytes, TailLimit, GlobalPadded,
        StackLow, StackTop, EntryBytes} \cup UserBytes \subseteq Nat \ {0}
    /\ {GlobalAt, GlobalSize, MaxSteps} \cup RegionBases \cup Sizes \subseteq Nat
    /\ IsFiniteSet(RegionBases)
    /\ G <= 16
    /\ \A x \in {Window, SlotBytes, RegionBytes, GlobalAt, GlobalPadded,
                 StackLow, StackTop, TailLimit, EntryBytes} \cup RegionBases :
          x % G = 0
    /\ GlobalSize <= GlobalPadded
    /\ \A n \in Sizes : n < SlotBytes

VARIABLES
    shadow,       \* the shadow byte of each granule of the window
    size,         \* the size of each live slot; Never, or Dead
    committed,    \* the regions that have committed memory
    registered,   \* the global is registered
    frames,       \* the thread's frames, the outermost first
    lost,         \* stackLostColors
    steps,
    allowed,      \* the bytes the program may access
    denied,       \* the bytes that are no object's: a guard must refuse them
    pooled,       \* the bytes outside the heap whose shadow an unpoisoning wrote
    spoiled       \* the bytes of objects whose shadow the runtime overwrote

shadowVars == <<shadow, size, committed, registered, frames, lost, steps, allowed,
          denied, pooled, spoiled>>

-----------------------------------------------------------------------------
(* Shadow values *)

HeapTail == 250
HeapFreed == 253
Returned == 245
StackDynamic == 244
StackRight == 243
UserPoison == 247
GlobalPoison == 249

ShadowFull(v) == v < 128
ShadowPoison(v) == v >= 240
ShadowBytes(v) == v % 16
PartialOf(color, k) == 128 + (color % 8) * 16 + k
ShadowClass(v) == IF v < 128 THEN v % 8 ELSE (v \div 16) % 8

(* weavecRtColor *)
Color(n) == LET m == (n % 111) + 1 IN (m \div 7) * 8 + (m % 7)

Floor(a) == (a \div G) * G
Ceil(a) == Floor(a + G - 1)
InWindow(a) == a >= 0 /\ a < Window
Bytes(a, n) == a .. a + n - 1
Granules == {g \in 0 .. Window - 1 : g % G = 0}
Spanned(a, n) == {i * G : i \in (a \div G) .. ((a + n - 1) \div G)}
ShadowAt(a) == IF InWindow(a) THEN shadow[Floor(a)] ELSE 0

(* weavecRtShadowSet: the last granule, partial, counts whole. *)
ShadowSet(s, base, n, value) ==
    [g \in Granules |-> IF g >= base /\ g < base + n THEN value ELSE s[g]]

(* weavecRtShadowClear: rounded outwards to granules. *)
ShadowClear(s, low, high) ==
    [g \in Granules |-> IF high > low /\ g >= Floor(low) /\ g < high
                        THEN 0 ELSE s[g]]

(* weavecRtShadowObject: whole granules, then a partial one; an empty       *)
(* object's granule is all tail.                                            *)
ShadowObject(s, base, n, tail, color) ==
    LET whole == n \div G
        rest == n % G
        last == base + whole * G
    IN  [g \in Granules |->
            CASE g >= base /\ g < last -> color
              [] g = last /\ rest # 0 -> PartialOf(color, rest)
              [] g = base /\ n = 0 -> tail
              [] OTHER -> s[g]]

-----------------------------------------------------------------------------
(* Heap slots *)

Never == -1
Dead == -2

Capacity == RegionBytes \div SlotBytes
SlotsOf(r) == {r + i * SlotBytes : i \in 0 .. Capacity - 1}
Slots == UNION {SlotsOf(r) : r \in RegionBases}
RegionAt(a) == {r \in RegionBases : a >= r /\ a < r + RegionBytes}
InArena(a) == RegionAt(a) # {}

(* The window holds the regions, the global and the stack apart; the        *)
(* granule before a region may be the last of the region before it.         *)
ASSUME PlacesAssumption ==
    LET global == Bytes(GlobalAt, GlobalPadded)
        stack == Bytes(StackLow, StackTop - StackLow)
    IN  /\ StackLow < StackTop /\ StackTop <= Window
        /\ GlobalAt + GlobalPadded <= Window /\ global \cap stack = {}
        /\ \A r \in RegionBases :
              LET region == Bytes(r - G, G + RegionBytes)
              IN  /\ r >= G /\ r + RegionBytes <= Window
                  /\ region \cap global = {} /\ region \cap stack = {}
                  /\ \A q \in RegionBases \ {r} :
                        Bytes(r, RegionBytes) \cap Bytes(q, RegionBytes) = {}

(* slotOf(a).base; the end of a region that no slot fills counts with the   *)
(* slot after the last, whose word is never written.                        *)
SlotAt(a) == LET r == CHOOSE r \in RegionAt(a) : TRUE
             IN  r + ((a - r) \div SlotBytes) * SlotBytes

RegionIndex(r) == Cardinality({q \in RegionBases : q < r})

(* Mutant: the color of a slot is its region's. *)
ColorOfRegion(a) ==
    IF InArena(a) THEN Color(RegionIndex(CHOOSE r \in RegionAt(a) : TRUE)) ELSE 0

ColorOfHeap(a) ==
    IF InArena(a)
    THEN LET r == CHOOSE r \in RegionAt(a) : TRUE
         IN  Color((a - r) \div SlotBytes + 41 * RegionIndex(r))
    ELSE 0

Found(a) == InArena(a) /\ SlotAt(a) \in Slots /\ size[SlotAt(a)] # Never

ShadowLive(s, base, n, slot) ==
    LET used == Ceil(n)
    IN  ShadowSet(ShadowObject(s, base, n, HeapTail, ColorOfHeap(base)),
                  base + used, Min({slot - used, TailLimit}), HeapTail)

ShadowDead(s, base, slot) == ShadowSet(s, base, slot, HeapFreed)

-----------------------------------------------------------------------------
(* Deciding an access made with the runtime's frame at `here` *)

(* Mutant: a returned frame's mark always counts. *)
SettledNever(g, here) == shadow[g]

(* A returned frame's mark counts below `here`, on the thread's own stack. *)
Settled(g, here) ==
    LET v == shadow[g]
    IN  IF v # Returned \/ (g + G <= here /\ g >= StackLow /\ here < StackTop)
        THEN v ELSE 0

(* The part of [a, a + n) in granule g is addressable. *)
Holds(g, a, n, here) ==
    LET v == Settled(g, here)
        high == Min({g + G, a + n})
    IN  ShadowFull(v) \/ (~ShadowPoison(v) /\ high <= g + ShadowBytes(v))

(* firstUnaddressable: the set of the first byte that is not addressable,   *)
(* empty when there is none or the shadow cannot say.                       *)
FirstUnaddressable(a, n, here) ==
    LET end == Min({a + n, Window})
        bad == {g \in Spanned(a, end - a) : ~Holds(g, a, end - a, here)}
    IN  IF n = 0 \/ ~InWindow(a) \/ bad = {} THEN {}
        ELSE LET g == Min(bad)
                 v == Settled(g, here)
             IN  {Max({a, IF ShadowPoison(v) THEN g ELSE g + ShadowBytes(v)})}

LastSpanned(v, offset) ==
    ShadowFull(v) \/ (~ShadowPoison(v) /\ offset < ShadowBytes(v))

(* weavecRtQuickOk: one load of the shadow. *)
QuickOk(a, n) ==
    \/ n = 0
    \/ LET last == (a % G) + n - 1
       IN  /\ n <= (Chunk - 1) * G + 1
           /\ InWindow(a)
           /\ \A i \in 0 .. last \div G - 1 : ShadowFull(ShadowAt(a + i * G))
           /\ LastSpanned(ShadowAt(Floor(a) + Floor(last)), last % G)

AllAddressable(a, n) ==
    LET last == a + n - 1
    IN  /\ n # 0
        /\ InWindow(a)
        /\ InWindow(last)
        /\ \A g \in Spanned(a, n) \ {Floor(last)} : ShadowFull(shadow[g])
        /\ LastSpanned(shadow[Floor(last)], last % G)

RangeOk(a, n, here) ==
    \/ QuickOk(a, n)
    \/ AllAddressable(a, n)
    \/ FirstUnaddressable(a, n, here) = {}

(* __weavec_rt_strlen of a string at a whose first zero byte is at z: TRUE  *)
(* when it returns.  The scan of its first two granules comes first.        *)
StringOk(a, z, max, here) ==
    LET length == Min({z - a, max})
        scanned == IF length < max THEN length + 1 ELSE max
        quick == /\ max >= 2 * G
                 /\ InWindow(a + 2 * G)
                 /\ \A i \in 0 .. (IF a % G # 0 THEN 2 ELSE 1) :
                       ShadowFull(ShadowAt(a + i * G))
                 /\ z < a + 2 * G
    IN  quick \/ QuickOk(a, scanned) \/ FirstUnaddressable(a, scanned, here) = {}

OnStack(a, here) == a >= here /\ a < StackTop

(* jumpKind: the access at a, computed from root whose shadow byte was v0,  *)
(* passes its color check.                                                  *)
JumpOk(a, root, v0, here) ==
    LET v == ShadowAt(a)
    IN  \/ ~InWindow(a)
        \/ ShadowPoison(v) \/ ShadowPoison(v0)
        \/ v = v0
        \/ (~ShadowFull(v) \/ ~ShadowFull(v0)) /\ ShadowClass(v) = ShadowClass(v0)
        \/ v0 = 0
        \/ v = 0 /\ lost /\ OnStack(a, here)
        \/ /\ Found(root)
           /\ (InArena(a) /\ SlotAt(a) = SlotAt(root)) \/ SlotAt(root) # root

-----------------------------------------------------------------------------
(* The program's steps *)

Sp == IF frames = <<>> THEN StackTop ELSE frames[Len(frames)].low
Here == Sp - EntryBytes
StackBytes == Bytes(StackLow, StackTop - StackLow)

Allow(now, not) ==
    /\ allowed' = (allowed \ not) \cup now
    /\ denied' = (denied \ now) \cup not

(* A granule that is written again tells the truth, but for `bytes`.        *)
Spoil(bytes) ==
    spoiled' = {x \in spoiled : shadow'[Floor(x)] = shadow[Floor(x)]} \cup bytes

(* The first slot of a region commits its memory, poisons it, and poisons   *)
(* the granule before the region.                                           *)
Commit(s, r) ==
    ShadowSet(ShadowSet(s, r, IF SlotBytes <= TailLimit THEN RegionBytes
                              ELSE TailLimit, HeapTail),
              r - G, G, HeapTail)

(* malloc takes slot b of region r. *)
Malloc(r, b, n) ==
    /\ b \in SlotsOf(r)
    /\ size[b] \in {Never, Dead}
    /\ size[b] = Never => \A c \in SlotsOf(r) : c < b => size[c] # Never
    /\ LET s == IF r \in committed THEN shadow ELSE Commit(shadow, r)
       IN  shadow' = ShadowLive(s, b, n, SlotBytes)
    /\ committed' = committed \cup {r}
    /\ size' = [size EXCEPT ![b] = n]
    /\ Allow(Bytes(b, n), Bytes(b + n, Min({SlotBytes - n,
                                            Ceil(n) - n + TailLimit})))
    /\ Spoil(IF r \in committed THEN {} ELSE Bytes(r - G, G) \cap allowed)
    /\ UNCHANGED <<registered, frames, lost, pooled>>

FreeSlot(b) ==
    /\ size[b] >= 0
    /\ shadow' = ShadowDead(shadow, b, SlotBytes)
    /\ size' = [size EXCEPT ![b] = Dead]
    /\ Allow({}, Bytes(b, SlotBytes))
    /\ Spoil({})
    /\ UNCHANGED <<committed, registered, frames, lost, pooled>>

GlobalsRegister ==
    /\ ~registered
    /\ LET used == Ceil(GlobalSize)
       IN  shadow' = ShadowSet(ShadowObject(shadow, GlobalAt, GlobalSize,
                                            GlobalPoison, Color(0)),
                               GlobalAt + used, GlobalPadded - used,
                               GlobalPoison)
    /\ registered' = TRUE
    /\ Allow(Bytes(GlobalAt, GlobalSize),
             Bytes(GlobalAt + GlobalSize, GlobalPadded - GlobalSize))
    /\ Spoil({})
    /\ UNCHANGED <<size, committed, frames, lost, pooled>>

GlobalsUnregister ==
    /\ registered
    /\ shadow' = ShadowClear(shadow, GlobalAt, GlobalAt + GlobalPadded)
    /\ registered' = FALSE
    /\ allowed' = allowed \ Bytes(GlobalAt, GlobalPadded)
    /\ denied' = denied \ Bytes(GlobalAt, GlobalPadded)
    /\ Spoil({})
    /\ UNCHANGED <<size, committed, frames, lost, pooled>>

FrameColor(n) == Color(7 + n)

(* A function with one tracked local of n bytes and a redzone after it. *)
EnterTracked(n) ==
    LET low == Sp - Ceil(n) - G
    IN  /\ low - EntryBytes >= StackLow
        /\ n > 0
        /\ shadow' = ShadowSet(ShadowObject(shadow, low, n, StackRight,
                                            FrameColor(Len(frames))),
                               low + Ceil(n), G, StackRight)
        /\ frames' = Append(frames, [low |-> low, high |-> Sp, obj |-> n,
                                     tracked |-> TRUE, dynamic |-> FALSE])
        /\ Allow(Bytes(low, n), Bytes(low + n, Sp - low - n))
        /\ Spoil({})
    /\ UNCHANGED <<size, committed, registered, lost, pooled>>

(* A function built without WeaveC, or with no tracked local. *)
EnterUntracked ==
    LET low == Sp - 2 * G
    IN  /\ low - EntryBytes >= StackLow
        /\ frames' = Append(frames, [low |-> low, high |-> Sp, obj |-> 0,
                                     tracked |-> FALSE, dynamic |-> FALSE])
        /\ Allow(Bytes(low, 2 * G), {})
        /\ UNCHANGED <<shadow, size, committed, registered, lost, pooled, spoiled>>

(* __weavec_rt_alloca_poison for a dynamic object of n bytes. *)
AllocaPoison(n) ==
    LET padded == (2 * G) * ((n + 2 * G - 1) \div (2 * G)) + 2 * G
        low == Sp - padded
        k == Len(frames)
    IN  /\ frames # <<>>
        /\ frames[k].tracked /\ ~frames[k].dynamic
        /\ low - EntryBytes >= StackLow
        /\ shadow' = ShadowSet(ShadowObject(shadow, low, n, StackDynamic, 0),
                               low + Ceil(n), padded - Ceil(n), StackDynamic)
        /\ frames' = [frames EXCEPT ![k].low = low, ![k].dynamic = TRUE]
        /\ Allow(Bytes(low, n), Bytes(low + n, padded - n))
        /\ Spoil({})
    /\ UNCHANGED <<size, committed, registered, lost, pooled>>

(* A return: dynamic objects are unpoisoned, and a tracked frame is marked  *)
(* as returned (__weavec_rt_frame_shadow, or the stores it stands for).     *)
Leave ==
    LET k == Len(frames)
        f == frames[k]
        static == f.high - Ceil(f.obj) - G
    IN  /\ frames # <<>>
        /\ frames' = SubSeq(frames, 1, k - 1)
        /\ IF f.tracked
           THEN /\ shadow' = ShadowSet(
                                 ShadowClear(shadow, f.low, static),
                                 static, f.high - static, Returned)
                /\ allowed' = allowed \ Bytes(f.low, f.high - f.low)
                /\ denied' = (denied \ Bytes(f.low, static - f.low))
                                 \cup Bytes(static, f.high - static)
           ELSE /\ allowed' = allowed \ Bytes(f.low, f.high - f.low)
                /\ UNCHANGED <<shadow, denied>>
        /\ pooled' = pooled \ Bytes(f.low, f.high - f.low)
        /\ Spoil({})
    /\ UNCHANGED <<size, committed, registered, lost>>

(* longjmp to frame k: the call is preceded by __weavec_rt_unpoison_stack,  *)
(* and the frames below are left without their exits.                       *)
LongJump(k) ==
    /\ k < Len(frames)
    /\ shadow' = ShadowClear(shadow, Here, StackTop)
    /\ lost' = TRUE
    /\ frames' = SubSeq(frames, 1, k)
    /\ allowed' = allowed \ Bytes(Sp, frames'[k].low - Sp)
    /\ denied' = denied \ Bytes(Here, StackTop - Here)
    /\ pooled' = pooled \ Bytes(Sp, frames'[k].low - Sp)
    /\ Spoil({})
    /\ UNCHANGED <<size, committed, registered>>

(* A tracked function has run on a stack in the live block b, and returned. *)
ReturnOnBlock(b) ==
    /\ size[b] >= G
    /\ Bytes(b, G) \subseteq allowed
    /\ shadow' = ShadowSet(shadow, b, G, Returned)
    /\ Spoil({})
    /\ UNCHANGED <<size, committed, registered, frames, lost, allowed, denied, pooled>>

(* The live objects, each with the shadow byte its root's guards compare:   *)
(* the root's own, or for a tracked local the color of its frame's layout.  *)
Objects ==
    {[at |-> b, n |-> size[b], v0 |-> shadow[b]] :
        b \in {c \in Slots : size[c] >= 0}}
    \cup {[at |-> GlobalAt, n |-> GlobalSize, v0 |-> shadow[GlobalAt]] :
             x \in {registered} \ {FALSE}}
    \cup {[at |-> frames[k].high - Ceil(frames[k].obj) - G,
           n |-> frames[k].obj, v0 |-> FrameColor(k - 1)] :
             k \in {k \in DOMAIN frames : frames[k].tracked}}

(* The program names bytes of one of its objects. *)
AsanPoison(a, n) ==
    /\ LET low == Ceil(a)
           high == Floor(a + n)
       IN  /\ shadow' = IF high > low
                        THEN ShadowSet(shadow, low, high - low, UserPoison)
                        ELSE shadow
           /\ allowed' = allowed \ Bytes(a, n)
           /\ denied' = denied \cup low .. high - 1
    /\ Spoil({})
    /\ UNCHANGED <<size, committed, registered, frames, lost, pooled>>

(* Where it ends inside a poisoned granule, the granule becomes the end of  *)
(* an object, though the poison was a stale mark on bytes of one.           *)
AsanUnpoison(a, n) ==
    /\ LET low == Floor(a)
           end == a + n
           color == ColorOfHeap(a)
           last == ShadowAt(end)
           partial == /\ end % G # 0
                      /\ \/ ShadowPoison(last)
                         \/ ~ShadowFull(last) /\ ShadowBytes(last) < end % G
           written == IF partial THEN Floor(end) + G ELSE end
       IN  /\ shadow' = [g \in Granules |->
                  CASE g >= low /\ g < Floor(end) -> color
                    [] g = Floor(end) /\ partial -> PartialOf(color, end % G)
                    [] OTHER -> shadow[g]]
           /\ Spoil((end .. written - 1) \cap allowed)
           /\ pooled' = IF InArena(a) THEN pooled ELSE pooled \cup low .. written - 1
    /\ allowed' = allowed \cup Bytes(a, n)
    /\ denied' = denied \ (Floor(a) .. a + n - 1)
    /\ UNCHANGED <<size, committed, registered, frames, lost>>

(* A guard on granule g runs its slow path: a stale mark is cleared.  The   *)
(* bytes are another frame's now, the guard's own included.                 *)
GuardSlow(g) ==
    /\ Settled(g, Here) # shadow[g]
    /\ shadow' = [shadow EXCEPT ![g] = Settled(g, Here)]
    /\ denied' = denied \ Bytes(g, G)
    /\ Spoil({})
    /\ UNCHANGED <<size, committed, registered, frames, lost, allowed, pooled>>

ShadowInit ==
    /\ shadow = [g \in Granules |-> 0]
    /\ size = [b \in Slots |-> Never]
    /\ committed = {}
    /\ registered = FALSE
    /\ frames = <<>>
    /\ lost = FALSE
    /\ steps = 0
    /\ allowed = {}
    /\ denied = {}
    /\ pooled = {}
    /\ spoiled = {}

Step ==
    \/ \E r \in RegionBases, b \in Slots, n \in Sizes : Malloc(r, b, n)
    \/ \E b \in Slots : FreeSlot(b) \/ ReturnOnBlock(b)
    \/ GlobalsRegister \/ GlobalsUnregister
    \/ \E n \in Sizes : EnterTracked(n) \/ AllocaPoison(n)
    \/ EnterUntracked
    \/ Leave
    \/ \E k \in 1 .. Len(frames) : LongJump(k)
    \/ \E o \in Objects, n \in UserBytes : \E a \in o.at .. o.at + o.n - n :
          AsanPoison(a, n) \/ AsanUnpoison(a, n)
    \/ \E g \in Granules : GuardSlow(g)

ShadowNext == steps < MaxSteps /\ steps' = steps + 1 /\ Step

ShadowSpec == ShadowInit /\ [][ShadowNext]_shadowVars

-----------------------------------------------------------------------------
(* Properties *)

(* Every variable stays in its type; the shadow holds only the bytes that   *)
(* the encoding of weavec_rt.h defines.                                     *)
ShadowTypeOK ==
    /\ \A g \in DOMAIN shadow :
          \/ shadow[g] = 0
          \/ shadow[g] \in 1 .. 126 /\ ShadowClass(shadow[g]) # 7
          \/ shadow[g] \in 129 .. 239 /\ ShadowBytes(shadow[g]) \in 1 .. G - 1
          \/ shadow[g] \in {HeapTail, HeapFreed, Returned, StackDynamic,
                            StackRight, UserPoison, GlobalPoison}
    /\ \A b \in Slots : size[b] \in {Never, Dead} \cup Sizes
    /\ committed \subseteq RegionBases
    /\ registered \in BOOLEAN /\ lost \in BOOLEAN
    /\ allowed \cap denied = {}
    /\ steps \in 0 .. MaxSteps

(* What the properties ask about: each byte whose granule has a shadow,     *)
(* with the lengths on either side of a granule.                            *)
Asked == UNION {g .. g + G - 1 : g \in DOMAIN shadow}
Edges == {a \in Asked : a % G \in {0, G - 1}}

(* The bytes a guard must refuse now: those just below the stack pointer    *)
(* are the guard's own frame.                                               *)
Refused == denied \ Bytes(Here, EntryBytes)

(* A guard passes every access whose bytes the program may access: whatever *)
(* frames returned there before, whatever it poisoned and unpoisoned, and   *)
(* after a non-local exit (firstUnaddressable, settle).  Spoiled bytes,     *)
(* which a region's first commit or an unpoisoning that ends in their       *)
(* granule made unaddressable, are apart.                                   *)
NoFalseAlarm ==
    LET here == Here
        told == allowed \ spoiled
    IN  \A a \in Asked, n \in {1, G + 1} :
            Bytes(a, n) \subseteq told
               => FirstUnaddressable(a, n, here) = {}

(* A guard refuses every access that touches a byte of no object (a         *)
(* redzone, a tail, a released slot, a frame that returned, a poisoned      *)
(* granule), and names the first such byte where none before it is spoiled. *)
NoMissedByte ==
    LET here == Here
        refused == Refused
        told == allowed \ spoiled
    IN  \A a \in Asked, n \in {1, G + 1} :
            LET bad == Bytes(a, n) \cap refused
                first == FirstUnaddressable(a, n, here)
            IN  bad # {} => /\ first # {}
                            /\ Bytes(a, n) \ refused \subseteq told
                                  => first = {Min(bad)}

(* The short forms decide as the full one: weavecRtQuickOk and              *)
(* allAddressable never pass what it refuses, and only a returned frame's   *)
(* stale mark makes them ask it about bytes it passes.                      *)
FastPathsAgree ==
    LET here == Here
    IN  \A a \in Edges, n \in {2, G + 1, 2 * G} :
            LET full == FirstUnaddressable(a, n, here) = {}
                quick == QuickOk(a, n)
                all == AllAddressable(a, n)
                stale == \E g \in Spanned(a, n) : ShadowAt(g) = Returned
            IN  /\ quick \/ all => full
                /\ full /\ ~stale /\ a + n <= Window
                      => all /\ (n <= (Chunk - 1) * G + 1 => quick)
                /\ StringOk(a, a + n - 1, 3 * G, here) <=> full

(* Whatever the program did to its memory, a guard in any of its forms      *)
(* passes the bytes of objects that are not spoiled and refuses those of no *)
(* object (firstUnaddressable, settle, weavecRtQuickOk, allAddressable,     *)
(* stringLength).                                                           *)
GuardsExact == NoFalseAlarm /\ NoMissedByte /\ FastPathsAgree

(* A color check never stops an access inside the object it was computed    *)
(* from (jumpKind), though the object's colors were lost to a non-local     *)
(* exit, to a stale mark or to ASan's interface.  Objects outside the heap  *)
(* that the program unpoisoned (pooled) are apart.                          *)
ColorsKeepObject ==
    \A o \in {p \in Objects : p.at \notin pooled} :
        \A a \in (Bytes(o.at, o.n) \cap allowed) \ pooled :
            JumpOk(a, o.at, o.v0, Here)

(* A jump from the start of one heap object over its redzone into the next  *)
(* live object fails its color check, whatever the sizes of the two.        *)
ColorsSeparateNeighbours ==
    \A b \in Slots :
        LET c == b + SlotBytes
        IN  size[b] >= 0 /\ c \in Slots /\ RegionAt(b) = RegionAt(c)
            /\ shadow[b] # 0 /\ ~ShadowPoison(shadow[b])
            => \A a \in (Bytes(c, SlotBytes) \cap allowed) \ spoiled :
                  shadow[Floor(a)] \notin {0, Returned}
                     => ~JumpOk(a, b, shadow[b], Here)

(* A pointer computed from an object may reach that object and not the next *)
(* (weavecRtColorOfHeap, jumpKind).                                         *)
ColorsExact == ColorsKeepObject /\ ColorsSeparateNeighbours
=============================================================================
