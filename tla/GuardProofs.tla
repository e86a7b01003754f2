---------------------------- MODULE GuardProofs -----------------------------
(***************************************************************************)
(* Proofs about the compiler's guards: a loop that runs without them stays *)
(* in the bytes its one test found good, for any objects, steps and width  *)
(* of an address; a guard that a rule removes is not missed in any         *)
(* execution of any function, whatever its graph; and the inline forms     *)
(* report exactly the accesses that are not good, for any granule and any  *)
(* shadow.  And about its frames: the shadow of the stack is that of what  *)
(* is in scope, for any locals and allocas.                                *)
(***************************************************************************)
EXTENDS GuardRules, LoopGuards, InlineChecks, Frames, SequenceTheorems,
        NaturalsInduction, WellFoundedInduction, TLAPS

-----------------------------------------------------------------------------
(* Ranged loops.  The bytes of an iteration, when nothing overflows, are   *)
(* bytes of the range; and a range whose bytes are all some object's never *)
(* leaves the colored object it begins in, since the byte that ends it is  *)
(* nobody's.  There one color test stands for all.                         *)
(***************************************************************************)

\* A value in range is its own remainder (the 64-bit arithmetic of the test).
LEMMA WrapNone ==
  ASSUME NEW m \in Int, NEW n \in 0..(m - 1)
  PROVE  n % m = n
  OBVIOUS

\* A step taken at most count times moves at most count steps far.
LEMMA TripBounds ==
  ASSUME NEW count \in Nat, NEW k \in 0..count, NEW m \in Nat
  PROVE  /\ k * m \in Nat /\ count * m \in Nat
         /\ k * m <= count * m
<1>1. k \in Nat /\ count - k \in Nat
  OBVIOUS
<1>2. (count - k) * m \in Nat /\ k * m \in Nat /\ count * m \in Nat
  BY <1>1
<1>3. (count - k) * m = count * m - k * m
  BY <1>1
<1> QED BY <1>2, <1>3

LoopRecords == [start : Addresses, step : Steps, bytes : Widths,
                count : Trips, root : {{}} \cup {{r} : r \in LoopRoots},
                nullBase : BOOLEAN, releases : BOOLEAN]

\* An address is below 2^Bits; the existence of one says there are some.
Top == 2 ^ Bits

LEMMA Space ==
  ASSUME loop \in LoopRecords
  PROVE  /\ Top \in Nat \ {0}
         /\ Addresses = 0..(Top - 1)
         /\ loop.start \in 0..(Top - 1) /\ loop.count \in Nat
         /\ loop.step \in Int /\ loop.bytes \in Nat
         /\ loop.root \subseteq Nat
<1>1. 2 ^ Bits \in Int
  BY LoopAssumption
<1>2. loop.start \in 0..(2 ^ Bits - 1) /\ loop.count \in 0..(2 ^ Bits - 1)
  BY LoopAssumption DEF LoopRecords, Addresses
<1>3. loop.step \in Int /\ loop.bytes \in Nat
  BY LoopAssumption DEF LoopRecords
<1>4. loop.root \subseteq Nat
  BY LoopAssumption DEF LoopRecords
<1> QED BY <1>1, <1>2, <1>3, <1>4 DEF Addresses, Top

\* An address is its own wrapped value.
LEMMA Wrapped ==
  ASSUME loop \in LoopRecords, NEW n \in Addresses
  PROVE  WrappedValue(n) = n
<1>1. Top \in Int /\ n \in 0..(Top - 1)
  BY Space
<1>2. n % Top = n
  BY <1>1, WrapNone
<1> QED BY <1>2 DEF Top, WrappedValue

\* The range of a trip that does not overflow, in numbers that do not wrap.
Magnitude == IF loop.step < 0 THEN -loop.step ELSE loop.step
Span == loop.count * Magnitude
TripLow == IF loop.step < 0 THEN loop.start - Span ELSE loop.start
TripLast == IF loop.step > 0 THEN loop.start + Span ELSE loop.start

LEMMA RangeOf ==
  ASSUME loop \in LoopRecords, ~Range64.overflow
  PROVE  /\ Range64.low = TripLow /\ TripLow \in Nat /\ TripLast \in Nat
         /\ TripLast + loop.bytes < Top
         /\ Range64.length = (TripLast + loop.bytes) - TripLow
         /\ Range64.length \in Int /\ Range64.low + Range64.length < Top
<1> DEFINE span == Checked(Span)
           last == IF loop.step > 0 THEN Checked(loop.start + span.value)
                   ELSE Checked(loop.start)
           low == IF loop.step < 0 THEN Checked(loop.start - span.value)
                  ELSE Checked(loop.start)
           high == Checked(last.value + loop.bytes)
<1>1. Magnitude \in Nat /\ Span \in Int
  BY Space DEF Magnitude, Span
<1>2. /\ Range64.low = low.value
      /\ Range64.length = WrappedValue(high.value - low.value)
      /\ ~span.overflow /\ ~last.overflow /\ ~low.overflow /\ ~high.overflow
  BY DEF Range64, Span, Magnitude
<1>3. ASSUME NEW n \in Int, ~Checked(n).overflow
      PROVE  n \in Addresses /\ Checked(n).value = n
  <2>1. n \in Addresses /\ Checked(n).value = WrappedValue(n)
    BY <1>3 DEF Checked
  <2> QED BY <2>1, Wrapped
<1>4. span.value = Span /\ Span \in Addresses
  BY <1>1, <1>2, <1>3
<1>5. low.value = TripLow /\ TripLow \in Addresses
  BY <1>1, <1>2, <1>3, <1>4, Space DEF TripLow
<1>6. last.value = TripLast /\ TripLast \in Addresses
  BY <1>1, <1>2, <1>3, <1>4, Space DEF TripLast
<1> HIDE DEF span, last, low
<1>7. high.value = TripLast + loop.bytes /\ TripLast + loop.bytes \in Addresses
  BY <1>2, <1>3, <1>6, Space
<1> HIDE DEF high
<1>8. TripLow <= TripLast
  BY <1>1, <1>4, Space DEF TripLow, TripLast
<1>9. (TripLast + loop.bytes) - TripLow \in Addresses
  BY <1>5, <1>6, <1>7, <1>8, Space
<1>10. Range64.low = TripLow /\ Range64.length = (TripLast + loop.bytes) - TripLow
  BY <1>2, <1>5, <1>7, <1>9, Wrapped
<1>11. /\ TripLow \in Nat /\ TripLast \in Nat /\ TripLast + loop.bytes < Top
       /\ loop.bytes \in Nat
  BY <1>5, <1>6, <1>7, Space
<1> QED BY <1>10, <1>11

\* Every byte of every iteration is a byte of that range (rangesAddressable:
\* "the bytes of the whole trip").
LEMMA IterationInRange ==
  ASSUME loop \in LoopRecords, ~Range64.overflow,
         NEW k \in 0..loop.count, NEW a \in IterationBytes(k)
  PROVE  /\ a \in Nat
         /\ a - Range64.low \in 0..(Range64.length - 1)
<1> DEFINE at == loop.start + k * loop.step
<1>1. Magnitude \in Nat /\ loop.count \in Nat
  BY Space DEF Magnitude
<1>2. k * Magnitude \in Nat /\ Span \in Nat /\ k * Magnitude <= Span
  BY <1>1, TripBounds DEF Span
<1>3. k \in Nat /\ loop.start \in Nat /\ loop.step \in Int
  BY <1>1, Space
<1>4. at \in Int /\ TripLow <= at /\ at <= TripLast
  <2>1. CASE loop.step < 0
    <3>1. Magnitude = -loop.step
      BY <2>1 DEF Magnitude
    <3>2. k * loop.step = -(k * Magnitude)
      BY <1>3, <3>1
    <3> QED BY <1>2, <1>3, <2>1, <3>2 DEF TripLow, TripLast
  <2>2. CASE loop.step > 0
    <3>1. Magnitude = loop.step
      BY <1>3, <2>2 DEF Magnitude
    <3> QED BY <1>2, <1>3, <2>2, <3>1 DEF TripLow, TripLast
  <2>3. CASE loop.step = 0
    BY <1>3, <2>3 DEF TripLow, TripLast
  <2> QED BY <1>3, <2>1, <2>2, <2>3
<1> HIDE DEF at
<1>5. PICK i \in 0..(loop.bytes - 1) : a = WrappedValue(Address(k) + i)
  BY DEF IterationBytes
<1>6. /\ TripLow \in Nat /\ TripLast \in Nat /\ TripLast + loop.bytes < Top
      /\ loop.bytes \in Nat /\ Top \in Nat
  BY RangeOf, Space
<1>7. at \in Nat /\ i \in Nat /\ i < loop.bytes /\ at + i < Top
  BY <1>4, <1>6
<1>8. at \in Addresses /\ at + i \in Addresses
  BY <1>7, Space
<1>9. Address(k) = at /\ a = at + i
  BY <1>5, <1>8, Wrapped DEF Address, at
<1>10. Range64.low = TripLow /\ Range64.length = (TripLast + loop.bytes) - TripLow
  BY RangeOf
<1> QED BY <1>4, <1>7, <1>9, <1>6, <1>10

\* What the test promises of a byte of the range: it is some object's, and
\* when the range starts in a colored object, that object's.  Were it
\* another's, the first one's end would be in the range too, and it is nobody's.
LEMMA RangeStays ==
  ASSUME loop \in LoopRecords, live \subseteq DOMAIN Objects, RangesAddressable,
         NEW a \in Nat, a - Range64.low \in 0..(Range64.length - 1)
  PROVE  /\ AddressableByte(a)
         /\ \A o \in ObjectAt(Range64.low) :
              Objects[o].color # 0 => a \in ObjectBytes(o)
<1>1. /\ ~Range64.overflow
      /\ \A i \in 0..(Range64.length - 1) : AddressableByte(WrappedValue(Range64.low + i))
  BY DEF RangesAddressable
<1>2. /\ Range64.low \in Nat /\ Range64.length \in Int /\ Top \in Nat
      /\ Range64.low + Range64.length < Top
  BY <1>1, RangeOf, Space
<1>3. ASSUME NEW b \in Int, Range64.low <= b, b <= a
      PROVE  AddressableByte(b)
  <2>1. b - Range64.low \in 0..(Range64.length - 1) /\ b \in 0..(Top - 1)
    BY <1>2, <1>3
  <2>2. Range64.low + (b - Range64.low) = b
    BY <1>2
  <2>3. WrappedValue(b) = b
    BY <2>1, Space, Wrapped
  <2> QED BY <1>1, <2>1, <2>2, <2>3
<1>4. AddressableByte(a)
  BY <1>2, <1>3
<1>5. ASSUME NEW o \in ObjectAt(Range64.low), Objects[o].color # 0,
             a \notin ObjectBytes(o)
      PROVE  FALSE
  <2> DEFINE e == Objects[o].end
  <2>1. PICK p \in live : a \in ObjectBytes(p)
    BY <1>4 DEF AddressableByte, ObjectAt
  <2>2. /\ o \in live /\ Range64.low \in ObjectBytes(o) /\ p # o
        /\ \A q \in live : Objects[q].first \in Nat /\ Objects[q].end \in Nat
    BY <1>5, <2>1, LoopAssumption DEF ObjectAt
  <2>3. Apart(o, p)
    BY <2>1, <2>2, LoopAssumption
  <2>4. Range64.low <= e /\ e <= a /\ e \in Int
    <3>1. /\ e \in Nat /\ Range64.low < e /\ Objects[o].first <= Range64.low
          /\ Objects[p].first <= a /\ a < Objects[p].end /\ Range64.low <= a
      BY <1>2, <2>1, <2>2 DEF ObjectBytes
    <3> QED BY <1>2, <1>5, <2>1, <2>2, <2>3, <3>1 DEF Apart, Before
  <2>5. PICK q \in live : e \in ObjectBytes(q)
    BY <1>3, <2>4 DEF AddressableByte, ObjectAt
  <2>6. q # o
    BY <2>5, <2>2 DEF ObjectBytes
  <2>7. Apart(o, q)
    BY <2>2, <2>5, <2>6, LoopAssumption
  <2> QED BY <1>5, <2>2, <2>4, <2>5, <2>7 DEF Apart, Before, ObjectBytes
<1> QED BY <1>4, <1>5

\* A granule starts at or before its bytes; one at or after an aligned byte
\* starts there at the earliest, and two bytes of one granule have one start.
LEMMA GranuleFacts ==
  ASSUME NEW n \in Nat
  PROVE  /\ GranuleFirst(n) \in Nat /\ GranuleFirst(n) <= n
         /\ \A f \in Nat : f % ShadowGranule = 0 /\ f <= n => f <= GranuleFirst(n)
         /\ \A m \in Nat : n <= m /\ m < GranuleFirst(n) + ShadowGranule
              => GranuleFirst(m) = GranuleFirst(n)
<1> DEFINE g == ShadowGranule
           k == n \div g
<1>1. g \in Nat \ {0}
  BY LoopAssumption
<1> HIDE DEF g
<1>2. ASSUME NEW m \in Nat
      PROVE  /\ m \div g \in Nat /\ m % g \in 0..(g - 1) /\ m = g * (m \div g) + (m % g)
             /\ m - (m % g) = g * (m \div g)
  BY <1>1
<1>3. k \in Nat /\ GranuleFirst(n) = g * k /\ n % g \in 0..(g - 1) /\ n = g * k + (n % g)
  BY <1>2 DEF GranuleFirst, g
<1> HIDE DEF k
<1>4. g * k \in Nat /\ g * k <= n /\ n < g * k + g
  BY <1>1, <1>3
<1>5. ASSUME NEW f \in Nat, f % g = 0, f <= n PROVE f <= g * k
  <2> DEFINE j == f \div g
  <2>1. j \in Nat /\ f = g * j
    BY <1>2, <1>5
  <2> HIDE DEF j
  <2>2. CASE j <= k
    <3>1. k - j \in Nat /\ g * (k - j) \in Nat /\ g * (k - j) = g * k - g * j
      BY <1>1, <1>3, <2>1, <2>2
    <3> QED BY <1>4, <2>1, <3>1
  <2>3. CASE j >= k + 1
    <3>1. /\ j - (k + 1) \in Nat /\ g * (j - (k + 1)) \in Nat
          /\ g * (j - (k + 1)) = g * j - (g * k + g)
      BY <1>1, <1>3, <2>1, <2>3
    <3> QED BY <1>1, <1>4, <1>5, <2>1, <3>1
  <2> QED BY <1>3, <2>1, <2>2, <2>3
<1>6. ASSUME NEW m \in Nat, n <= m, m < g * k + g
      PROVE  m - (m % g) = g * k
  <2> DEFINE j == m \div g
  <2>0. j \in Nat /\ m % g \in 0..(g - 1) /\ m = g * j + (m % g) /\ m - (m % g) = g * j
    BY <1>2
  <2>1. j \in Nat /\ m - (m % g) = g * j /\ g * j <= m /\ m < g * j + g /\ g * j \in Nat
    <3> DEFINE x == g * j
               y == m % g
    <3>1. x \in Nat
      BY <1>1, <2>0
    <3>2. y \in 0..(g - 1) /\ m = x + y /\ m - y = x
      BY <2>0
    <3> HIDE DEF x, y
    <3>3. x <= m /\ m < x + g
      BY <1>1, <3>1, <3>2
    <3> QED BY <2>0, <3>1, <3>2, <3>3 DEF x, y
  <2> HIDE DEF j
  <2>2. CASE j >= k + 1
    <3>1. /\ j - (k + 1) \in Nat /\ g * (j - (k + 1)) \in Nat
          /\ g * (j - (k + 1)) = g * j - (g * k + g)
      BY <1>1, <1>3, <2>1, <2>2
    <3> QED BY <1>1, <1>4, <1>6, <2>1, <3>1
  <2>3. CASE k >= j + 1
    <3>1. /\ k - (j + 1) \in Nat /\ g * (k - (j + 1)) \in Nat
          /\ g * (k - (j + 1)) = g * k - (g * j + g)
      BY <1>1, <1>3, <2>1, <2>3
    <3> QED BY <1>1, <1>4, <1>6, <2>1, <3>1
  <2>4. CASE j = k
    BY <2>1, <2>4
  <2> QED BY <1>3, <2>1, <2>2, <2>3, <2>4
<1> QED BY <1>3, <1>4, <1>5, <1>6 DEF GranuleFirst, g

\* The color test of one byte of an object stands for every later byte of it:
\* whole granules have one color, and what comes after a partial one is in it.
LEMMA ColorStays ==
  ASSUME live \subseteq DOMAIN Objects, NEW o \in live, NEW a \in Nat, NEW low \in Nat,
         low <= a, low \in ObjectBytes(o), a \in ObjectBytes(o), NEW r, ColorOk(low, r)
  PROVE  ColorOk(a, r)
<1>1. /\ Objects[o].first \in Nat /\ Objects[o].end \in Nat
      /\ Objects[o].first % ShadowGranule = 0 /\ Objects[o].color \in Nat
      /\ ShadowGranule \in Nat \ {0}
  BY LoopAssumption
<1>2. o \in MarkedBy(low)
  <2>1. Objects[o].first <= GranuleFirst(low) /\ GranuleFirst(low) <= low
        /\ GranuleFirst(low) \in Nat
    BY <1>1, GranuleFacts DEF ObjectBytes
  <2> QED BY <1>1, <2>1 DEF MarkedBy, ObjectBytes
<1>3. MarkedBy(a) \subseteq {o}
  <2>1. Objects[o].first <= GranuleFirst(a) /\ GranuleFirst(a) <= a
        /\ GranuleFirst(a) \in Nat
    BY <1>1, GranuleFacts DEF ObjectBytes
  <2>2. ASSUME NEW q \in MarkedBy(a), q # o PROVE FALSE
    <3>1. q \in live /\ GranuleFirst(a) \in ObjectBytes(q) /\ Apart(o, q)
      BY <2>2, LoopAssumption DEF MarkedBy
    <3>2. Objects[q].first \in Nat /\ Objects[q].end \in Nat
      BY <3>1, LoopAssumption
    <3> QED BY <1>1, <2>1, <3>1, <3>2 DEF Apart, Before, ObjectBytes
  <2> QED BY <2>2
<1>4. ~WholeFor(o, low) => GranuleFirst(a) = GranuleFirst(low)
  <2>1. GranuleFirst(low) \in Nat /\ a < Objects[o].end
    BY <1>1, GranuleFacts DEF ObjectBytes
  <2>2. ~WholeFor(o, low) => a < GranuleFirst(low) + ShadowGranule
    BY <1>1, <2>1 DEF WholeFor
  <2> QED BY <2>2, GranuleFacts
<1>5. ASSUME NEW p \in MarkedBy(r), SameColor(o, low, p, r)
      PROVE  SameColor(o, a, p, r)
  <2>1. Objects[o].color = Objects[p].color
          => Objects[o].color % 8 = Objects[p].color % 8
    OBVIOUS
  <2>2. ~WholeFor(o, low) => ~WholeFor(o, a)
    BY <1>4 DEF WholeFor
  <2> QED BY <1>5, <2>1, <2>2 DEF SameColor
<1> QED BY <1>2, <1>3, <1>5 DEF ColorOk

\* The invariant: the loop chosen without guards does not release anything,
\* so that what the test found still holds in every iteration.
LoopsInv ==
  /\ loop \in LoopRecords
  /\ live \subseteq DOMAIN Objects
  /\ iteration \in 0..loop.count
  /\ loopAt = "ranged" => ~loop.releases /\ RangesAddressable

LEMMA LoopsInitially == LoopsInit => LoopsInv
<1> SUFFICES ASSUME LoopsInit PROVE LoopsInv
  OBVIOUS
<1>1. loop \in LoopRecords
  BY DEF LoopsInit, LoopRecords
<1> QED BY <1>1, Space DEF LoopsInit, LoopsInv

LEMMA LoopsSteps == LoopsInv /\ [LoopsNext]_loopVars => LoopsInv'
<1> SUFFICES ASSUME LoopsInv, [LoopsNext]_loopVars PROVE LoopsInv'
  OBVIOUS
<1>1. loop.count \in Nat
  BY Space DEF LoopsInv
<1>2. ASSUME loop' = loop, live' = live PROVE RangesAddressable' <=> RangesAddressable
  <2>1. Range64' = Range64
    BY <1>2 DEF Range64, Checked, WrappedValue, Addresses
  <2>2. \A b : AddressableByte(b)' <=> AddressableByte(b)
    BY <1>2 DEF AddressableByte, ObjectAt, ObjectBytes
  <2>3. \A b, r : ColorOk(b, r)' <=> ColorOk(b, r)
    BY <1>2 DEF ColorOk, MarkedBy, ObjectBytes, SameColor, WholeFor, GranuleFirst
  <2> QED BY <1>2, <2>1, <2>2, <2>3 DEF RangesAddressable, WrappedValue
<1>3. loop' = loop
  BY DEF LoopsNext, Choose, RangedIteration, GuardedIteration, Release, loopVars
<1>4. live' \subseteq live /\ (loopAt' = "ranged" => live' = live \/ loop.releases)
  BY DEF LoopsNext, Choose, RangedIteration, GuardedIteration, Release, loopVars
<1>5. iteration' \in 0..loop.count
  BY <1>1 DEF LoopsInv, LoopsNext, Choose, RangedIteration, GuardedIteration, Release,
              loopVars, Advanced
<1>6. loopAt' = "ranged" => loopAt = "ranged" \/ (Versionable /\ RangesAddressable)
  BY DEF LoopsNext, Choose, RangedIteration, GuardedIteration, Release, loopVars, After
<1>7. loopAt' = "ranged" => ~loop.releases /\ RangesAddressable
  BY <1>6 DEF LoopsInv, Versionable
<1>8. (loopAt = "ranged" => ~loop.releases /\ RangesAddressable)'
  BY <1>2, <1>3, <1>4, <1>7
<1>9. (loop \in LoopRecords)' /\ (live \subseteq DOMAIN Objects)'
  BY <1>3, <1>4 DEF LoopsInv, LoopRecords, Addresses
<1> QED BY <1>3, <1>5, <1>8, <1>9 DEF LoopsInv

LEMMA LoopsSafe == LoopsInv => RangedStaysInObject
<1> SUFFICES ASSUME LoopsInv, loopAt = "ranged", loop.bytes > 0
             PROVE  /\ ~loop.nullBase
                    /\ \A a \in IterationBytes(iteration) : AddressableByte(a)
                    /\ \A o \in ObjectAt(Range64.low) :
                         Objects[o].color # 0 =>
                           /\ IterationBytes(iteration) \subseteq ObjectBytes(o)
                           /\ GuardPasses(iteration)
  BY DEF RangedStaysInObject
<1>1. /\ ~Range64.overflow /\ ~loop.nullBase /\ RangesAddressable
      /\ \A r \in loop.root : ColorOk(Range64.low, r)
      /\ loop \in LoopRecords /\ live \subseteq DOMAIN Objects
      /\ iteration \in 0..loop.count
  BY DEF LoopsInv, RangesAddressable
<1>2. ASSUME NEW a \in IterationBytes(iteration)
      PROVE  a \in Nat /\ a - Range64.low \in 0..(Range64.length - 1)
  BY <1>1, <1>2, IterationInRange
<1>3. \A a \in IterationBytes(iteration) : AddressableByte(a)
  BY <1>1, <1>2, RangeStays
<1>4. ASSUME NEW o \in ObjectAt(Range64.low), Objects[o].color # 0
      PROVE  /\ IterationBytes(iteration) \subseteq ObjectBytes(o)
             /\ GuardPasses(iteration)
  <2>1. IterationBytes(iteration) \subseteq ObjectBytes(o)
    BY <1>1, <1>2, <1>4, RangeStays
  <2>2. Address(iteration) \in IterationBytes(iteration)
    <3>1. iteration \in Int /\ loop.start \in Int /\ loop.step \in Int
      BY <1>1, Space
    <3>2. iteration * loop.step \in Int
      BY <3>1
    <3>3. Address(iteration) \in Addresses
      <4>1. loop.start + iteration * loop.step \in Int
        BY <3>1, <3>2
      <4>2. Top \in Nat \ {0} /\ Addresses = 0..(Top - 1)
        BY <1>1, Space
      <4>3. \A z \in Int : z % Top \in 0..(Top - 1)
        BY <4>2
      <4> QED BY <4>1, <4>2, <4>3 DEF Address, WrappedValue, Top
    <3>4. WrappedValue(Address(iteration) + 0) = Address(iteration)
      <4>1. Address(iteration) + 0 = Address(iteration)
        BY <1>1, <3>3, Space
      <4> QED BY <1>1, <3>3, <4>1, Wrapped
    <3>5. 0 \in 0..(loop.bytes - 1)
      BY <1>1, Space
    <3> QED BY <3>4, <3>5 DEF IterationBytes
  <2>3. /\ Address(iteration) \in Nat /\ Range64.low \in Nat /\ Range64.low <= Address(iteration)
        /\ Address(iteration) \in ObjectBytes(o)
    BY <1>1, <1>2, <2>1, <2>2, RangeOf
  <2>4. o \in live /\ Range64.low \in ObjectBytes(o)
    BY <1>4 DEF ObjectAt
  <2>5. \A r \in loop.root : ColorOk(Address(iteration), r)
    BY <1>1, <2>3, <2>4, ColorStays
  <2> QED BY <1>1, <1>3, <2>1, <2>5 DEF GuardPasses
<1> QED BY <1>1, <1>3, <1>4

\* A loop that versionLoop runs without guards touches, in no iteration, a
\* byte that is no object's; one whose range starts in a colored object
\* touches no other object, and each of its iterations would pass its own
\* guard, color included: for any objects, colors and roots, any steps, widths
\* and width of an address.
THEOREM RangedLoopsSafe == LoopsSpec => []RangedStaysInObject
<1>1. LoopsInit => LoopsInv
  BY LoopsInitially
<1>2. LoopsInv /\ [LoopsNext]_loopVars => LoopsInv'
  BY LoopsSteps
<1>3. LoopsInv => RangedStaysInObject
  BY LoopsSafe
<1> QED BY <1>1, <1>2, <1>3, PTL DEF LoopsSpec

-----------------------------------------------------------------------------
(* Induction, in the form of a set of numbers, and the recursive function  *)
(* that mergeInBlocks' walk is.                                            *)
(***************************************************************************)
LEMMA SetInduction ==
  ASSUME NEW S, 0 \in S, \A n \in Nat : n \in S => n + 1 \in S
  PROVE  Nat \subseteq S
<1> DEFINE T == {n \in Nat : n \notin S}
<1>1. SUFFICES ASSUME T # {} PROVE FALSE
  OBVIOUS
<1>2. OpToRel(<, Nat) = {s \in Nat \X Nat : s[1] < s[2]}
  BY DEF OpToRel
<1>3. \E x \in T : \A y \in T : ~(<<y, x>> \in OpToRel(<, Nat))
  BY <1>1, NatLessThanWellFounded, WFMin, Zenon
<1>4. PICK x \in T : \A y \in T : ~(<<y, x>> \in {s \in Nat \X Nat : s[1] < s[2]})
  BY <1>2, <1>3, Zenon
<1>5. ASSUME NEW y \in T PROVE ~(y < x)
  <2>1. <<y, x>> \in Nat \X Nat /\ <<y, x>>[1] = y /\ <<y, x>>[2] = x
    OBVIOUS
  <2> QED BY <2>1, <1>4
<1>6. x # 0 /\ x - 1 \in Nat
  OBVIOUS
<1>7. x - 1 \notin T
  BY <1>5, <1>6
<1> QED BY <1>6, <1>7

\* What is true of 0 and goes from each i to i + 1 is true up to n.
LEMMA Upward ==
  ASSUME NEW n \in Nat, NEW S, 0 \in S,
         \A i \in Nat : i < n /\ i \in S => i + 1 \in S
  PROVE  \A i \in 0..n : i \in S
<1> DEFINE T == {i \in Nat : i <= n => i \in S}
<1>1. 0 \in T /\ \A i \in Nat : i \in T => i + 1 \in T
  OBVIOUS
<1> HIDE DEF T
<1>2. Nat \subseteq T
  BY <1>1, SetInduction
<1> QED BY <1>2 DEF T

\* The walk of a block is what its steps make of it, one after the other.
LEMMA WalkSteps ==
  ASSUME NEW b, NEW left, Len(code[b]) \in Nat
  PROVE  /\ Walk(b, left)[0] = WalkStart
         /\ \A i \in 1..Len(code[b]) :
              Walk(b, left)[i] = WalkStep(Walk(b, left)[i - 1], b, i, left)
<1> DEFINE n == Len(code[b])
           Is(g, m) == g = [i \in 0..m |-> IF i = 0 THEN WalkStart
                                           ELSE WalkStep(g[i - 1], b, i, left)]
           S == {m \in Nat : \E g : Is(g, m)}
<1>1. 0 \in S
  <2> DEFINE g == [i \in 0..0 |-> WalkStart]
  <2>1. Is(g, 0)
    OBVIOUS
  <2> HIDE DEF g
  <2> QED BY <2>1
<1>2. ASSUME NEW m \in Nat, m \in S
      PROVE  m + 1 \in S
  <2> PICK g : Is(g, m)
    BY <1>2
  <2> DEFINE h == [i \in 0..(m + 1) |-> IF i = m + 1 THEN WalkStep(g[m], b, m + 1, left)
                                        ELSE g[i]]
  <2>1. Is(h, m + 1)
    OBVIOUS
  <2> HIDE DEF h
  <2> QED BY <2>1
<1> HIDE DEF S
<1>3. n \in S
  BY <1>1, <1>2, SetInduction
<1>4. \E g : Is(g, n)
  BY <1>3 DEF S
<1>5. Walk(b, left) = CHOOSE g : Is(g, n)
  BY DEF Walk
<1>6. Is(Walk(b, left), n)
  BY <1>4, <1>5
<1> QED BY <1>6

-----------------------------------------------------------------------------
(* The walk.  What it knows after i instructions of block b: an open guard *)
(* has met nothing that closes it; a leader stands before the guards it    *)
(* checks for, nothing between them closes, it is led by nobody, and its   *)
(* bytes cover theirs.                                                     *)
(***************************************************************************)
FunctionOK ==
  /\ Entry \in Blocks
  /\ flow \in [Blocks -> SUBSET Blocks]
  /\ DOMAIN code = Blocks
  /\ \A b \in Blocks : code[b] \in Seq(Instructions)

Guards == BaseGuards \cup LocalGuards
Bases == {"guard", "local"}
Unclosed(b, j, i) == \A k \in j..i : ~Closes(code[b][k])
Covers(bytes, p) == bytes[1] <= EntryAtPoint(p).low /\ EntryAtPoint(p).high <= bytes[2]

WalkType(w) ==
  /\ DOMAIN w = {"open", "leads", "bytes"}
  /\ w = [open |-> w.open, leads |-> w.leads, bytes |-> w.bytes]
  /\ w.open \in [Bases -> Sites \cup {None}]
  /\ w.leads \subseteq Sites \X Sites
  /\ w.bytes \in [Sites -> Nat \X Nat]

OpenOK(w, b, left, i) ==
  \A o \in Bases : w.open[o] # None =>
    /\ w.open[o] \in left /\ w.open[o][1] = b /\ w.open[o][2] <= i
    /\ EntryAtPoint(w.open[o]).op = o
    /\ Unclosed(b, w.open[o][2], i)
    /\ \A l \in w.leads : l[2] # w.open[o]

LeadsOK(w, b, left, i) ==
  \A l \in w.leads :
    /\ l[1] \in left /\ l[1][1] = b /\ l[2] \in left /\ l[2][1] = b
    /\ l[1][2] < l[2][2] /\ l[2][2] <= i
    /\ EntryAtPoint(l[1]).op = EntryAtPoint(l[2]).op
    /\ Unclosed(b, l[1][2], l[2][2])
    /\ Covers(w.bytes[l[1]], l[2])
    /\ \A m \in w.leads : m[2] # l[1]

WalkOK(w, b, left, i) ==
  /\ WalkType(w)
  /\ \A p \in Sites : Covers(w.bytes[p], p)
  /\ OpenOK(w, b, left, i)
  /\ LeadsOK(w, b, left, i)

\* The sites, and the code at them.
LEMMA SiteFacts ==
  ASSUME FunctionOK, NEW p \in Sites
  PROVE  /\ p = <<p[1], p[2]>> /\ p[1] \in Blocks
         /\ Len(code[p[1]]) \in Nat /\ p[2] \in 1..Len(code[p[1]])
         /\ EntryAtPoint(p) \in Instructions /\ p # None
<1>1. PICK b \in Blocks : \E i \in DOMAIN code[b] : p = <<b, i>>
  BY DEF Sites
<1> PICK i \in DOMAIN code[b] : p = <<b, i>>
  BY <1>1
<1>2. code[b] \in Seq(Instructions)
  BY DEF FunctionOK
<1>3. Len(code[b]) \in Nat /\ i \in 1..Len(code[b]) /\ code[b][i] \in Instructions
  BY <1>2
<1> QED BY <1>1, <1>3 DEF EntryAtPoint, None

LEMMA SiteAt ==
  ASSUME FunctionOK, NEW b \in Blocks
  PROVE  /\ Len(code[b]) \in Nat /\ DOMAIN code[b] = 1..Len(code[b])
         /\ \A i \in 1..Len(code[b]) :
              <<b, i>> \in Sites /\ EntryAtPoint(<<b, i>>) = code[b][i]
<1>1. code[b] \in Seq(Instructions)
  BY DEF FunctionOK
<1>2. Len(code[b]) \in Nat /\ DOMAIN code[b] = 1..Len(code[b])
  BY <1>1
<1> QED BY <1>2 DEF Sites, EntryAtPoint

LEMMA MinMax ==
  ASSUME NEW x \in Nat, NEW y \in Nat
  PROVE  /\ Min({x, y}) \in Nat /\ Min({x, y}) <= x /\ Min({x, y}) <= y
         /\ Max({x, y}) \in Nat /\ x <= Max({x, y}) /\ y <= Max({x, y})
<1>1. \E z \in {x, y} : \A t \in {x, y} : z <= t
  BY x <= y \/ y <= x
<1>2. \E z \in {x, y} : \A t \in {x, y} : z >= t
  BY x <= y \/ y <= x
<1>3. Min({x, y}) \in {x, y} /\ \A t \in {x, y} : Min({x, y}) <= t
  BY <1>1 DEF Min
<1>4. Max({x, y}) \in {x, y} /\ \A t \in {x, y} : Max({x, y}) >= t
  BY <1>2 DEF Max
<1> QED BY <1>3, <1>4

LEMMA GuardsOp ==
  ASSUME NEW p \in Guards
  PROVE  p \in Sites /\ EntryAtPoint(p).op \in Bases /\ ~Closes(EntryAtPoint(p))
BY DEF Guards, BaseGuards, LocalGuards, Bases, Closes, KillsGuards

LEMMA WalkStarts ==
  ASSUME FunctionOK, NEW b \in Blocks, NEW left \in SUBSET Guards
  PROVE  WalkOK(WalkStart, b, left, 0)
<1>1. /\ WalkStart.open = NoneOpen /\ WalkStart.leads = {}
      /\ WalkStart.bytes = [p \in Sites |-> <<EntryAtPoint(p).low, EntryAtPoint(p).high>>]
      /\ DOMAIN WalkStart = {"open", "leads", "bytes"}
  BY DEF WalkStart
<1>2. \A p \in Sites : EntryAtPoint(p).low \in Nat /\ EntryAtPoint(p).high \in Nat
  BY SiteFacts DEF Instructions
<1>3. WalkType(WalkStart)
  BY <1>1, <1>2 DEF WalkType, NoneOpen, Bases, WalkStart
<1>4. \A p \in Sites : Covers(WalkStart.bytes[p], p)
  BY <1>1, <1>2 DEF Covers
<1>5. OpenOK(WalkStart, b, left, 0) /\ LeadsOK(WalkStart, b, left, 0)
  BY <1>1 DEF OpenOK, LeadsOK, NoneOpen, Bases
<1> QED BY <1>3, <1>4, <1>5 DEF WalkOK

\* What was open, or led, after i - 1 instructions still is as it was, when
\* instruction i closes nothing and the bytes have only grown.
LEMMA StaysUnclosed ==
  ASSUME NEW b, NEW j \in Int, NEW i \in Nat \ {0}, Unclosed(b, j, i - 1), ~Closes(code[b][i])
  PROVE  Unclosed(b, j, i)
<1> SUFFICES ASSUME NEW k \in j..i PROVE ~Closes(code[b][k])
  BY DEF Unclosed
<1>1. k = i \/ k \in j..(i - 1)
  OBVIOUS
<1> QED BY <1>1 DEF Unclosed

LEMMA WalkGuards ==
  ASSUME FunctionOK, NEW b \in Blocks, NEW left \in SUBSET Guards, NEW w,
         NEW i \in 1..Len(code[b]), WalkOK(w, b, left, i - 1), <<b, i>> \in left
  PROVE  WalkOK(WalkGuard(w, <<b, i>>), b, left, i)
<1> DEFINE p == <<b, i>>
           o == EntryAtPoint(p).op
           open == w.open[o]
           low == Min({w.bytes[open][1], EntryAtPoint(p).low})
           high == Max({w.bytes[open][2], EntryAtPoint(p).high})
           v == WalkGuard(w, p)
<1>1. /\ p \in Guards /\ p \in Sites /\ o \in Bases /\ p # None
      /\ p[1] = b /\ p[2] = i /\ i \in Nat \ {0}
      /\ EntryAtPoint(p).low \in Nat /\ EntryAtPoint(p).high \in Nat
  BY GuardsOp, SiteFacts, SiteAt DEF Instructions
<1>2. ~Closes(code[b][i])
  BY <1>1, GuardsOp, SiteAt
<1>3. \A q \in left : q \in Sites /\ q[2] \in Int
  BY GuardsOp, SiteFacts
<1>4. \A l \in w.leads : l[2] # p /\ l[1] # p
  BY <1>1, <1>3 DEF WalkOK, LeadsOK
<1>5. CASE open # None /\ high - low <= MaxHull
  <2>1. /\ open \in left /\ open \in Sites /\ open[1] = b /\ open[2] <= i - 1
        /\ EntryAtPoint(open).op = o /\ Unclosed(b, open[2], i - 1) /\ open[2] \in Int
        /\ \A l \in w.leads : l[2] # open
    BY <1>1, <1>3, <1>5 DEF WalkOK, OpenOK
  <2>2. w.bytes[open] \in Nat \X Nat
    BY <2>1 DEF WalkOK, WalkType
  <2>3. /\ low \in Nat /\ low <= w.bytes[open][1] /\ low <= EntryAtPoint(p).low
        /\ high \in Nat /\ w.bytes[open][2] <= high /\ EntryAtPoint(p).high <= high
    BY <1>1, <2>2, MinMax
  <2>4. v = [w EXCEPT !.bytes[open] = <<low, high>>, !.leads = @ \cup {<<open, p>>}]
    BY <1>5 DEF WalkGuard
  <2> HIDE DEF low, high
  <2>5. /\ v.open = w.open /\ v.leads = w.leads \cup {<<open, p>>}
        /\ v.bytes = [w.bytes EXCEPT ![open] = <<low, high>>]
        /\ v = [open |-> v.open, leads |-> v.leads, bytes |-> v.bytes]
        /\ DOMAIN v = {"open", "leads", "bytes"}
    BY <2>4 DEF WalkOK, WalkType
  <2>11. WalkType(v)
    <3> HIDE DEF v
    <3>1. v.leads \subseteq Sites \X Sites
      <4>1. w.leads \subseteq Sites \X Sites
        BY DEF WalkOK, WalkType
      <4>2. <<open, p>> \in Sites \X Sites
        BY <1>1, <2>1
      <4> QED BY <2>5, <4>1, <4>2
    <3>2. v.bytes \in [Sites -> Nat \X Nat]
      BY <2>1, <2>3, <2>5 DEF WalkOK, WalkType
    <3> QED BY <2>5, <3>1, <3>2 DEF WalkOK, WalkType
  <2> HIDE DEF v
  <2>6. ASSUME NEW s \in Sites, NEW t \in Sites, Covers(w.bytes[s], t)
        PROVE  Covers(v.bytes[s], t)
    <3>1. w.bytes[s] \in Nat \X Nat /\ EntryAtPoint(t).low \in Nat /\ EntryAtPoint(t).high \in Nat
      BY SiteFacts DEF WalkOK, WalkType, Instructions
    <3>2. CASE s = open
      BY <2>2, <2>3, <2>5, <2>6, <3>1, <3>2 DEF Covers, WalkOK, WalkType
    <3>3. CASE s # open
      BY <2>5, <2>6, <3>3 DEF Covers, WalkOK, WalkType
    <3> QED BY <3>2, <3>3
  <2>7. Covers(v.bytes[open], p)
    BY <2>1, <2>3, <2>5 DEF Covers, WalkOK, WalkType
  <2>8. \A s \in Sites : Covers(v.bytes[s], s)
    BY <2>6 DEF WalkOK
  <2>9. OpenOK(v, b, left, i)
    <3> SUFFICES ASSUME NEW c \in Bases, w.open[c] # None
                 PROVE  /\ w.open[c] \in left /\ w.open[c][1] = b /\ w.open[c][2] <= i
                        /\ EntryAtPoint(w.open[c]).op = c
                        /\ Unclosed(b, w.open[c][2], i)
                        /\ \A l \in v.leads : l[2] # w.open[c]
      BY <2>5 DEF OpenOK
    <3>1. /\ w.open[c] \in left /\ w.open[c][1] = b /\ w.open[c][2] <= i - 1
          /\ EntryAtPoint(w.open[c]).op = c /\ Unclosed(b, w.open[c][2], i - 1)
          /\ \A l \in w.leads : l[2] # w.open[c]
      BY DEF WalkOK, OpenOK
    <3>2. w.open[c][2] \in Int /\ w.open[c] # p
      BY <1>1, <1>3, <3>1
    <3>3. Unclosed(b, w.open[c][2], i)
      BY <1>1, <1>2, <3>1, <3>2, StaysUnclosed
    <3> QED BY <1>1, <2>5, <3>1, <3>2, <3>3
  <2>10. LeadsOK(v, b, left, i)
    <3> SUFFICES ASSUME NEW l \in v.leads
                 PROVE  /\ l[1] \in left /\ l[1][1] = b /\ l[2] \in left /\ l[2][1] = b
                        /\ l[1][2] < l[2][2] /\ l[2][2] <= i
                        /\ EntryAtPoint(l[1]).op = EntryAtPoint(l[2]).op
                        /\ Unclosed(b, l[1][2], l[2][2])
                        /\ Covers(v.bytes[l[1]], l[2])
                        /\ \A m \in v.leads : m[2] # l[1]
      BY DEF LeadsOK
    <3>1. CASE l \in w.leads
      <4>1. /\ l[1] \in left /\ l[1][1] = b /\ l[2] \in left /\ l[2][1] = b
            /\ l[1][2] < l[2][2] /\ l[2][2] <= i - 1
            /\ EntryAtPoint(l[1]).op = EntryAtPoint(l[2]).op
            /\ Unclosed(b, l[1][2], l[2][2])
            /\ Covers(w.bytes[l[1]], l[2])
            /\ \A m \in w.leads : m[2] # l[1]
        BY <3>1 DEF WalkOK, LeadsOK
      <4>2. l[2][2] <= i /\ Covers(v.bytes[l[1]], l[2])
        BY <1>1, <1>3, <2>6, <4>1
      <4> QED BY <1>4, <2>5, <3>1, <4>1, <4>2
    <3>2. CASE l = <<open, p>>
      <4>1. Unclosed(b, open[2], i)
        BY <1>1, <1>2, <2>1, StaysUnclosed
      <4>2. open # p
        BY <1>1, <2>1
      <4> QED BY <1>1, <2>1, <2>5, <2>7, <3>2, <4>1, <4>2
    <3> QED BY <2>5, <3>1, <3>2
  <2> QED BY <2>11, <2>8, <2>9, <2>10 DEF WalkOK, v
<1>6. CASE ~(open # None /\ high - low <= MaxHull)
  <2>1. v = [w EXCEPT !.open[o] = p]
    BY <1>6 DEF WalkGuard
  <2>2. /\ v.open = [w.open EXCEPT ![o] = p] /\ v.leads = w.leads /\ v.bytes = w.bytes
        /\ v = [open |-> v.open, leads |-> v.leads, bytes |-> v.bytes]
        /\ DOMAIN v = {"open", "leads", "bytes"}
    BY <2>1 DEF WalkOK, WalkType
  <2>6. WalkType(v)
    <3> HIDE DEF v
    <3> QED BY <1>1, <2>2 DEF WalkOK, WalkType
  <2> HIDE DEF v
  <2>3. OpenOK(v, b, left, i)
    <3> SUFFICES ASSUME NEW c \in Bases, v.open[c] # None
                 PROVE  /\ v.open[c] \in left /\ v.open[c][1] = b /\ v.open[c][2] <= i
                        /\ EntryAtPoint(v.open[c]).op = c
                        /\ Unclosed(b, v.open[c][2], i)
                        /\ \A l \in v.leads : l[2] # v.open[c]
      BY DEF OpenOK
    <3>1. CASE c = o
      <4>1. v.open[c] = p
        BY <2>2, <3>1 DEF WalkOK, WalkType
      <4>2. Unclosed(b, i, i)
        BY <1>2 DEF Unclosed
      <4>3. p \in left /\ p[1] = b /\ p[2] <= i /\ EntryAtPoint(p).op = c
        BY <1>1, <3>1
      <4>4. Unclosed(b, p[2], i) /\ \A l \in v.leads : l[2] # p
        BY <1>1, <1>4, <2>2, <4>2
      <4> HIDE DEF p
      <4> QED BY <4>1, <4>3, <4>4
    <3>2. CASE c # o
      <4>0. v.open[c] = w.open[c]
        BY <2>2, <3>2 DEF WalkOK, WalkType
      <4>1. /\ w.open[c] \in left /\ w.open[c][1] = b /\ w.open[c][2] <= i - 1
            /\ EntryAtPoint(w.open[c]).op = c /\ Unclosed(b, w.open[c][2], i - 1)
            /\ \A l \in w.leads : l[2] # w.open[c]
        BY <4>0 DEF WalkOK, OpenOK
      <4>2. w.open[c][2] \in Int
        BY <1>3, <4>1
      <4>3. Unclosed(b, w.open[c][2], i)
        BY <1>1, <1>2, <4>1, <4>2, StaysUnclosed
      <4>4. w.open[c][2] <= i
        BY <1>1, <4>1, <4>2
      <4> QED BY <2>2, <4>0, <4>1, <4>3, <4>4
    <3> QED BY <3>1, <3>2
  <2>4. \A l \in w.leads : l[2][2] <= i - 1 => l[2][2] <= i
    BY <1>1, <1>3 DEF WalkOK, LeadsOK
  <2>5. LeadsOK(v, b, left, i)
    BY <2>2, <2>4 DEF WalkOK, LeadsOK
  <2> QED BY <2>2, <2>3, <2>5, <2>6 DEF WalkOK, v
<1> QED BY <1>5, <1>6

LEMMA WalkOthers ==
  ASSUME FunctionOK, NEW b \in Blocks, NEW left \in SUBSET Guards, NEW w,
         NEW i \in 1..Len(code[b]), WalkOK(w, b, left, i - 1), <<b, i>> \notin left
  PROVE  WalkOK(WalkStep(w, b, i, left), b, left, i)
<1> DEFINE v == WalkStep(w, b, i, left)
<1>1. \A q \in left : q \in Sites /\ q[2] \in Int
  BY GuardsOp, SiteFacts
<1>2. i \in Nat \ {0}
  BY SiteAt
<1>3. LeadsOK(w, b, left, i)
  <2>1. \A l \in w.leads : l[2][2] <= i - 1 => l[2][2] <= i
    BY <1>1, <1>2 DEF WalkOK, LeadsOK
  <2> QED BY <2>1 DEF WalkOK, LeadsOK
<1>4. CASE Closes(code[b][i])
  <2>1. v = [w EXCEPT !.open = NoneOpen]
    BY <1>4 DEF WalkStep
  <2>2. v.open = NoneOpen /\ v.leads = w.leads /\ v.bytes = w.bytes /\ WalkType(v)
    BY <2>1 DEF WalkOK, WalkType, NoneOpen, Bases
  <2> HIDE DEF v
  <2>3. OpenOK(v, b, left, i)
    BY <2>2 DEF OpenOK, NoneOpen, Bases
  <2> QED BY <1>3, <2>2, <2>3 DEF WalkOK, LeadsOK, v
<1>5. CASE ~Closes(code[b][i])
  <2>1. v = w
    BY <1>5 DEF WalkStep
  <2>2. OpenOK(w, b, left, i)
    <3> SUFFICES ASSUME NEW c \in Bases, w.open[c] # None
                 PROVE  /\ w.open[c] \in left /\ w.open[c][1] = b /\ w.open[c][2] <= i
                        /\ EntryAtPoint(w.open[c]).op = c
                        /\ Unclosed(b, w.open[c][2], i)
                        /\ \A l \in w.leads : l[2] # w.open[c]
      BY DEF OpenOK
    <3>1. /\ w.open[c] \in left /\ w.open[c][1] = b /\ w.open[c][2] <= i - 1
          /\ EntryAtPoint(w.open[c]).op = c /\ Unclosed(b, w.open[c][2], i - 1)
          /\ \A l \in w.leads : l[2] # w.open[c]
      BY DEF WalkOK, OpenOK
    <3>2. w.open[c][2] \in Int
      BY <1>1, <3>1
    <3>3. Unclosed(b, w.open[c][2], i)
      BY <1>2, <1>5, <3>1, <3>2, StaysUnclosed
    <3> QED BY <1>2, <3>1, <3>2, <3>3
  <2> QED BY <1>3, <2>1, <2>2 DEF WalkOK
<1> QED BY <1>4, <1>5

\* What mergeInBlocks knows of a block when it has walked it.
LEMMA WalkedOK ==
  ASSUME FunctionOK, NEW b \in Blocks, NEW left \in SUBSET Guards
  PROVE  WalkOK(Walked(b, left), b, left, Len(code[b]))
<1> DEFINE n == Len(code[b])
           S == {i \in Nat : i <= n => WalkOK(Walk(b, left)[i], b, left, i)}
<1>1. n \in Nat
  BY SiteAt
<1> HIDE DEF n
<1>2. 0 \in S
  BY <1>1, WalkSteps, WalkStarts DEF n
<1>3. ASSUME NEW i \in Nat, i < n, i \in S
      PROVE  i + 1 \in S
  <2>1. WalkOK(Walk(b, left)[i], b, left, i)
    BY <1>1, <1>3
  <2>2. i + 1 \in 1..n /\ (i + 1) - 1 = i
    BY <1>1, <1>3
  <2>3. Walk(b, left)[i + 1] = WalkStep(Walk(b, left)[i], b, i + 1, left)
    BY <1>1, <2>2, WalkSteps DEF n
  <2>4. CASE <<b, i + 1>> \in left
    <3>1. WalkOK(WalkGuard(Walk(b, left)[i], <<b, i + 1>>), b, left, i + 1)
      BY <2>1, <2>2, <2>4, WalkGuards DEF n
    <3> QED BY <2>3, <2>4, <3>1 DEF WalkStep
  <2>5. CASE <<b, i + 1>> \notin left
    <3>1. WalkOK(WalkStep(Walk(b, left)[i], b, i + 1, left), b, left, i + 1)
      BY <2>1, <2>2, <2>5, WalkOthers DEF n
    <3> QED BY <2>3, <3>1
  <2> QED BY <2>4, <2>5
<1> HIDE DEF S
<1>4. n \in S
  BY <1>1, <1>2, <1>3, Upward
<1> QED BY <1>1, <1>4 DEF S, Walked, n

-----------------------------------------------------------------------------
(* The three fixpoints, along an edge of the graph.                        *)
(***************************************************************************)

\* Scopes::mayBeOutOfScope: a successor of a block left dead is entered dead.
LEMMA DeadFlows ==
  ASSUME NEW a \in Blocks, NEW b \in Blocks, b \in flow[a],
         LeavesDead(a, a \in DeadAtEntry)
  PROVE  b \in DeadAtEntry
<1> SUFFICES ASSUME NEW dead \in SUBSET Blocks,
                    \A c \in Blocks : LeavesDead(c, c \in dead) => flow[c] \subseteq dead
             PROVE  b \in dead
  BY DEF DeadAtEntry
<1>1. a \in DeadAtEntry => a \in dead
  BY DEF DeadAtEntry
<1>2. LeavesDead(a, a \in dead)
  BY <1>1 DEF LeavesDead, DeadBefore
<1> QED BY <1>2

\* removeDominated looks at the blocks that are reached, and all are.
LEMMA ReachFlows ==
  ASSUME FunctionOK
  PROVE  /\ Entry \in Reachable
         /\ \A a \in Reachable : flow[a] \subseteq Reachable
<1>1. Entry \in Reachable
  BY DEF FunctionOK, Reachable
<1>2. ASSUME NEW a \in Reachable, NEW b \in flow[a]
      PROVE  b \in Reachable
  <2>1. a \in Blocks /\ b \in Blocks
    BY DEF FunctionOK, Reachable
  <2> SUFFICES ASSUME NEW seen \in SUBSET Blocks, Entry \in seen,
                      UNION {flow[c] : c \in seen} \subseteq seen
               PROVE  b \in seen
    BY <2>1 DEF Reachable
  <2>2. a \in seen
    BY DEF Reachable
  <2> QED BY <2>2
<1> QED BY <1>1, <1>2

\* What is available at a block's entry was left available by every block
\* before it.
LEMMA AvailableFlows ==
  ASSUME NEW p, NEW a \in Reachable, NEW b \in AvailableIn(p), b \in flow[a]
  PROVE  Passes(p, a, Len(code[a]) + 1, a \in AvailableIn(p))
<1>1. PICK entered \in SUBSET (Blocks \ {Entry}) :
        /\ b \in entered
        /\ \A c \in entered : \A d \in Reachable :
             c \in flow[d] => Passes(p, d, Len(code[d]) + 1, d \in entered)
  BY DEF AvailableIn
<1>2. Passes(p, a, Len(code[a]) + 1, a \in entered)
  BY <1>1
<1>3. a \in entered => a \in AvailableIn(p)
  BY <1>1 DEF AvailableIn
<1> QED BY <1>2, <1>3 DEF Passes

LEMMA NotAtEntry == \A p : Entry \notin AvailableIn(p)
BY DEF AvailableIn

-----------------------------------------------------------------------------
(* What the three rules decide, in the words the executions need.          *)
(***************************************************************************)
Left == Guards \ {p \in LocalGuards : InBounds(p)}
Kept == Left \ Dominated(Left)

Leader(q, p) ==
  /\ q \in Guards /\ decision[q] = "guard"
  /\ q[1] = p[1] /\ q[2] < p[2] /\ Unclosed(p[1], q[2], p[2])
  /\ EntryAtPoint(q).op = EntryAtPoint(p).op

DecisionOK(p) ==
  /\ decision[p] \in {"in-bounds", "dominated", "merged", "guard"}
  /\ decision[p] = "in-bounds" <=> p \notin Left
  /\ decision[p] = "in-bounds" => InBounds(p)
  /\ decision[p] = "dominated" => p \in Dominated(Left)
  /\ decision[p] = "merged" => \E q \in Guards : Leader(q, p) /\ Covers(hull[q].bytes, p)
  /\ decision[p] = "guard" =>
       /\ hull[p].bytes \in Nat \X Nat /\ Covers(hull[p].bytes, p)
       /\ \A r \in hull[p].leads : r \in Guards /\ Leader(p, r)

DecisionsOK == \A p \in Guards : DecisionOK(p)

LEMMA Decisions ==
  ASSUME FunctionOK, decision = Decided, hull = Hulls
  PROVE  DecisionsOK
<1> DEFINE walks == [b \in Blocks |-> Walked(b, Kept)]
           leads == UNION {walks[b].leads : b \in Blocks}
<1>1. Kept \in SUBSET Guards /\ Left \in SUBSET Guards
  BY DEF Kept, Left
<1>2. decision = [p \in Guards |->
        IF p \in {q \in LocalGuards : InBounds(q)} THEN "in-bounds"
        ELSE IF p \notin Kept THEN "dominated"
        ELSE IF \E l \in leads : l[2] = p THEN "merged" ELSE "guard"]
  BY DEF Decided, Guards, Kept, Left
<1>3. {p \in DOMAIN decision : decision[p] \in {"guard", "merged"}} = Kept
  <2> HIDE DEF leads
  <2> QED BY <1>1, <1>2 DEF Kept, Left
<1>4. hull = [p \in Guards |->
        [bytes |-> walks[p[1]].bytes[p],
         leads |-> {l[2] : l \in {k \in walks[p[1]].leads : k[1] = p}}]]
  <2>1. DOMAIN decision = Guards
    <3> HIDE DEF leads
    <3> QED BY <1>2
  <2> QED BY <1>3, <2>1 DEF Hulls
<1>5. \A b \in Blocks : walks[b] = Walked(b, Kept) /\ WalkOK(walks[b], b, Kept, Len(code[b]))
  BY <1>1, WalkedOK
<1> HIDE DEF walks
<1>6. \A p \in Guards : p \in Sites /\ p[1] \in Blocks
  BY GuardsOp, SiteFacts
<1>7. ASSUME NEW l \in leads
      PROVE  /\ l[1] \in Kept /\ l[2] \in Kept /\ l[1][1] \in Blocks
             /\ l[1][1] = l[2][1] /\ l \in walks[l[1][1]].leads
  <2>1. PICK b \in Blocks : l \in walks[b].leads
    OBVIOUS
  <2> QED BY <1>5, <2>1 DEF WalkOK, LeadsOK
<1>8. ASSUME NEW l \in leads, NEW m \in leads
      PROVE  m[2] # l[1]
  <2>1. SUFFICES ASSUME m[2] = l[1] PROVE FALSE
    OBVIOUS
  <2>2. m \in walks[l[1][1]].leads /\ l \in walks[l[1][1]].leads /\ l[1][1] \in Blocks
    BY <1>7, <2>1
  <2> QED BY <1>5, <2>1, <2>2 DEF WalkOK, LeadsOK
<1>9. \A l \in leads : decision[l[1]] = "guard"
  <2> HIDE DEF leads
  <2> QED BY <1>1, <1>2, <1>7, <1>8 DEF Kept, Left
<1>10. ASSUME NEW l \in leads
       PROVE  /\ Leader(l[1], l[2]) /\ Covers(hull[l[1]].bytes, l[2])
  <2>1. /\ l[1] \in Guards /\ l[2] \in Guards /\ l[1][1] \in Blocks
        /\ l[1][1] = l[2][1] /\ l \in walks[l[1][1]].leads
    BY <1>1, <1>7
  <2>2. /\ l[1][2] < l[2][2] /\ EntryAtPoint(l[1]).op = EntryAtPoint(l[2]).op
        /\ Unclosed(l[1][1], l[1][2], l[2][2])
        /\ Covers(walks[l[1][1]].bytes[l[1]], l[2])
    BY <1>5, <2>1 DEF WalkOK, LeadsOK
  <2>3. hull[l[1]].bytes = walks[l[1][1]].bytes[l[1]]
    BY <1>4, <2>1
  <2> QED BY <1>9, <2>1, <2>2, <2>3 DEF Leader
<1> SUFFICES ASSUME NEW p \in Guards PROVE DecisionOK(p)
  BY DEF DecisionsOK
<1>11. /\ decision[p] \in {"in-bounds", "dominated", "merged", "guard"}
       /\ decision[p] = "in-bounds" <=> p \notin Left
       /\ decision[p] = "in-bounds" => InBounds(p)
       /\ decision[p] = "dominated" => p \in Dominated(Left)
       /\ decision[p] = "merged" => \E l \in leads : l[2] = p
  <2> HIDE DEF leads
  <2> QED BY <1>2 DEF Kept, Left
<1>12. decision[p] = "merged" => \E q \in Guards : Leader(q, p) /\ Covers(hull[q].bytes, p)
  <2>1. SUFFICES ASSUME decision[p] = "merged"
                 PROVE  \E q \in Guards : Leader(q, p) /\ Covers(hull[q].bytes, p)
    OBVIOUS
  <2>2. PICK l \in leads : l[2] = p
    BY <1>11, <2>1
  <2>3. Leader(l[1], p) /\ Covers(hull[l[1]].bytes, p)
    BY <1>10, <2>2
  <2>4. l[1] \in Guards
    BY <2>3 DEF Leader
  <2> QED BY <2>3, <2>4
<1>13. hull[p].bytes \in Nat \X Nat /\ Covers(hull[p].bytes, p)
  <2>1. hull[p].bytes = walks[p[1]].bytes[p]
    BY <1>4
  <2>2. /\ walks[p[1]].bytes \in [Sites -> Nat \X Nat]
        /\ \A q \in Sites : Covers(walks[p[1]].bytes[q], q)
    BY <1>5, <1>6 DEF WalkOK, WalkType
  <2> QED BY <1>6, <2>1, <2>2
<1>14. ASSUME NEW r \in hull[p].leads
       PROVE  r \in Guards /\ Leader(p, r)
  <2>1. PICK l \in walks[p[1]].leads : l[1] = p /\ l[2] = r
    BY <1>4
  <2>2. l \in leads
    BY <1>6, <2>1
  <2> QED BY <1>1, <1>7, <1>10, <2>1, <2>2
<1> QED BY <1>11, <1>12, <1>13, <1>14 DEF DecisionOK

-----------------------------------------------------------------------------
(* Executions.  The invariant: a guard that the analysis has available at  *)
(* the program counter has had its bytes checked; so has a guard that      *)
(* stays, its hull, up to the next instruction that closes; a local whose  *)
(* scope has ended may be out of scope there; and what is owed comes later *)
(* in the block, with nothing between that closes.                         *)
(***************************************************************************)
Available(q, b, i) == Passes(q, b, i, b \in AvailableIn(q))
Dead(b, i) == DeadBefore(b, i, b \in DeadAtEntry)
SpanOf(p) == Bytes(EntryAtPoint(p).op, <<EntryAtPoint(p).low, EntryAtPoint(p).high>>)

AvailableChecked == \A q \in Left : Available(q, pc[1], pc[2]) => SpanOf(q) \subseteq checked
HullChecked ==
  \A q \in Guards :
    decision[q] = "guard" /\ q[1] = pc[1] /\ q[2] < pc[2] /\ Unclosed(pc[1], q[2], pc[2] - 1)
      => Bytes(EntryAtPoint(q).op, hull[q].bytes) \subseteq checked
ScopeKnown == scope = "end" => Dead(pc[1], pc[2])
OwedFollows ==
  \A p \in owed : p \in Guards /\ p[1] = pc[1] /\ pc[2] <= p[2] /\ Unclosed(pc[1], pc[2], p[2])
Counter ==
  /\ pc[1] \in Reachable /\ pc[2] \in 1..(Len(code[pc[1]]) + 1)
  /\ pc = <<pc[1], pc[2]>>

RulesInv ==
  /\ FunctionOK
  /\ DecisionsOK
  /\ Counter
  /\ AvailableChecked
  /\ HullChecked
  /\ ScopeKnown
  /\ OwedFollows

\* What is about the function only does not change while it runs.
LEMMA SameFunction ==
  ASSUME UNCHANGED functionVars
  PROVE  /\ Blocks' = Blocks /\ Guards' = Guards /\ Left' = Left /\ Reachable' = Reachable
         /\ FunctionOK' <=> FunctionOK
         /\ \A p : EntryAtPoint(p)' = EntryAtPoint(p)
         /\ \A p : SpanOf(p)' = SpanOf(p)
         /\ \A q, b, i : Available(q, b, i)' <=> Available(q, b, i)
         /\ \A b, i : Dead(b, i)' <=> Dead(b, i)
         /\ \A b, j, i : Unclosed(b, j, i)' <=> Unclosed(b, j, i)
         /\ DecisionsOK' <=> DecisionsOK
<1>1. code' = code /\ flow' = flow /\ decision' = decision /\ hull' = hull
  BY DEF functionVars
<1>2. /\ Blocks' = Blocks /\ Sites' = Sites
      /\ \A p : EntryAtPoint(p)' = EntryAtPoint(p)
  BY <1>1 DEF Blocks, Sites, EntryAtPoint
<1>3. BaseGuards' = BaseGuards /\ LocalGuards' = LocalGuards /\ Guards' = Guards
  BY <1>2 DEF BaseGuards, LocalGuards, Guards
<1>4. Reachable' = Reachable /\ (FunctionOK' <=> FunctionOK)
  BY <1>1, <1>2 DEF Reachable, FunctionOK
<1>5. /\ \A b, j, i : Unclosed(b, j, i)' <=> Unclosed(b, j, i)
      /\ \A b, j, i : Unkilled(b, j, i)' <=> Unkilled(b, j, i)
  BY <1>1 DEF Unclosed, Unkilled
<1>6. \A q : AvailableIn(q)' = AvailableIn(q)
  BY <1>1, <1>2, <1>4 DEF AvailableIn, Passes, Unkilled
<1>7. \A q, b, i : Available(q, b, i)' <=> Available(q, b, i)
  BY <1>5, <1>6 DEF Available, Passes
<1>8. DeadAtEntry' = DeadAtEntry
  BY <1>1, <1>2 DEF DeadAtEntry, LeavesDead, DeadBefore
<1>9. \A b, i : Dead(b, i)' <=> Dead(b, i)
  BY <1>1, <1>8 DEF Dead, DeadBefore
<1>10. \A p : InBounds(p)' <=> InBounds(p)
  BY <1>2, <1>9 DEF InBounds, MayBeOutOfScope, Dead
<1>11. Left' = Left
  BY <1>3, <1>10 DEF Left
<1>12. Dominated(Left)' = Dominated(Left)
  BY <1>2, <1>4, <1>7, <1>11 DEF Dominated, Available
<1>13. /\ \A q, p : Leader(q, p)' <=> Leader(q, p)
       /\ \A s, p : Covers(s, p)' <=> Covers(s, p)
  BY <1>1, <1>2, <1>3, <1>5 DEF Leader, Covers
<1>14. \A p : SpanOf(p)' = SpanOf(p)
  BY <1>2 DEF SpanOf, Bytes
<1>15. DecisionsOK' <=> DecisionsOK
  BY <1>1, <1>3, <1>10, <1>11, <1>12, <1>13 DEF DecisionsOK, DecisionOK
<1> QED BY <1>2, <1>3, <1>4, <1>5, <1>7, <1>9, <1>11, <1>14, <1>15

LEMMA RulesInitially == RulesInit => RulesInv
<1> SUFFICES ASSUME RulesInit PROVE RulesInv
  OBVIOUS
<1>1. FunctionOK
  <2>1. PICK f \in Programs : flow = f.flow /\ code = f.code
    BY DEF RulesInit
  <2> QED BY <2>1, RulesAssumption DEF FunctionOK, Blocks
<1>2. DecisionsOK
  BY <1>1, Decisions DEF RulesInit
<1>3. pc = <<Entry, 1>> /\ checked = {} /\ owed = {} /\ scope = "before"
  BY DEF RulesInit
<1>4. Entry \in Blocks /\ Len(code[Entry]) \in Nat
  BY <1>1, SiteAt DEF FunctionOK
<1>5. Counter
  BY <1>1, <1>3, <1>4, ReachFlows DEF Counter
<1>6. AvailableChecked
  <2> SUFFICES ASSUME NEW q \in Left PROVE ~Available(q, Entry, 1)
    BY <1>3 DEF AvailableChecked
  <2>1. q[2] \in Int /\ q[2] >= 1
    BY <1>1, GuardsOp, SiteFacts DEF Left
  <2> QED BY <2>1, NotAtEntry DEF Available, Passes
<1>7. HullChecked
  <2> SUFFICES ASSUME NEW q \in Guards PROVE ~(q[2] < 1)
    BY <1>3 DEF HullChecked
  <2> QED BY <1>1, GuardsOp, SiteFacts
<1>8. ScopeKnown /\ OwedFollows
  BY <1>3 DEF ScopeKnown, OwedFollows
<1> QED BY <1>1, <1>2, <1>5, <1>6, <1>7, <1>8 DEF RulesInv

\* Where the program counter is, and what is there.
LEMMA AtCounter ==
  ASSUME FunctionOK, Counter
  PROVE  /\ pc[1] \in Blocks /\ Len(code[pc[1]]) \in Nat /\ pc[2] \in Nat \ {0}
         /\ Running <=> pc[2] \in 1..Len(code[pc[1]])
         /\ ~Running => pc[2] = Len(code[pc[1]]) + 1
         /\ Running => /\ pc \in Sites /\ EntryAtPoint(pc) = code[pc[1]][pc[2]]
                       /\ EntryAtPoint(pc) \in Instructions
<1>1. pc[1] \in Blocks
  BY DEF Counter, Reachable
<1>2. Len(code[pc[1]]) \in Nat /\ DOMAIN code[pc[1]] = 1..Len(code[pc[1]])
  BY <1>1, SiteAt
<1>3. pc[2] \in 1..(Len(code[pc[1]]) + 1)
  BY DEF Counter
<1>4. Running <=> pc[2] \in 1..Len(code[pc[1]])
  BY <1>2 DEF Running
<1>5. Running => pc \in Sites
  BY <1>1, <1>4, SiteAt DEF Counter
<1> QED BY <1>1, <1>2, <1>3, <1>4, <1>5, SiteFacts DEF EntryAtPoint

\* Bytes covered are bytes covered.
LEMMA CoveredBytes ==
  ASSUME FunctionOK, NEW p \in Sites, NEW bytes \in Nat \X Nat, Covers(bytes, p)
  PROVE  SpanOf(p) \subseteq Bytes(EntryAtPoint(p).op, bytes)
<1>1. EntryAtPoint(p).low \in Nat /\ EntryAtPoint(p).high \in Nat
  BY SiteFacts DEF Instructions
<1>2. bytes[1] <= EntryAtPoint(p).low /\ EntryAtPoint(p).high <= bytes[2]
      /\ bytes[1] \in Nat /\ bytes[2] \in Nat
  BY DEF Covers
<1>3. EntryAtPoint(p).low..(EntryAtPoint(p).high - 1) \subseteq bytes[1]..(bytes[2] - 1)
  BY <1>1, <1>2
<1> QED BY <1>3 DEF SpanOf, Bytes

LEMMA InvChecks == RulesInv => AccessChecked
<1> SUFFICES ASSUME RulesInv, Running, EntryAtPoint(pc).op \in Bases
             PROVE  /\ decision[pc] \in {"dominated", "merged"} => SpanOf(pc) \subseteq checked
                    /\ decision[pc] = "in-bounds" => scope # "end"
  BY DEF AccessChecked, Bases, SpanOf
<1>1. /\ pc \in Sites /\ pc[1] \in Blocks /\ pc[2] \in Nat
  BY AtCounter DEF RulesInv
<1>2. pc \in Guards /\ DecisionOK(pc)
  BY <1>1 DEF RulesInv, DecisionsOK, Guards, BaseGuards, LocalGuards, Bases
<1>3. ASSUME decision[pc] = "dominated" PROVE SpanOf(pc) \subseteq checked
  <2>1. pc \in Dominated(Left)
    BY <1>2, <1>3 DEF DecisionOK
  <2>2. PICK q \in Left \ {pc} :
          /\ EntryAtPoint(q).op = EntryAtPoint(pc).op
          /\ EntryAtPoint(q).low <= EntryAtPoint(pc).low
          /\ EntryAtPoint(pc).high <= EntryAtPoint(q).high
          /\ Available(q, pc[1], pc[2])
    BY <2>1 DEF Dominated, Available
  <2>3. SpanOf(q) \subseteq checked
    BY <2>2 DEF RulesInv, AvailableChecked
  <2>4. q \in Sites
    BY GuardsOp DEF Left
  <2> DEFINE bytes == <<EntryAtPoint(q).low, EntryAtPoint(q).high>>
  <2>5. bytes \in Nat \X Nat
    BY <2>4, SiteFacts DEF RulesInv, Instructions
  <2>6. Covers(bytes, pc)
    BY <2>2 DEF Covers
  <2>7. SpanOf(pc) \subseteq Bytes(EntryAtPoint(pc).op, bytes)
    <3> HIDE DEF bytes
    <3> QED BY <1>1, <2>5, <2>6, CoveredBytes DEF RulesInv
  <2> QED BY <2>2, <2>3, <2>7 DEF SpanOf
<1>4. ASSUME decision[pc] = "merged" PROVE SpanOf(pc) \subseteq checked
  <2>1. PICK q : Leader(q, pc) /\ Covers(hull[q].bytes, pc)
    BY <1>2, <1>4 DEF DecisionOK
  <2>2. /\ q \in Guards /\ decision[q] = "guard" /\ q[1] = pc[1] /\ q[2] < pc[2]
        /\ Unclosed(pc[1], q[2], pc[2]) /\ EntryAtPoint(q).op = EntryAtPoint(pc).op
        /\ q[2] \in Int
    BY <2>1, GuardsOp, SiteFacts DEF Leader, RulesInv
  <2>3. Unclosed(pc[1], q[2], pc[2] - 1)
    BY <1>1, <2>2 DEF Unclosed
  <2>4. Bytes(EntryAtPoint(q).op, hull[q].bytes) \subseteq checked
    BY <2>2, <2>3 DEF RulesInv, HullChecked
  <2>5. hull[q].bytes \in Nat \X Nat
    BY <2>2 DEF RulesInv, DecisionsOK, DecisionOK
  <2>6. SpanOf(pc) \subseteq Bytes(EntryAtPoint(pc).op, hull[q].bytes)
    BY <1>1, <2>1, <2>5, CoveredBytes DEF RulesInv
  <2> QED BY <2>2, <2>4, <2>6
<1>5. ASSUME decision[pc] = "in-bounds" PROVE scope # "end"
  <2>1. ~Dead(pc[1], pc[2])
    BY <1>2, <1>5 DEF DecisionOK, InBounds, MayBeOutOfScope, Dead
  <2> QED BY <2>1 DEF RulesInv, ScopeKnown
<1> QED BY <1>3, <1>4, <1>5

LEMMA InvOwes == RulesInv => NothingCheckedEarly
<1> SUFFICES ASSUME RulesInv, NEW p \in owed,
                    Running => EntryAtPoint(pc).op \in {"kill", "stop", "start", "end"}
             PROVE  FALSE
  BY DEF NothingCheckedEarly
<1>1. /\ p \in Guards /\ p[1] = pc[1] /\ pc[2] <= p[2] /\ Unclosed(pc[1], pc[2], p[2])
  BY DEF RulesInv, OwedFollows
<1>2. /\ p[2] \in 1..Len(code[pc[1]]) /\ Len(code[pc[1]]) \in Nat /\ pc[2] \in Nat \ {0}
  BY <1>1, GuardsOp, SiteFacts, AtCounter DEF RulesInv
<1>3. Running /\ ~Closes(EntryAtPoint(pc))
  BY <1>1, <1>2, AtCounter DEF RulesInv, Unclosed
<1> QED BY <1>3 DEF Closes, KillsGuards

\* From one instruction to the next: what is available after it, what is dead
\* after it, and which hulls are checked after it.
LEMMA OnwardAvailable ==
  ASSUME FunctionOK, Counter, Running, NEW q \in Left, Available(q, pc[1], pc[2] + 1)
  PROVE  /\ ~KillsGuards(EntryAtPoint(pc))
         /\ q = pc \/ Available(q, pc[1], pc[2])
<1> DEFINE b == pc[1]
           i == pc[2]
<1>1. i \in Nat \ {0} /\ EntryAtPoint(pc) = code[b][i] /\ pc = <<b, i>>
  BY AtCounter DEF Counter
<1>2. q = <<q[1], q[2]>> /\ q[2] \in Nat \ {0}
  BY GuardsOp, SiteFacts DEF Left
<1>3. ASSUME NEW j \in Nat, j <= i, Unkilled(b, j, i + 1)
      PROVE  ~KillsGuards(code[b][i]) /\ Unkilled(b, j, i)
  BY <1>1, <1>3 DEF Unkilled
<1> HIDE DEF b, i
<1>4. CASE q[1] = b /\ q[2] < i + 1 /\ Unkilled(b, q[2], i + 1)
  <2>1. q[2] <= i /\ (q[2] = i \/ q[2] < i)
    BY <1>1, <1>2, <1>4
  <2>2. ~KillsGuards(code[b][i]) /\ Unkilled(b, q[2], i)
    BY <1>2, <1>3, <1>4, <2>1
  <2> QED BY <1>1, <1>2, <1>4, <2>1, <2>2 DEF Available, Passes, b, i
<1>5. CASE b \in AvailableIn(q) /\ Unkilled(b, 1, i + 1)
  <2>1. ~KillsGuards(code[b][i]) /\ Unkilled(b, 1, i)
    BY <1>1, <1>3, <1>5
  <2> QED BY <1>1, <1>5, <2>1 DEF Available, Passes, b, i
<1> QED BY <1>4, <1>5 DEF Available, Passes, b, i

LEMMA OnwardDead ==
  ASSUME FunctionOK, Counter, Running,
         \/ EntryAtPoint(pc).op = "end"
         \/ EntryAtPoint(pc).op # "start" /\ Dead(pc[1], pc[2])
  PROVE  Dead(pc[1], pc[2] + 1)
<1> DEFINE b == pc[1]
           i == pc[2]
           Unmarked(j, k) == \A m \in j..(k - 1) : code[b][m].op \notin {"start", "end"}
<1>1. i \in Nat \ {0} /\ EntryAtPoint(pc) = code[b][i]
  BY AtCounter
<1>2. CASE EntryAtPoint(pc).op = "end"
  <2>1. i \in 1..((i + 1) - 1) /\ code[b][i].op = "end" /\ Unmarked(i + 1, i + 1)
    BY <1>1, <1>2
  <2> QED BY <2>1 DEF Dead, DeadBefore
<1>3. CASE EntryAtPoint(pc).op \notin {"start", "end"} /\ Dead(b, i)
  <2>1. ASSUME NEW j \in Int, Unmarked(j, i)
        PROVE  Unmarked(j, i + 1)
    BY <1>1, <1>3, <2>1
  <2>2. \/ \E k \in 1..(i - 1) : code[b][k].op = "end" /\ Unmarked(k + 1, i)
        \/ b \in DeadAtEntry /\ Unmarked(1, i)
    BY <1>3 DEF Dead, DeadBefore
  <2> HIDE DEF Unmarked
  <2>3. \/ \E k \in 1..((i + 1) - 1) : code[b][k].op = "end" /\ Unmarked(k + 1, i + 1)
        \/ b \in DeadAtEntry /\ Unmarked(1, i + 1)
    BY <1>1, <2>1, <2>2
  <2> QED BY <2>3 DEF Dead, DeadBefore, Unmarked
<1> QED BY <1>2, <1>3

LEMMA OnwardHull ==
  ASSUME FunctionOK, Counter, Running, NEW q \in Guards, q[1] = pc[1],
         q[2] < pc[2] + 1, Unclosed(pc[1], q[2], pc[2])
  PROVE  /\ ~Closes(EntryAtPoint(pc))
         /\ q = pc \/ (q[2] < pc[2] /\ Unclosed(pc[1], q[2], pc[2] - 1))
<1>1. pc[2] \in Nat \ {0} /\ EntryAtPoint(pc) = code[pc[1]][pc[2]] /\ pc = <<pc[1], pc[2]>>
  BY AtCounter DEF Counter
<1>2. q = <<q[1], q[2]>> /\ q[2] \in Nat \ {0}
  BY GuardsOp, SiteFacts
<1>3. ~Closes(EntryAtPoint(pc))
  BY <1>1, <1>2 DEF Unclosed
<1>4. q[2] = pc[2] \/ (q[2] < pc[2] /\ Unclosed(pc[1], q[2], pc[2] - 1))
  BY <1>1, <1>2 DEF Unclosed
<1> QED BY <1>1, <1>2, <1>3, <1>4

LEMMA OnwardCounter ==
  ASSUME FunctionOK, Counter, Running, Onward, UNCHANGED functionVars
  PROVE  Counter' /\ pc'[1] = pc[1] /\ pc'[2] = pc[2] + 1
<1>1. pc[2] \in 1..Len(code[pc[1]]) /\ Len(code[pc[1]]) \in Nat
  BY AtCounter
<1>2. pc' = <<pc[1], pc[2] + 1>>
  BY DEF Onward
<1>3. pc'[1] = pc[1] /\ pc'[2] = pc[2] + 1 /\ code' = code
  BY <1>2 DEF functionVars
<1>4. Reachable' = Reachable
  BY SameFunction
<1>5. pc'[2] \in 1..(Len(code'[pc'[1]]) + 1)
  BY <1>1, <1>3
<1> QED BY <1>2, <1>3, <1>4, <1>5 DEF Counter

LEMMA AccessKeeps == RulesInv /\ Access => RulesInv'
<1> SUFFICES ASSUME RulesInv, Access PROVE RulesInv'
  OBVIOUS
<1>1. /\ Running /\ EntryAtPoint(pc).op \in Bases /\ Onward /\ UNCHANGED functionVars
      /\ scope' = scope
      /\ checked' = IF decision[pc] = "guard"
                    THEN checked \cup Bytes(EntryAtPoint(pc).op, hull[pc].bytes) ELSE checked
      /\ owed' = (IF decision[pc] = "guard" THEN owed \cup hull[pc].leads ELSE owed) \ {pc}
  BY DEF Access, Bases
<1>2. FunctionOK /\ Counter
  BY DEF RulesInv
<1>3. /\ pc'[1] = pc[1] /\ pc'[2] = pc[2] + 1 /\ Counter' /\ FunctionOK' /\ DecisionsOK'
  BY <1>1, <1>2, OnwardCounter, SameFunction DEF RulesInv
<1>4. /\ pc[1] \in Blocks /\ pc[2] \in Nat \ {0} /\ pc \in Sites
      /\ pc = <<pc[1], pc[2]>>
  BY <1>1, <1>2, AtCounter DEF Counter
<1>5. pc \in Guards /\ DecisionOK(pc)
  BY <1>1, <1>4 DEF RulesInv, DecisionsOK, Guards, BaseGuards, LocalGuards, Bases
<1>6. checked \subseteq checked'
  BY <1>1
<1>7. pc \in Left => SpanOf(pc) \subseteq checked'
  <2>1. CASE decision[pc] = "guard"
    <3>1. SpanOf(pc) \subseteq Bytes(EntryAtPoint(pc).op, hull[pc].bytes)
      BY <1>2, <1>4, <1>5, <2>1, CoveredBytes DEF DecisionOK
    <3> QED BY <1>1, <2>1, <3>1
  <2>2. CASE decision[pc] \in {"dominated", "merged"}
    BY <1>1, <1>6, <2>2, InvChecks DEF AccessChecked, SpanOf, Bases
  <2> QED BY <1>5, <2>1, <2>2 DEF DecisionOK
<1>8. AvailableChecked'
  <2> SUFFICES ASSUME NEW q \in Left, Available(q, pc[1], pc[2] + 1)
               PROVE  SpanOf(q) \subseteq checked'
    BY <1>1, <1>3, SameFunction DEF AvailableChecked
  <2>1. q = pc \/ Available(q, pc[1], pc[2])
    BY <1>1, <1>2, OnwardAvailable
  <2> QED BY <1>6, <1>7, <2>1 DEF RulesInv, AvailableChecked
<1>9. HullChecked'
  <2>1. hull' = hull /\ decision' = decision
    BY <1>1 DEF functionVars
  <2>2. ASSUME NEW q \in Guards, decision[q] = "guard", q[1] = pc[1],
               q[2] < pc[2] + 1, Unclosed(pc[1], q[2], pc[2])
        PROVE  Bytes(EntryAtPoint(q).op, hull[q].bytes) \subseteq checked'
    <3>1. q = pc \/ (q[2] < pc[2] /\ Unclosed(pc[1], q[2], pc[2] - 1))
      BY <1>1, <1>2, <2>2, OnwardHull
    <3> QED BY <1>1, <1>6, <2>2, <3>1 DEF RulesInv, HullChecked
  <2>3. pc'[2] - 1 = pc[2]
    BY <1>3, <1>4
  <2> QED BY <1>1, <1>3, <2>1, <2>2, <2>3, SameFunction DEF HullChecked, Bytes
<1>10. ScopeKnown'
  <2>1. scope = "end" => Dead(pc[1], pc[2] + 1)
    BY <1>1, <1>2, OnwardDead DEF RulesInv, ScopeKnown, Bases
  <2> QED BY <1>1, <1>3, <2>1, SameFunction DEF ScopeKnown
<1>11. OwedFollows'
  <2> SUFFICES ASSUME NEW p \in owed'
               PROVE  /\ p \in Guards /\ p[1] = pc[1] /\ pc[2] + 1 <= p[2]
                      /\ Unclosed(pc[1], pc[2] + 1, p[2])
    BY <1>1, <1>3, SameFunction DEF OwedFollows
  <2>1. /\ p \in Guards /\ p[1] = pc[1] /\ pc[2] <= p[2] /\ p # pc
        /\ Unclosed(pc[1], pc[2], p[2])
    <3>1. CASE p \in owed
      BY <1>1, <3>1 DEF RulesInv, OwedFollows
    <3>2. CASE decision[pc] = "guard" /\ p \in hull[pc].leads
      <4>1. p \in Guards /\ Leader(pc, p)
        BY <1>5, <3>2 DEF DecisionOK
      <4>2. p[2] \in Int
        BY <1>2, <4>1, GuardsOp, SiteFacts
      <4> QED BY <1>4, <4>1, <4>2 DEF Leader
    <3> QED BY <1>1, <3>1, <3>2
  <2>2. p = <<p[1], p[2]>> /\ p[2] \in Int
    BY <1>2, <2>1, GuardsOp, SiteFacts
  <2>3. pc[2] + 1 <= p[2]
    BY <1>4, <2>1, <2>2
  <2> QED BY <1>4, <2>1, <2>2, <2>3 DEF Unclosed
<1> QED BY <1>3, <1>8, <1>9, <1>10, <1>11 DEF RulesInv

\* Kill, ScopeMarker and Stop: instructions that close, so that nothing is
\* owed at them, and no hull outlives them.
LEMMA ClosingKeeps == RulesInv /\ (Kill \/ ScopeMarker \/ Stop) => RulesInv'
<1> SUFFICES ASSUME RulesInv, Kill \/ ScopeMarker \/ Stop PROVE RulesInv'
  OBVIOUS
<1>1. /\ Running /\ Onward /\ UNCHANGED functionVars /\ owed' = owed
      /\ EntryAtPoint(pc).op \in {"kill", "stop", "start", "end"}
      /\ EntryAtPoint(pc).op # "stop" \/ checked' = checked
      /\ \/ scope' = scope /\ EntryAtPoint(pc).op \notin {"start", "end"}
         \/ scope' = EntryAtPoint(pc).op
  BY DEF Kill, ScopeMarker, Stop
<1>2. FunctionOK /\ Counter
  BY DEF RulesInv
<1>3. /\ pc'[1] = pc[1] /\ pc'[2] = pc[2] + 1 /\ Counter' /\ FunctionOK' /\ DecisionsOK'
  BY <1>1, <1>2, OnwardCounter, SameFunction DEF RulesInv
<1>4. pc[2] \in Nat \ {0} /\ pc \notin Guards /\ Closes(EntryAtPoint(pc))
  BY <1>1, <1>2, AtCounter, GuardsOp DEF Bases, Closes, KillsGuards
<1>5. AvailableChecked'
  <2> SUFFICES ASSUME NEW q \in Left, Available(q, pc[1], pc[2] + 1)
               PROVE  SpanOf(q) \subseteq checked'
    BY <1>1, <1>3, SameFunction DEF AvailableChecked
  <2>1. ~KillsGuards(EntryAtPoint(pc)) /\ (q = pc \/ Available(q, pc[1], pc[2]))
    BY <1>1, <1>2, OnwardAvailable
  <2>2. checked' = checked /\ q # pc
    BY <1>1, <1>4, <2>1 DEF KillsGuards, Left
  <2> QED BY <2>1, <2>2 DEF RulesInv, AvailableChecked
<1>6. HullChecked'
  <2>1. decision' = decision /\ pc'[2] - 1 = pc[2]
    BY <1>1, <1>3, <1>4 DEF functionVars
  <2>2. ASSUME NEW q \in Guards, q[1] = pc[1], q[2] < pc[2] + 1,
               Unclosed(pc[1], q[2], pc[2])
        PROVE  FALSE
    BY <1>1, <1>2, <1>4, <2>2, OnwardHull
  <2> QED BY <1>1, <1>3, <2>1, <2>2, SameFunction DEF HullChecked
<1>7. ScopeKnown'
  <2>1. scope' = "end" => Dead(pc[1], pc[2] + 1)
    BY <1>1, <1>2, OnwardDead DEF RulesInv, ScopeKnown
  <2> QED BY <1>1, <1>3, <2>1, SameFunction DEF ScopeKnown
<1>8. OwedFollows'
  <2>1. owed = {}
    BY <1>1, InvOwes DEF NothingCheckedEarly
  <2> QED BY <1>1, <2>1 DEF OwedFollows
<1> QED BY <1>3, <1>5, <1>6, <1>7, <1>8 DEF RulesInv

LEMMA BranchKeeps == RulesInv /\ Branch => RulesInv'
<1> SUFFICES ASSUME RulesInv, Branch PROVE RulesInv'
  OBVIOUS
<1>1. PICK b \in flow[pc[1]] : pc' = <<b, 1>>
  BY DEF Branch
<1>2. /\ ~Running /\ UNCHANGED functionVars /\ checked' = checked /\ owed' = owed
      /\ scope' = scope /\ pc'[1] = b /\ pc'[2] = 1
  BY <1>1 DEF Branch
<1>3. FunctionOK /\ Counter /\ FunctionOK' /\ DecisionsOK'
  BY <1>2, SameFunction DEF RulesInv
<1>4. /\ pc[1] \in Blocks /\ pc[2] = Len(code[pc[1]]) + 1 /\ pc[1] \in Reachable
  BY <1>2, <1>3, AtCounter DEF Counter
<1>5. b \in Reachable /\ b \in Blocks
  BY <1>1, <1>3, <1>4, ReachFlows DEF Reachable
<1>6. Counter'
  <2>1. Len(code[b]) \in Nat /\ code' = code
    BY <1>2, <1>3, <1>5, SiteAt DEF functionVars
  <2>2. 1 \in 1..(Len(code[b]) + 1)
    BY <2>1
  <2>3. Reachable' = Reachable
    BY <1>2, SameFunction
  <2> QED BY <1>1, <1>2, <1>5, <2>1, <2>2, <2>3 DEF Counter
<1>7. \A q \in Guards : q[2] \in Nat \ {0}
  BY <1>3, GuardsOp, SiteFacts
<1>8. AvailableChecked'
  <2> SUFFICES ASSUME NEW q \in Left, Available(q, b, 1)
               PROVE  SpanOf(q) \subseteq checked
    BY <1>2, SameFunction DEF AvailableChecked
  <2>1. q[2] \in Nat \ {0}
    BY <1>7 DEF Left
  <2>2. b \in AvailableIn(q)
    BY <2>1 DEF Available, Passes
  <2>3. Available(q, pc[1], pc[2])
    BY <1>4, <2>2, AvailableFlows DEF Available
  <2> QED BY <2>3 DEF RulesInv, AvailableChecked
<1>9. HullChecked'
  <2>1. \A q \in Guards : ~(q[2] < 1)
    BY <1>7
  <2> QED BY <1>2, <2>1, SameFunction DEF HullChecked
<1>10. ScopeKnown'
  <2>1. ASSUME scope = "end" PROVE Dead(b, 1)
    <3>1. LeavesDead(pc[1], pc[1] \in DeadAtEntry)
      BY <1>4, <2>1 DEF RulesInv, ScopeKnown, Dead, LeavesDead
    <3>2. b \in DeadAtEntry
      BY <1>4, <1>5, <3>1, DeadFlows
    <3> QED BY <3>2 DEF Dead, DeadBefore
  <2> QED BY <1>2, <2>1, SameFunction DEF ScopeKnown
<1>11. OwedFollows'
  <2>1. owed = {}
    BY <1>2, InvOwes DEF NothingCheckedEarly
  <2> QED BY <1>2, <2>1 DEF OwedFollows
<1> QED BY <1>3, <1>6, <1>8, <1>9, <1>10, <1>11 DEF RulesInv

LEMMA RulesStutter == RulesInv /\ UNCHANGED ruleVars => RulesInv'
<1> SUFFICES ASSUME RulesInv, UNCHANGED ruleVars PROVE RulesInv'
  OBVIOUS
<1>1. /\ UNCHANGED functionVars /\ pc' = pc /\ checked' = checked /\ owed' = owed
      /\ scope' = scope /\ decision' = decision /\ hull' = hull /\ code' = code
  BY DEF ruleVars, functionVars
<1>2. FunctionOK' /\ DecisionsOK' /\ Counter'
  BY <1>1, SameFunction DEF RulesInv, Counter
<1>3. AvailableChecked' /\ ScopeKnown' /\ OwedFollows'
  BY <1>1, SameFunction DEF RulesInv, AvailableChecked, ScopeKnown, OwedFollows
<1>4. HullChecked'
  BY <1>1, SameFunction DEF RulesInv, HullChecked, Bytes
<1> QED BY <1>2, <1>3, <1>4 DEF RulesInv

LEMMA RulesInvariant == RulesSpec => []RulesInv
<1>1. RulesInv /\ [RulesNext]_ruleVars => RulesInv'
  BY AccessKeeps, ClosingKeeps, BranchKeeps, RulesStutter DEF RulesNext
<1> QED BY <1>1, RulesInitially, PTL DEF RulesSpec

\* A guard is removed only if its access is safe on every path, in every
\* execution of every function over any graph: its bytes are checked with no
\* kill since (removeDominated, mergeInBlocks), or its local is in scope
\* (Scopes::mayBeOutOfScope).
THEOREM RemovedGuardsSafe == RulesSpec => []AccessChecked
BY RulesInvariant, InvChecks, PTL

\* A hull is checked early only for accesses the execution goes on to make:
\* nothing is owed where it may leave the block, stop or release
\* (mergeInBlocks).
THEOREM MergedGuardsOwed == RulesSpec => []NothingCheckedEarly
BY RulesInvariant, InvOwes, PTL

-----------------------------------------------------------------------------
(* Inline checks.  What a form decides from whole granules is what the     *)
(* bytes say, as long as the access fits the shadow that is read.          *)
(***************************************************************************)
LEMMA Split ==
  ASSUME NEW g \in Nat \ {0}, NEW k \in Nat
  PROVE  /\ k \div g \in Nat /\ k % g \in 0..(g - 1)
         /\ k = g * (k \div g) + (k % g)
  OBVIOUS

LEMMA Unsplit ==
  ASSUME NEW g \in Nat \ {0}, NEW d \in Nat, NEW r \in 0..(g - 1)
  PROVE  (g * d + r) \div g = d /\ (g * d + r) % g = r /\ g * d \in Nat
  OBVIOUS

LEMMA Products ==
  ASSUME NEW g \in Nat, NEW a \in Int, NEW b \in Int, a <= b
  PROVE  g * a \in Int /\ g * b \in Int /\ g * a <= g * b
<1>1. b - a \in Nat /\ g * (b - a) \in Nat /\ g * a \in Int /\ g * b \in Int
  OBVIOUS
<1>2. g * (b - a) = g * b - g * a
  OBVIOUS
<1> QED BY <1>1, <1>2

\* An access and a shadow that the program can meet.
Known == Values \cup UNION Roots
AccessOK ==
  /\ shadowBytes \in [1..(Chunk + 1) -> Values]
  /\ access.offset \in 0..(CheckGranule - 1) /\ access.width \in Nat
  /\ access.null \in BOOLEAN /\ access.runtime \in BOOLEAN /\ access.jumpOk \in BOOLEAN
  /\ access.baseIsRoot \in BOOLEAN /\ access.aligned \in BOOLEAN
  /\ access.root \in Roots
  /\ access.members \in MemberSets(access.width)
  /\ access.members # {} => access.width <= MaxInline
  /\ access.runtime => access.members = {} /\ ~access.aligned /\ ~access.null
  /\ access.baseIsRoot => \A r \in access.root : IsPoisoned(r)

LEMMA InlineConstants ==
  /\ CheckGranule \in Nat \ {0} /\ Chunk \in Nat \ {0}
  /\ MaxInline \in Int /\ CheckGranule <= MaxInline
  /\ CheckGranule * Chunk \in Nat
  /\ MaxInline = CheckGranule * Chunk - (CheckGranule - 1)
<1>1. CheckGranule \in Nat \ {0} /\ Chunk \in Nat /\ CheckGranule <= MaxInline
  BY InlineAssumption
<1>2. CheckGranule * Chunk \in Nat
  BY <1>1
<1>3. Chunk # 0
  <2>1. SUFFICES ASSUME Chunk = 0 PROVE FALSE
    OBVIOUS
  <2>2. CheckGranule * Chunk = 0
    BY <1>1, <2>1
  <2> QED BY <1>1, <2>2 DEF MaxInline
<1> QED BY <1>1, <1>2, <1>3 DEF MaxInline

\* A granule's value, and its bytes that are good.
LEMMA GranulesOfAddress ==
  ASSUME NEW v \in Known
  PROVE  /\ v.kind \in {"whole", "partial", "poison"}
         /\ GoodBytes(v) \in 0..CheckGranule
         /\ IsWhole(v) <=> GoodBytes(v) = CheckGranule
         /\ IsPoisoned(v) <=> GoodBytes(v) = 0
<1>1. /\ v.kind \in {"whole", "partial", "poison"}
      /\ v.kind = "partial" => v.bytes \in 1..(CheckGranule - 1)
      /\ CheckGranule \in Nat \ {0}
  BY InlineAssumption DEF Known
<1>2. CASE v.kind = "whole"
  BY <1>1, <1>2 DEF GoodBytes, IsWhole, IsPoisoned
<1>3. CASE v.kind = "partial"
  BY <1>1, <1>3 DEF GoodBytes, IsWhole, IsPoisoned
<1>4. CASE v.kind = "poison"
  BY <1>1, <1>4 DEF GoodBytes, IsWhole, IsPoisoned
<1> QED BY <1>1, <1>2, <1>3, <1>4

\* The access, its last byte and that byte's granule.
LEMMA Extent ==
  ASSUME AccessOK, access.width > 0
  PROVE  /\ access.offset \in Nat /\ access.width \in Nat
         /\ LastOffset \in Nat /\ access.offset <= LastOffset
         /\ (access.offset + access.width) - 1 = LastOffset
         /\ LastGranule \in Nat /\ LastOffset % CheckGranule \in 0..(CheckGranule - 1)
         /\ LastOffset = CheckGranule * LastGranule + (LastOffset % CheckGranule)
         /\ access.width <= MaxInline => LastGranule < Chunk
<1>1. /\ access.offset \in 0..(CheckGranule - 1) /\ access.width \in Nat
      /\ CheckGranule \in Nat \ {0}
  BY InlineConstants DEF AccessOK
<1>2. /\ LastOffset \in Nat /\ access.offset <= LastOffset
      /\ (access.offset + access.width) - 1 = LastOffset
  BY <1>1 DEF LastOffset
<1>3. /\ LastGranule \in Nat /\ LastOffset % CheckGranule \in 0..(CheckGranule - 1)
      /\ LastOffset = CheckGranule * LastGranule + (LastOffset % CheckGranule)
  BY <1>1, <1>2, Split DEF LastGranule
<1>4. ASSUME access.width <= MaxInline, ~(LastGranule < Chunk) PROVE FALSE
  <2>1. LastOffset <= CheckGranule * Chunk - 1
    BY <1>1, <1>4, InlineConstants DEF LastOffset
  <2>2. CheckGranule * Chunk <= CheckGranule * LastGranule
    BY <1>3, <1>4, InlineConstants, Products
  <2> QED BY <1>3, <2>1, <2>2, InlineConstants
<1> QED BY <1>1, <1>2, <1>3, <1>4

LEMMA ShadowKnown ==
  ASSUME AccessOK, NEW i \in 0..Chunk
  PROVE  ShadowAt(i) \in Known
<1>1. i + 1 \in 1..(Chunk + 1)
  BY InlineConstants
<1> QED BY <1>1 DEF ShadowAt, AccessOK, Known

\* A word of shadow: the bytes are good exactly if every granule but the
\* last is whole and the last holds the access's last byte (chunkCheck).
WordGood == /\ \A i \in 0..(LastGranule - 1) : IsWhole(ShadowAt(i))
            /\ ~EndsPast(ShadowAt(LastGranule))

LEMMA LastHolds ==
  ASSUME AccessOK, access.width > 0, access.width <= MaxInline
  PROVE  ~EndsPast(ShadowAt(LastGranule))
           <=> LastOffset % CheckGranule < GoodBytes(ShadowAt(LastGranule))
<1>1. ShadowAt(LastGranule) \in Known
  BY Extent, InlineConstants, ShadowKnown
<1>2. LastOffset % CheckGranule \in 0..(CheckGranule - 1) /\ CheckGranule \in Nat
  BY Extent, InlineConstants
<1> QED BY <1>1, <1>2, GranulesOfAddress DEF EndsPast

LEMMA WordExact ==
  ASSUME AccessOK, access.width > 0, access.width <= MaxInline
  PROVE  AllGood(access.offset, access.offset + access.width) <=> WordGood
<1> DEFINE g == CheckGranule
           last == LastOffset
           top == LastGranule
<1>1. /\ g \in Nat \ {0} /\ access.offset \in 0..(g - 1) /\ top \in Nat /\ top < Chunk
      /\ last \in Nat /\ access.offset <= last
      /\ (access.offset + access.width) - 1 = last
      /\ last % g \in 0..(g - 1) /\ last = g * top + (last % g) /\ g * top \in Nat
  <2>1. access.offset \in 0..(g - 1) /\ g \in Nat \ {0}
    BY InlineConstants DEF AccessOK
  <2>2. /\ top \in Nat /\ top < Chunk /\ last \in Nat /\ access.offset <= last
        /\ (access.offset + access.width) - 1 = last
        /\ last % g \in 0..(g - 1) /\ last = g * top + (last % g)
    BY Extent
  <2>3. g * top \in Nat
    BY <2>1, <2>2
  <2> QED BY <2>1, <2>2, <2>3
<1>2. \A i \in 0..top : /\ ShadowAt(i) \in Known /\ GoodBytes(ShadowAt(i)) \in 0..g
                        /\ IsWhole(ShadowAt(i)) <=> GoodBytes(ShadowAt(i)) = g
  BY <1>1, InlineConstants, ShadowKnown, GranulesOfAddress
<1>3. AllGood(access.offset, access.offset + access.width)
        <=> \A k \in access.offset..last : ByteGood(k)
  BY <1>1 DEF AllGood
<1>4. ~EndsPast(ShadowAt(top)) <=> last % g < GoodBytes(ShadowAt(top))
  BY LastHolds
<1>5. ASSUME \A k \in access.offset..last : ByteGood(k)
      PROVE  WordGood
  <2>1. ASSUME NEW i \in 0..(top - 1)
        PROVE  IsWhole(ShadowAt(i))
    <3> DEFINE k == g * i + (g - 1)
    <3>1. i \in Nat /\ g - 1 \in 0..(g - 1) /\ i + 1 <= top
      BY <1>1
    <3>2. g * i \in Nat /\ k \div g = i /\ k % g = g - 1
      BY <1>1, <3>1, Unsplit
    <3>3. g * (i + 1) <= g * top /\ g * (i + 1) = g * i + g
      BY <1>1, <3>1, Products
    <3>4. k \in access.offset..last
      BY <1>1, <3>2, <3>3
    <3>5. g - 1 < GoodBytes(ShadowAt(i))
      BY <1>5, <3>2, <3>4 DEF ByteGood
    <3>6. i \in 0..top
      BY <1>1, <3>1
    <3> QED BY <1>1, <1>2, <3>5, <3>6
  <2>2. ByteGood(last)
    BY <1>1, <1>5
  <2>3. last % g < GoodBytes(ShadowAt(top))
    BY <2>2 DEF ByteGood, LastGranule
  <2> QED BY <1>4, <2>1, <2>3 DEF WordGood
<1>6. ASSUME WordGood, NEW k \in access.offset..last
      PROVE  ByteGood(k)
  <2> DEFINE d == k \div g
             r == k % g
  <2>1. k \in Nat /\ k <= last
    BY <1>1
  <2>2. d \in Nat /\ r \in 0..(g - 1) /\ k = g * d + r
    BY <1>1, <2>1, Split
  <2> HIDE DEF d, r
  <2>3. d <= top
    <3>1. SUFFICES ASSUME ~(d <= top) PROVE FALSE
      OBVIOUS
    <3>2. top + 1 <= d
      BY <1>1, <2>2, <3>1
    <3>3. g * (top + 1) <= g * d /\ g * (top + 1) = g * top + g /\ g * d \in Int
      BY <1>1, <2>2, <3>2, Products
    <3> QED BY <1>1, <2>1, <2>2, <3>3
  <2>4. CASE d < top
    <3>1. d \in 0..top /\ d \in 0..(top - 1)
      BY <1>1, <2>2, <2>4
    <3>2. GoodBytes(ShadowAt(d)) = g
      BY <1>2, <1>6, <3>1 DEF WordGood
    <3> QED BY <1>1, <2>2, <3>2 DEF ByteGood, d, r
  <2>5. CASE d = top
    <3>1. r <= last % g
      BY <1>1, <2>1, <2>2, <2>5
    <3>2. last % g < GoodBytes(ShadowAt(top)) /\ GoodBytes(ShadowAt(top)) \in Int
      BY <1>1, <1>2, <1>4, <1>6 DEF WordGood
    <3>3. r < GoodBytes(ShadowAt(d))
      BY <1>1, <2>2, <2>5, <3>1, <3>2
    <3> QED BY <3>3 DEF ByteGood, d, r
  <2> QED BY <1>1, <2>2, <2>3, <2>4, <2>5
<1> QED BY <1>3, <1>5, <1>6

\* An access of one aligned granule does not leave it.
LEMMA Below ==
  ASSUME NEW g \in Nat \ {0}, NEW k \in 0..(g - 1)
  PROVE  k \div g = 0
  OBVIOUS

LEMMA Multiple ==
  ASSUME NEW w \in Nat \ {0}, NEW k \in Nat, k % w = 0
  PROVE  \E a \in Nat : k = w * a
<1>1. k \div w \in Nat /\ k = w * (k \div w) + (k % w)
  BY Split
<1>2. w * (k \div w) \in Nat
  BY <1>1
<1>3. k = w * (k \div w)
  BY <1>1, <1>2
<1> QED BY <1>1, <1>3

LEMMA AlignedFits ==
  ASSUME NEW g \in Nat \ {0}, NEW w \in 1..g, NEW o \in 0..(g - 1),
         o % w = 0, g % w = 0
  PROVE  o + w <= g
<1>1. w \in Nat \ {0} /\ o \in Nat
  OBVIOUS
<1>2. PICK a \in Nat : o = w * a
  BY <1>1, Multiple
<1>3. PICK b \in Nat : g = w * b
  BY <1>1, Multiple
<1>4. a < b
  <2>1. SUFFICES ASSUME b <= a PROVE FALSE
    OBVIOUS
  <2>2. w * b <= w * a
    BY <1>1, <2>1, Products
  <2> QED BY <1>2, <1>3, <2>2
<1>5. a + 1 <= b /\ a + 1 \in Int
  BY <1>4
<1>6. w * (a + 1) <= w * b
  BY <1>1, <1>5, Products
<1>7. w * (a + 1) = w * a + w
  BY <1>1
<1> QED BY <1>1, <1>2, <1>3, <1>6, <1>7

LEMMA OneFits ==
  ASSUME AccessOK, access.width > 0, OneGranule
  PROVE  LastGranule = 0
<1>1. /\ CheckGranule \in Nat \ {0} /\ access.offset \in 0..(CheckGranule - 1)
      /\ access.width \in 1..CheckGranule /\ access.offset % access.width = 0
      /\ IsPowerOf2(access.width)
  BY InlineConstants DEF AccessOK, OneGranule
<1>2. CheckGranule % access.width = 0
  BY <1>1, InlineAssumption
<1>3. access.offset + access.width <= CheckGranule
  BY <1>1, <1>2, AlignedFits
<1>4. LastOffset \in 0..(CheckGranule - 1)
  BY <1>1, <1>3 DEF LastOffset
<1> QED BY <1>1, <1>4, Below DEF LastGranule

\* The members of a merged guard are bytes of its hull, its first among them.
LEMMA MembersGood ==
  ASSUME AccessOK, access.width > 0
  PROVE  /\ AllGood(access.offset, access.offset + access.width) => AccessGood
         /\ AccessGood => ByteGood(access.offset)
<1>1. access.offset \in Nat /\ access.width \in Nat \ {0}
  BY InlineConstants DEF AccessOK
<1>2. CASE access.members = {}
  <2>1. access.offset \in access.offset..((access.offset + access.width) - 1)
    BY <1>1
  <2> QED BY <1>2, <2>1 DEF AccessGood, AllGood
<1>3. CASE access.members # {}
  <2>1. /\ access.members = {<<0, 1>>, <<access.width - 1, access.width>>}
        /\ access.width >= 2
    BY <1>1, <1>3 DEF AccessOK, MemberSets
  <2>2. AccessGood <=> /\ AllGood(access.offset + 0, access.offset + 1)
                       /\ AllGood(access.offset + (access.width - 1), access.offset + access.width)
    <3> DEFINE first == <<0, 1>>
               final == <<access.width - 1, access.width>>
    <3>1. /\ MemberGood(first) <=> AllGood(access.offset + 0, access.offset + 1)
          /\ MemberGood(final) <=> AllGood(access.offset + (access.width - 1),
                                          access.offset + access.width)
      BY DEF MemberGood
    <3>2. access.members = {first, final}
      BY <2>1
    <3> HIDE DEF first, final
    <3>3. AccessGood <=> MemberGood(first) /\ MemberGood(final)
      BY <1>3, <3>2 DEF AccessGood
    <3> QED BY <3>1, <3>3
  <2>3. access.offset + 0 = access.offset /\ access.offset \in access.offset..((access.offset + 1) - 1)
    BY <1>1
  <2>4. ASSUME AllGood(access.offset, access.offset + access.width)
        PROVE  /\ AllGood(access.offset, access.offset + 1)
               /\ AllGood(access.offset + (access.width - 1), access.offset + access.width)
    <3>1. /\ access.offset..((access.offset + 1) - 1)
                \subseteq access.offset..((access.offset + access.width) - 1)
          /\ (access.offset + (access.width - 1))..((access.offset + access.width) - 1)
                \subseteq access.offset..((access.offset + access.width) - 1)
      BY <1>1, <2>1
    <3> QED BY <2>4, <3>1 DEF AllGood
  <2>5. AllGood(access.offset, access.offset + 1) => ByteGood(access.offset)
    BY <2>3 DEF AllGood
  <2> QED BY <2>2, <2>3, <2>4, <2>5
<1> QED BY <1>2, <1>3

LEMMA FirstGranule ==
  ASSUME AccessOK, access.width > 0, AccessGood
  PROVE  ~IsPoisoned(ShadowAt(0))
<1>1. access.offset \in 0..(CheckGranule - 1) /\ CheckGranule \in Nat \ {0}
  BY InlineConstants DEF AccessOK
<1>2. access.offset \div CheckGranule = 0
  BY <1>1, Below
<1>3. access.offset % CheckGranule \in 0..(CheckGranule - 1)
  BY <1>1, Split
<1>4. access.offset % CheckGranule < GoodBytes(ShadowAt(0))
  BY <1>2, MembersGood DEF ByteGood
<1>5. 0 \in 0..Chunk
  BY InlineConstants
<1>6. ShadowAt(0) \in Known
  BY <1>5, ShadowKnown
<1> QED BY <1>3, <1>4, <1>6, GranulesOfAddress

LEMMA RootKnown ==
  ASSUME AccessOK, HasRoot
  PROVE  RootValue \in Known /\ RootValue \in access.root
<1>1. RootValue \in access.root
  BY DEF HasRoot, Root, RootValue
<1> QED BY <1>1 DEF AccessOK, Known

\* Single: a pass without a call is good and of the root's color.
LEMMA SingleExact ==
  ASSUME AccessOK, access.width > 0, OneGranule
  PROVE  /\ access.null => Single = "null"
         /\ ~access.null =>
              /\ Single \in {"pass", "guard", "jump"}
              /\ Single = "pass" => WordGood /\ AccessColored
              /\ Single = "guard" => ~HasRoot
<1> DEFINE v == ShadowAt(0)
<1>1. LastGranule = 0 /\ access.width <= MaxInline
  BY OneFits, InlineConstants DEF OneGranule, AccessOK
<1>2. 0 \in 0..Chunk
  BY InlineConstants
<1>3. v \in Known
  BY <1>2, ShadowKnown
<1>4. WordGood <=> ~EndsPast(v)
  BY <1>1 DEF WordGood
<1>5. /\ IsWhole(v) => ~EndsPast(v) /\ ~IsPoisoned(v)
      /\ IsPoisoned(v) => EndsPast(v)
  BY DEF EndsPast, IsWhole, IsPoisoned
<1> HIDE DEF v
<1>6. CASE HasRoot
  <2> DEFINE r == RootValue
             differs == \/ IsWhole(v) /\ IsWhole(r) /\ v # r
                        \/ v.class # r.class
  <2>1. r \in Known /\ r \in access.root
    BY <1>6, RootKnown
  <2>2. Single = IF /\ IsWhole(r) /\ v = r
                      /\ (access.null => access.baseIsRoot) THEN "pass"
                 ELSE IF access.null THEN "null"
                 ELSE IF EndsPast(v) \/ differs THEN "jump" ELSE "pass"
    BY <1>6 DEF Single, v, AccessOK
  <2>3. IsPoisoned(r) => ~IsWhole(r)
    BY DEF IsWhole, IsPoisoned
  <2>4. access.baseIsRoot => IsPoisoned(r)
    BY <2>1 DEF AccessOK
  <2>5. ASSUME IsWhole(r), v = r PROVE WordGood /\ ColorAgrees(v, r)
    BY <1>4, <1>5, <2>3, <2>5 DEF ColorAgrees
  <2>6. ASSUME ~EndsPast(v), ~differs PROVE WordGood /\ ColorAgrees(v, r)
    <3>1. ~IsPoisoned(v) /\ v.class = r.class
      BY <1>5, <2>6
    <3>2. ~IsPoisoned(r)
      BY <1>3, <2>1, <3>1, InlineAssumption DEF Known
    <3> QED BY <1>4, <2>6, <3>1, <3>2 DEF ColorAgrees
  <2> HIDE DEF differs, r
  <2>7. ColorAgrees(v, r) => AccessColored
    BY DEF AccessColored, v, r
  <2> QED BY <1>6, <2>2, <2>3, <2>4, <2>5, <2>6, <2>7
<1>7. CASE ~HasRoot
  <2>1. Single = IF IsWhole(v) /\ ~access.null THEN "pass"
                 ELSE IF access.null THEN "null"
                 ELSE IF EndsPast(v) THEN "guard" ELSE "pass"
    BY <1>7 DEF Single, v
  <2>2. AccessColored
    BY <1>7 DEF AccessColored
  <2> QED BY <1>4, <1>5, <1>7, <2>1, <2>2
<1> QED BY <1>6, <1>7

LEMMA PairExact ==
  ASSUME AccessOK, access.width > 0, access.width <= CheckGranule
  PROVE  /\ access.null => PairCheck = "null"
         /\ ~access.null => /\ PairCheck \in {"pass", "guard"}
                            /\ PairCheck = "pass" => WordGood
<1>1. /\ LastGranule \in Nat /\ LastGranule < Chunk /\ access.width <= MaxInline
      /\ access.width \in Nat /\ Chunk \in Nat
  BY Extent, InlineConstants
<1>2. LastGranule <= 1
  <2>1. /\ access.offset \in 0..(CheckGranule - 1) /\ CheckGranule \in Nat \ {0}
        /\ LastOffset = (access.offset + access.width) - 1
        /\ LastOffset % CheckGranule \in Nat
        /\ LastOffset = CheckGranule * LastGranule + (LastOffset % CheckGranule)
    BY <1>1, Extent, InlineConstants DEF AccessOK
  <2>2. SUFFICES ASSUME 2 <= LastGranule PROVE FALSE
    BY <1>1
  <2>3. CheckGranule * 2 <= CheckGranule * LastGranule /\ CheckGranule * LastGranule \in Int
    BY <1>1, <2>1, <2>2, Products
  <2>4. CheckGranule * 2 = CheckGranule + CheckGranule
    BY <2>1
  <2> QED BY <1>1, <2>1, <2>3, <2>4
<1>3. PairCheck = IF IsWhole(ShadowAt(0)) /\ IsWhole(ShadowAt(1)) /\ ~access.null THEN "pass"
                  ELSE IF access.null THEN "null"
                  ELSE IF (LastGranule # 0 /\ ~IsWhole(ShadowAt(0))) \/ EndsPast(ShadowAt(LastGranule))
                       THEN "guard" ELSE "pass"
  BY DEF PairCheck
<1>4. LastGranule \in {0, 1}
  BY <1>1, <1>2
<1>5. \A i \in 0..(LastGranule - 1) : i = 0 /\ LastGranule # 0
  BY <1>1, <1>4
<1>6. IsWhole(ShadowAt(0)) /\ IsWhole(ShadowAt(1)) => WordGood
  BY <1>4, <1>5 DEF WordGood, EndsPast
<1>7. (LastGranule # 0 => IsWhole(ShadowAt(0))) /\ ~EndsPast(ShadowAt(LastGranule)) => WordGood
  BY <1>5 DEF WordGood
<1> QED BY <1>3, <1>6, <1>7

LEMMA WordFormExact ==
  ASSUME AccessOK, access.width > 0, access.width <= MaxInline, NEW fast \in BOOLEAN
  PROVE  /\ access.null => Word(fast) = "null"
         /\ ~access.null => /\ Word(fast) \in {"pass", "guard"}
                            /\ Word(fast) = "pass" => WordGood
<1>1. /\ LastGranule \in Nat /\ access.width \in Nat /\ CheckGranule \in Nat \ {0}
      /\ access.offset \in 0..(CheckGranule - 1)
      /\ LastOffset = (access.offset + access.width) - 1
      /\ LastOffset % CheckGranule \in Nat
      /\ LastOffset = CheckGranule * LastGranule + (LastOffset % CheckGranule)
  BY Extent, InlineConstants DEF AccessOK
<1>2. LastGranule < Reach
  <2> DEFINE n == (CheckGranule - 1 + access.width + CheckGranule - 1)
  <2>1. n \in Nat
    BY <1>1
  <2>2. /\ Reach \in Nat /\ n % CheckGranule \in 0..(CheckGranule - 1)
        /\ n = CheckGranule * Reach + (n % CheckGranule)
    BY <1>1, <2>1, Split DEF Reach
  <2>3. n < CheckGranule * Reach + CheckGranule /\ CheckGranule * Reach \in Nat
    BY <1>1, <2>2
  <2>4. LastOffset < CheckGranule * Reach
    BY <1>1, <2>3
  <2>5. SUFFICES ASSUME Reach <= LastGranule PROVE FALSE
    BY <1>1, <2>2
  <2>6. CheckGranule * Reach <= CheckGranule * LastGranule /\ CheckGranule * LastGranule \in Int
    BY <1>1, <2>2, <2>5, Products
  <2> QED BY <1>1, <2>3, <2>4, <2>6
<1>3. Reach \in Int
  BY <1>1 DEF Reach
<1>4. (\A i \in 0..(Reach - 1) : IsWhole(ShadowAt(i))) => WordGood
  <2>1. LastGranule \in 0..(Reach - 1) /\ 0..(LastGranule - 1) \subseteq 0..(Reach - 1)
    BY <1>1, <1>2, <1>3
  <2> QED BY <2>1 DEF WordGood, EndsPast
<1>5. WordGood <=> ~((\E i \in 0..(LastGranule - 1) : ~IsWhole(ShadowAt(i)))
                       \/ EndsPast(ShadowAt(LastGranule)))
  BY DEF WordGood
<1> QED BY <1>4, <1>5 DEF Word

\* What each form says of an access.
LEMMA FormExact ==
  ASSUME AccessOK, access.width > 0
  PROVE  /\ access.null /\ access.width <= MaxInline => Form = "null"
         /\ access.width > MaxInline => Form = "guard" /\ ~OneGranule
         /\ ~access.null =>
              /\ Form \in {"pass", "guard", "jump"}
              /\ Form = "pass" => AccessGood
              /\ Form = "pass" /\ OneGranule => AccessColored
              /\ Form = "guard" /\ OneGranule => ~HasRoot
<1>1. access.width \in Nat /\ CheckGranule <= MaxInline /\ MaxInline \in Int /\ CheckGranule \in Nat
  BY InlineConstants DEF AccessOK
<1>2. ASSUME access.width <= MaxInline, WordGood PROVE AccessGood
  BY <1>2, WordExact, MembersGood
<1>3. OneGranule => access.width <= MaxInline
  BY <1>1 DEF OneGranule
<1>4. CASE access.width > MaxInline
  <2>1. access.width # 0 /\ ~OneGranule /\ ~(access.width <= MaxInline)
    BY <1>1, <1>3, <1>4
  <2>2. Form = "guard"
    BY <1>4, <2>1, Zenon DEF Form
  <2> QED BY <2>1, <2>2
<1>5. CASE access.width <= MaxInline /\ access.runtime
  <2>1. /\ access.width # 0 /\ ~(access.width > MaxInline)
        /\ ~OneGranule /\ ~access.null
    BY <1>1, <1>5 DEF AccessOK, OneGranule
  <2>2. Form = Word(FALSE)
    BY <1>5, <2>1, Zenon DEF Form
  <2>3. /\ Word(FALSE) \in {"pass", "guard"}
        /\ Word(FALSE) = "pass" => WordGood
    BY <1>5, <2>1, WordFormExact
  <2> QED BY <1>1, <1>2, <1>5, <2>1, <2>2, <2>3
<1>6. CASE access.width <= MaxInline /\ ~access.runtime /\ OneGranule
  <2>0. access.width # 0 /\ ~(access.width > MaxInline)
    BY <1>1, <1>6
  <2>1. Form = Single
    BY <1>6, <2>0, Zenon DEF Form
  <2>2. ~(access.width > MaxInline)
    BY <2>0
  <2> QED BY <1>2, <1>6, <2>1, <2>2, SingleExact
<1>7. CASE access.width <= MaxInline /\ ~access.runtime /\ ~OneGranule
  <2>1. access.width # 0 /\ ~(access.width > MaxInline)
    BY <1>1, <1>7
  <2>2. Form = IF access.width <= CheckGranule THEN PairCheck ELSE Word(TRUE)
    BY <1>7, <2>1, Zenon DEF Form
  <2>3. CASE access.width <= CheckGranule
    <3>1. Form = PairCheck
      BY <2>2, <2>3, Zenon
    <3> QED BY <1>2, <1>7, <2>1, <2>3, <3>1, PairExact
  <2>4. CASE ~(access.width <= CheckGranule)
    <3>1. Form = Word(TRUE)
      BY <2>2, <2>4, Zenon
    <3>2. /\ access.null => Word(TRUE) = "null"
          /\ ~access.null => /\ Word(TRUE) \in {"pass", "guard"}
                             /\ Word(TRUE) = "pass" => WordGood
      BY <1>7, WordFormExact
    <3> QED BY <1>2, <1>7, <2>1, <3>1, <3>2
  <2> QED BY <2>3, <2>4
<1> QED BY <1>1, <1>4, <1>5, <1>6, <1>7

LEMMA OutcomeExact ==
  ASSUME AccessOK
  PROVE  Outcome \in {"pass", "report"} /\ (Outcome = "report" <=> Bad)
<1>1. access.width \in Nat
  BY DEF AccessOK
<1>2. CASE access.width = 0
  <2>1. Form = "pass" /\ ~Bad
    BY <1>2 DEF Form, Bad, AccessOK
  <2>2. Outcome = "pass"
    BY <1>2, <2>1 DEF Outcome, FormOutcome
  <2> QED BY <2>1, <2>2
<1>3. CASE access.width > 0
  <2> DEFINE stopped == ~OneGranule /\ HasRoot /\ ShadowAt(0) # RootValue /\ ~AccessColored
  <2>0. /\ access.width # 0 /\ "pass" # "jump"
        /\ ColorCheck = "jump" <=> HasRoot /\ ShadowAt(0) # RootValue
    BY <1>1, <1>3 DEF ColorCheck
  <2>1. Outcome = IF stopped THEN "report" ELSE FormOutcome
    <3>1. (IF OneGranule \/ access.width = 0 THEN "pass" ELSE ColorCheck) = "jump"
            <=> ~OneGranule /\ HasRoot /\ ShadowAt(0) # RootValue
      BY <2>0, Zenon
    <3> QED BY <3>1, Zenon DEF Outcome
  <2>2. Bad <=> (access.null /\ access.width <= MaxInline) \/ ~AccessGood \/ ~AccessColored
    BY <1>3 DEF Bad
  <2>3. stopped => Bad
    BY <2>2
  <2>4. SlowGuard = IF AccessGood THEN "pass" ELSE "report"
    BY DEF SlowGuard
  <2>5. ASSUME ~stopped, ~OneGranule, AccessGood PROVE AccessColored
    <3>1. CASE ~HasRoot
      BY <3>1 DEF AccessColored
    <3>2. CASE HasRoot /\ ShadowAt(0) = RootValue
      <4>1. ~IsPoisoned(ShadowAt(0))
        BY <1>3, <2>5, FirstGranule
      <4> QED BY <3>2, <4>1 DEF AccessColored, ColorAgrees
    <3> QED BY <2>5, <3>1, <3>2
  <2> HIDE DEF stopped
  <2>6. CASE stopped
    BY <2>1, <2>3, <2>6
  <2>7. CASE ~stopped /\ access.null /\ access.width <= MaxInline
    <3>1. Form = "null"
      BY <1>3, <2>7, FormExact
    <3>2. Outcome = "report"
      BY <2>1, <2>7, <3>1 DEF FormOutcome
    <3> QED BY <2>2, <2>7, <3>2
  <2>8. CASE ~stopped /\ ~access.null
    <3>1. /\ Form \in {"pass", "guard", "jump"}
          /\ Form = "pass" => AccessGood
          /\ Form = "pass" /\ OneGranule => AccessColored
          /\ Form = "guard" /\ OneGranule => ~HasRoot
      BY <1>3, <2>8, FormExact
    <3>2. CASE Form = "pass"
      <4>1. Outcome = "pass"
        BY <2>1, <2>8, <3>2 DEF FormOutcome
      <4> QED BY <2>2, <2>5, <2>8, <3>1, <3>2, <4>1
    <3>3. CASE Form = "guard"
      <4>1. Outcome = SlowGuard
        BY <2>1, <2>4, <2>8, <3>3 DEF FormOutcome
      <4>2. AccessGood => AccessColored
        BY <2>5, <2>8, <3>1, <3>3 DEF AccessColored
      <4> QED BY <2>2, <2>4, <2>8, <4>1, <4>2
    <3>4. CASE Form = "jump"
      <4>1. Outcome = IF SlowGuard = "pass" /\ AccessColored THEN "pass" ELSE "report"
        BY <2>1, <2>4, <2>8, <3>4 DEF FormOutcome
      <4> QED BY <2>2, <2>4, <2>8, <4>1
    <3> QED BY <3>1, <3>2, <3>3, <3>4
  <2>9. CASE ~stopped /\ access.null /\ ~(access.width <= MaxInline)
    <3>1. access.width > MaxInline
      BY <1>1, <2>9, InlineConstants
    <3>2. Form = "guard" /\ ~OneGranule
      BY <1>3, <3>1, FormExact
    <3>3. Outcome = SlowGuard
      BY <2>1, <2>4, <2>9, <3>2 DEF FormOutcome
    <3> QED BY <2>2, <2>4, <2>5, <2>9, <3>2, <3>3
  <2> QED BY <2>6, <2>7, <2>8, <2>9
<1> QED BY <1>1, <1>2, <1>3

InlineInv == AccessOK /\ InlineExact

LEMMA InlineInitially == InlineInit => InlineInv
<1> SUFFICES ASSUME InlineInit PROVE InlineInv
  OBVIOUS
<1>1. /\ shadowBytes \in [1..(Chunk + 1) -> Values]
      /\ access.offset \in 0..(CheckGranule - 1) /\ access.width \in Lengths
      /\ access.null \in BOOLEAN /\ access.runtime \in BOOLEAN /\ access.jumpOk \in BOOLEAN
      /\ access.baseIsRoot \in BOOLEAN /\ access.aligned \in BOOLEAN
      /\ access.root \in Roots
  BY DEF InlineInit
<1>2. access.width \in Nat
  BY <1>1, InlineAssumption
<1>3. AccessOK
  BY <1>1, <1>2 DEF InlineInit, AccessOK
<1>4. InlineExact
  BY DEF InlineInit, InlineExact
<1> QED BY <1>3, <1>4 DEF InlineInv

LEMMA InlineSteps == InlineInv /\ [InlineNext]_inlineVars => InlineInv'
<1> SUFFICES ASSUME InlineInv, [InlineNext]_inlineVars PROVE InlineInv'
  OBVIOUS
<1>1. shadowBytes' = shadowBytes /\ access' = access
  BY DEF InlineNext, InlineCheck, inlineVars
<1>2. AccessOK'
  BY <1>1 DEF InlineInv, AccessOK, IsPoisoned, MemberSets
<1>3. \A k : ByteGood(k)' <=> ByteGood(k)
  BY <1>1 DEF ByteGood, ShadowAt, GoodBytes
<1>4. AccessGood' <=> AccessGood
  BY <1>1, <1>3 DEF AccessGood, MemberGood, AllGood
<1>5. AccessColored' <=> AccessColored
  BY <1>1 DEF AccessColored, HasRoot, Root, RootValue, ShadowAt, ColorAgrees,
              IsWhole, IsPoisoned
<1>6. Bad' <=> Bad
  BY <1>1, <1>4, <1>5 DEF Bad
<1>7. verdict' = verdict \/ verdict' = Outcome
  BY DEF InlineNext, InlineCheck, inlineVars
<1>8. InlineExact'
  BY <1>6, <1>7, OutcomeExact DEF InlineInv, InlineExact
<1> QED BY <1>2, <1>8 DEF InlineInv

\* The checks written into the program report an access exactly if one of its
\* bytes is not addressable, its color is not its root's, or its base is null
\* and the check inline (emitGuard, emitRange, chunkCheck): for any size of a granule and of the
\* shadow read at once, any shadow and any access.
THEOREM InlineChecksExact == InlineSpec => []InlineExact
<1>1. InlineInv => InlineExact
  BY DEF InlineInv
<1> QED BY <1>1, InlineInitially, InlineSteps, PTL DEF InlineSpec

-----------------------------------------------------------------------------
(***************************************************************************)
(* Frames.  Objects that may be in use at once are placed apart, redzones  *)
(* included, since the end of the last extent is always free; so what one  *)
(* scope's start or end writes is nothing another local in scope has.      *)
(* Between two cuts no object begins or ends, so the value of the first    *)
(* granule is that of all.  Allocas lie one below the other, so freeing    *)
(* those below one disturbs none above it.                                 *)
(***************************************************************************)
ExtentEnd(i) == offsets[i] + PaddedSize(SizeOf(i))

\* Two locals whose bytes may be in use at once.
MayMeet(i, j) == ~locals[i].scoped \/ ~locals[j].scoped \/ {i, j} \in mayMeet

\* Every local has its place in the frame, in whole granules, and those that
\* may be in use at once have places apart.
LayoutOK ==
  /\ locals \in Seq([size : Nat, align : Nat, scoped : BOOLEAN])
  /\ offsets \in Seq(Nat) /\ Len(offsets) = Len(locals)
  /\ frameSize \in Nat
  /\ \A i \in DOMAIN locals :
       offsets[i] >= LeftZone /\ offsets[i] % 16 = 0 /\ ExtentEnd(i) <= frameSize
  /\ \A i, j \in DOMAIN locals :
       i # j /\ MayMeet(i, j) => ExtentEnd(i) <= offsets[j] \/ ExtentEnd(j) <= offsets[i]

ScopesOK ==
  /\ frameAt \in {"out", "in"} /\ (frameAt = "out" => inScope = {})
  /\ inScope \subseteq DOMAIN locals
  /\ \A i, j \in inScope : i # j => MayMeet(i, j)

FrameKept ==
  /\ frameShadow = [g \in 0..(frameSize \div 16 - 1) |-> frameShadow[g]]
  /\ LocalsAddressable /\ OutOfScopePoison

\* Where alloca n's extent ends.
AllocaEnd(n) == IF n = 1 THEN DynamicGranules ELSE allocas[n - 1].at

\* The allocas lie one below the other, down to the stack pointer.
AllocasStacked ==
  /\ allocas \in Seq([at : Nat, size : DynamicSizes])
  /\ stackPointer \in 0..DynamicGranules
  /\ stackPointer = IF Len(allocas) = 0 THEN DynamicGranules ELSE allocas[Len(allocas)].at
  /\ \A n \in DOMAIN allocas :
       /\ allocas[n].at + Granules(allocas[n].size) <= AllocaEnd(n)
       /\ AllocaEnd(n) <= DynamicGranules
       /\ \A m \in DOMAIN allocas : m <= n => allocas[n].at <= allocas[m].at
  /\ stackShadow = [g \in Stack |-> stackShadow[g]]

FrameInv == LayoutOK /\ ScopesOK /\ FrameKept /\ AllocasStacked /\ AllocasExact

\* What is known of the zones and alignments.
LEMMA FrameConstants ==
  /\ LocalSizes \subseteq Nat /\ LocalAligns \subseteq Nat /\ DynamicSizes \subseteq Nat
  /\ DynamicGranules \in Nat /\ LeftZone \in Nat /\ LeftZone >= 16
  /\ FrameAlign \in Nat \ {0} /\ FrameAlign % 16 = 0 /\ LeftZone % 16 = 0
  BY FrameAssumption DEF FrameAssumption

\* A list of numbers has a largest.
LEMMA Largest ==
  ASSUME NEW n \in Nat, NEW f, \A j \in 1..n : f[j] \in Nat, n # 0
  PROVE  \E k \in 1..n : \A j \in 1..n : f[j] <= f[k]
<1> DEFINE S == {m \in Nat : m = 0 \/ \E k \in 1..m : \A j \in 1..m : f[j] <= f[k]}
<1>1. 0 \in S
  OBVIOUS
<1>2. ASSUME NEW m \in Nat, m < n, m \in S PROVE m + 1 \in S
  <2>1. CASE m = 0
    <3>1. \A j \in 1..(m + 1) : f[j] <= f[1]
      BY <1>2, <2>1
    <3> QED BY <2>1, <3>1
  <2>2. CASE m # 0
    <3>1. PICK k \in 1..m : \A j \in 1..m : f[j] <= f[k]
      BY <1>2, <2>2
    <3>2. f[m + 1] \in Nat /\ \A j \in 1..m : f[j] \in Nat
      BY <1>2
    <3>3. \A j \in 1..(m + 1) : j \in 1..m \/ j = m + 1
      OBVIOUS
    <3>4. CASE f[m + 1] <= f[k]
      <4>1. \A j \in 1..(m + 1) : f[j] <= f[k]
        BY <3>1, <3>3, <3>4
      <4> QED BY <4>1
    <3>5. CASE ~(f[m + 1] <= f[k])
      <4>1. \A j \in 1..(m + 1) : f[j] <= f[m + 1]
        BY <3>1, <3>2, <3>3, <3>5
      <4>2. m + 1 \in 1..(m + 1)
        OBVIOUS
      <4> QED BY <4>1, <4>2
    <3> QED BY <3>4, <3>5
  <2> QED BY <2>1, <2>2
<1> HIDE DEF S
<1>3. n \in S
  <2>1. \A i \in 0..n : i \in S
    BY <1>1, <1>2, Upward
  <2> QED BY <2>1
<1> QED BY <1>3 DEF S

\* So has a set that is one number and a list of others.
Listed(S, a, n, f) == /\ \A j \in 1..n : f[j] \in Nat
                      /\ \A x : x \in S <=> x = a \/ \E j \in 1..n : x = f[j]

LEMMA MaxOfList ==
  ASSUME NEW a \in Nat, NEW n \in Nat, NEW f, NEW S, Listed(S, a, n, f)
  PROVE  /\ Max(S) \in S /\ Max(S) \in Nat /\ \A x \in S : x <= Max(S)
         /\ a <= Max(S) /\ \A j \in 1..n : f[j] <= Max(S)
<1> USE DEF Listed
<1>1. \E x \in S : \A y \in S : x >= y
  <2>1. CASE n = 0
    BY <2>1
  <2>2. CASE n # 0
    <3>1. PICK k \in 1..n : \A j \in 1..n : f[j] <= f[k]
      BY <2>2, Largest
    <3>2. CASE f[k] >= a
      <4>1. f[k] \in S /\ \A y \in S : f[k] >= y
        BY <3>1, <3>2
      <4> QED BY <4>1
    <3>3. CASE ~(f[k] >= a)
      <4>1. a \in S /\ \A y \in S : a >= y
        BY <3>1, <3>3
      <4> QED BY <4>1
    <3> QED BY <3>2, <3>3
  <2> QED BY <2>1, <2>2
<1>2. Max(S) \in S /\ \A y \in S : Max(S) >= y
  BY <1>1 DEF Max
<1>3. S \subseteq Nat /\ a \in S /\ \A j \in 1..n : f[j] \in S
  OBVIOUS
<1>4. Max(S) \in Nat /\ \A x \in S : x <= Max(S)
  BY <1>2, <1>3
<1>5. a <= Max(S) /\ \A j \in 1..n : f[j] <= Max(S)
  BY <1>3, <1>4
<1> QED BY <1>2, <1>4, <1>5

\* Numbers have a least one.
LEMMA LeastNumber ==
  ASSUME NEW S \in SUBSET Nat, S # {}
  PROVE  Min(S) \in S /\ \A y \in S : Min(S) <= y
<1>1. OpToRel(<, Nat) = {s \in Nat \X Nat : s[1] < s[2]}
  BY DEF OpToRel
<1>2. \E x \in S : \A y \in S : ~(<<y, x>> \in OpToRel(<, Nat))
  BY NatLessThanWellFounded, WFMin, Zenon
<1>3. PICK x \in S : \A y \in S : ~(<<y, x>> \in {s \in Nat \X Nat : s[1] < s[2]})
  BY <1>1, <1>2, Zenon
<1>4. ASSUME NEW y \in S PROVE x <= y
  <2>1. /\ <<y, x>> \in Nat \X Nat /\ <<y, x>>[1] = y /\ <<y, x>>[2] = x
        /\ x \in Nat /\ y \in Nat
    OBVIOUS
  <2> QED BY <2>1, <1>3
<1> QED BY <1>4 DEF Min

\* Bounded numbers have a largest.
LEMMA GreatestNumber ==
  ASSUME NEW g \in Nat, NEW S \in SUBSET (0..g), S # {}
  PROVE  Max(S) \in S /\ \A y \in S : y <= Max(S)
<1> DEFINE T == {g - x : x \in S}
<1>1. T \in SUBSET Nat /\ T # {}
  <2>1. \A x \in S : x \in 0..g /\ g - x \in Nat
    OBVIOUS
  <2>2. PICK x \in S : TRUE
    OBVIOUS
  <2>3. g - x \in T
    OBVIOUS
  <2>4. \A y \in T : y \in Nat
    BY <2>1
  <2> QED BY <2>3, <2>4
<1>2. Min(T) \in T /\ \A y \in T : Min(T) <= y
  <2> HIDE DEF T
  <2> QED BY <1>1, LeastNumber
<1>3. PICK x \in S : Min(T) = g - x
  BY <1>2
<1>4. \A y \in S : g - x <= g - y
  BY <1>2, <1>3
<1>5. \A y \in S : x >= y
  BY <1>4
<1> QED BY <1>5 DEF Max

\* Rounding up does, and to whole granules if the unit is.
LEMMA RoundUpFacts ==
  ASSUME NEW n \in Nat, NEW to \in Nat \ {0}
  PROVE  /\ RoundUp(n, to) \in Nat /\ RoundUp(n, to) >= n
         /\ to % 16 = 0 => RoundUp(n, to) % 16 = 0
<1> DEFINE k == n + to - 1
           q == k \div to
<1>1. k \in Nat /\ q \in Nat /\ k % to \in 0..(to - 1) /\ k = to * q + (k % to)
  <2>1. k \in Nat
    OBVIOUS
  <2> HIDE DEF k
  <2> QED BY <2>1, Split
<1>2. RoundUp(n, to) = q * to
  BY DEF RoundUp
<1> HIDE DEF q
<1>3. q * to = to * q /\ to * q \in Nat
  BY <1>1
<1>4. to * q >= n
  BY <1>1, <1>3
<1>5. ASSUME to % 16 = 0 PROVE (q * to) % 16 = 0
  <2>1. PICK d \in Nat : to = 16 * d
    <3>1. to = 16 * (to \div 16) + (to % 16) /\ to \div 16 \in Nat
      OBVIOUS
    <3> QED BY <1>5, <3>1
  <2>2. q * to = 16 * (d * q) /\ d * q \in Nat
    BY <1>1, <2>1
  <2> HIDE DEF k
  <2>3. \A m \in Nat : (16 * m) % 16 = 0
    OBVIOUS
  <2> QED BY <2>2, <2>3
<1> QED BY <1>2, <1>3, <1>4, <1>5

\* An extent leaves at least two granules after the object.
LEMMA PaddedFacts ==
  ASSUME NEW size \in Nat
  PROVE  PaddedSize(size) \in Nat /\ PaddedSize(size) >= size + 32
<1> DEFINE d == size \div 8
           c == Clamp(d, 32, 4096)
<1>1. d \in Nat
  OBVIOUS
<1>2. c \in Nat /\ c >= 32
  <2> HIDE DEF d
  <2>1. Min({d, 4096}) \in Nat
    BY <1>1, MinMax
  <2>2. Max({32, Min({d, 4096})}) \in Nat /\ 32 <= Max({32, Min({d, 4096})})
    BY <2>1, MinMax
  <2> QED BY <2>2 DEF Clamp
<1>3. PaddedSize(size) = RoundUp(size + c, 32)
  BY DEF PaddedSize
<1> HIDE DEF c
<1>4. size + c \in Nat /\ 32 \in Nat \ {0}
  BY <1>2
<1>5. RoundUp(size + c, 32) \in Nat /\ RoundUp(size + c, 32) >= size + c
  BY <1>4, RoundUpFacts
<1> QED BY <1>2, <1>3, <1>5

-----------------------------------------------------------------------------
(* The layout.                                                             *)
(***************************************************************************)
Locals == [size : LocalSizes, align : LocalAligns, scoped : BOOLEAN]

\* The last end is free, so the loop finds a place.
LEMMA SpotOK ==
  ASSUME NEW of \in Seq(Locals), NEW meets, NEW i \in 1..Len(of),
         NEW before \in Seq(Nat), Len(before) = i - 1,
         \A j \in 1..(i - 1) : before[j] >= LeftZone
  PROVE  LET o == Spot(of, meets, before, i)
         IN /\ o \in Nat /\ o >= LeftZone /\ o % 16 = 0
            /\ \A j \in 1..(i - 1) : ~Clash(of, meets, o, j, before, i)
<1> DEFINE align == Max({FrameAlign, of[i].align})
           f == [j \in 1..(i - 1) |-> before[j] + PaddedSize(of[j].size)]
           ends == {LeftZone} \cup {before[j] + PaddedSize(of[j].size) : j \in 1..(i - 1)}
           free == {o \in {RoundUp(e, align) : e \in ends} :
                      \A j \in 1..(i - 1) : ~Clash(of, meets, o, j, before, i)}
<1>1. /\ Len(of) \in Nat /\ \A j \in 1..Len(of) : of[j] \in Locals
      /\ i \in Nat /\ i - 1 \in Nat /\ \A j \in 1..(i - 1) : before[j] \in Nat
  OBVIOUS
<1>2. align \in Nat \ {0} /\ align % 16 = 0
  <2>1. of[i].align \in LocalAligns /\ of[i].align \in Nat
    BY <1>1, FrameConstants DEF Locals
  <2>2. align \in Nat /\ FrameAlign <= align /\ of[i].align <= align
        /\ align \in {FrameAlign, of[i].align}
    <3>1. align \in Nat /\ FrameAlign <= align /\ of[i].align <= align
      BY <2>1, MinMax, FrameConstants
    <3>2. \E z \in {FrameAlign, of[i].align} : \A t \in {FrameAlign, of[i].align} : z >= t
      BY <2>1, FrameConstants, FrameAlign >= of[i].align \/ of[i].align >= FrameAlign
    <3>3. align \in {FrameAlign, of[i].align}
      BY <3>2 DEF Max
    <3> QED BY <3>1, <3>3
  <2> HIDE DEF align
  <2>3. \A a \in LocalAligns : a > FrameAlign => a % 16 = 0
    BY FrameAssumption DEF FrameAssumption
  <2>4. CASE align = FrameAlign
    BY <2>2, <2>4, FrameConstants
  <2>5. CASE align # FrameAlign
    <3>1. align = of[i].align /\ align > FrameAlign
      BY <2>2, <2>5, FrameConstants
    <3>2. align % 16 = 0
      BY <2>1, <2>3, <3>1
    <3> QED BY <2>2, <3>1, <3>2, FrameConstants
  <2> QED BY <2>4, <2>5
<1> HIDE DEF align
<1>3. \A j \in 1..(i - 1) : f[j] \in Nat /\ f[j] >= LeftZone
                            /\ f[j] = before[j] + PaddedSize(of[j].size)
  <2> SUFFICES ASSUME NEW j \in 1..(i - 1)
               PROVE  f[j] \in Nat /\ f[j] >= LeftZone
                      /\ f[j] = before[j] + PaddedSize(of[j].size)
    OBVIOUS
  <2>1. of[j].size \in Nat
    <3>1. j \in 1..Len(of)
      BY <1>1
    <3>2. of[j] \in Locals
      BY <1>1, <3>1
    <3> QED BY <3>2, FrameConstants DEF Locals
  <2>2. PaddedSize(of[j].size) \in Nat
    BY <2>1, PaddedFacts
  <2> QED BY <1>1, <2>2, FrameConstants
<1>4. ends = {LeftZone} \cup {f[j] : j \in 1..(i - 1)}
  BY <1>3
<1> HIDE DEF f
<1>5. \A e \in ends : e \in Nat /\ e >= LeftZone
  BY <1>3, <1>4, FrameConstants
<1>6. \A e \in ends : /\ RoundUp(e, align) \in Nat /\ RoundUp(e, align) >= e
                      /\ RoundUp(e, align) % 16 = 0
  BY <1>2, <1>5, RoundUpFacts
<1>7. free # {}
  <2> DEFINE m == Max(ends)
  <2>1. m \in ends /\ \A j \in 1..(i - 1) : f[j] <= m
    <3> HIDE DEF ends
    <3>1. LeftZone \in Nat /\ i - 1 \in Nat /\ \A j \in 1..(i - 1) : f[j] \in Nat
      BY <1>1, <1>3, FrameConstants
    <3>2. \A x : x \in ends <=> x = LeftZone \/ \E j \in 1..(i - 1) : x = f[j]
      BY <1>4
    <3>3. Listed(ends, LeftZone, i - 1, f)
      BY <3>1, <3>2 DEF Listed
    <3> QED BY <3>1, <3>3, MaxOfList
  <2> HIDE DEF m
  <2> DEFINE o == RoundUp(m, align)
  <2>2. o \in Nat /\ o >= m /\ m \in Nat
    BY <1>5, <1>6, <2>1
  <2>3. \A j \in 1..(i - 1) : ~(o < before[j] + PaddedSize(of[j].size))
    <3> HIDE DEF o
    <3> QED BY <1>3, <2>1, <2>2
  <2>4. \A j \in 1..(i - 1) : ~Clash(of, meets, o, j, before, i)
    BY <2>3 DEF Clash
  <2>5. o \in {RoundUp(e, align) : e \in ends}
    BY <2>1
  <2> HIDE DEF o, ends
  <2> QED BY <2>4, <2>5
<1>8. free \in SUBSET Nat
  <2> HIDE DEF ends
  <2> QED BY <1>6
<1>9. Spot(of, meets, before, i) = Min(free)
  BY DEF Spot, align
<1>10. Min(free) \in free
  <2> HIDE DEF free
  <2> QED BY <1>7, <1>8, LeastNumber
<1> DEFINE p == Min(free)
<1>11. /\ \A j \in 1..(i - 1) : ~Clash(of, meets, p, j, before, i)
       /\ \E e \in ends : p = RoundUp(e, align)
  BY <1>10
<1> HIDE DEF p, free, ends
<1>12. p \in Nat /\ p >= LeftZone /\ p % 16 = 0
  BY <1>5, <1>6, <1>11, FrameConstants
<1>13. Spot(of, meets, before, i) = p
  BY <1>9 DEF p
<1> QED BY <1>11, <1>12, <1>13

\* The objects are placed one after the other.
LEMMA PlacedSteps ==
  ASSUME NEW of, NEW meets, Len(of) \in Nat
  PROVE  /\ Placed(of, meets)[0] = <<>>
         /\ \A i \in 1..Len(of) :
              Placed(of, meets)[i] =
                Append(Placed(of, meets)[i - 1], Spot(of, meets, Placed(of, meets)[i - 1], i))
<1> DEFINE n == Len(of)
           Next1(s, i) == Append(s, Spot(of, meets, s, i))
           Is(f, m) == f = [i \in 0..m |-> IF i = 0 THEN <<>> ELSE Next1(f[i - 1], i)]
           S == {m \in Nat : \E f : Is(f, m)}
<1>0. Placed(of, meets) = CHOOSE f : Is(f, n)
  BY DEF Placed
<1> HIDE DEF Next1
<1>1. 0 \in S
  <2> DEFINE f == [i \in 0..0 |-> <<>>]
  <2>1. Is(f, 0)
    OBVIOUS
  <2> HIDE DEF f
  <2> QED BY <2>1
<1>2. ASSUME NEW m \in Nat, m \in S
      PROVE  m + 1 \in S
  <2> PICK f : Is(f, m)
    BY <1>2
  <2> DEFINE h == [i \in 0..(m + 1) |-> IF i = m + 1 THEN Next1(f[m], m + 1) ELSE f[i]]
  <2>1. Is(h, m + 1)
    OBVIOUS
  <2>2. \E q : Is(q, m + 1)
    <3> HIDE DEF h, Is
    <3> QED BY <2>1, Zenon
  <2>3. m + 1 \in Nat
    OBVIOUS
  <2> HIDE DEF h, Is
  <2> QED BY <2>2, <2>3
<1> HIDE DEF S
<1>3. n \in S
  BY <1>1, <1>2, SetInduction
<1>4. \E f : Is(f, n)
  BY <1>3 DEF S
<1>5. Is(Placed(of, meets), n)
  BY <1>0, <1>4
<1>6. /\ Placed(of, meets)[0] = <<>>
      /\ \A i \in 1..n : Placed(of, meets)[i] = Next1(Placed(of, meets)[i - 1], i)
  BY <1>5
<1> QED BY <1>6 DEF Next1

ObjectEnd(of, s, j) == s[j] + PaddedSize(of[j].size)

\* The first k objects of a function have places, apart where they must be.
PlacesOK(of, meets, s, k) ==
  /\ s \in Seq(Nat) /\ Len(s) = k
  /\ \A j \in 1..k : s[j] >= LeftZone /\ s[j] % 16 = 0
  /\ \A i \in 1..k : \A j \in 1..k :
       i < j /\ {j, i} \in meets =>
         ObjectEnd(of, s, i) <= s[j] \/ ObjectEnd(of, s, j) <= s[i]

LEMMA SizeOfLocal ==
  ASSUME NEW of \in Seq(Locals), NEW j \in 1..Len(of)
  PROVE  of[j].size \in Nat /\ PaddedSize(of[j].size) \in Nat
<1>1. of[j] \in Locals
  OBVIOUS
<1>2. of[j].size \in Nat
  BY <1>1, FrameConstants DEF Locals
<1> QED BY <1>2, PaddedFacts

\* So every object gets a place, apart from those it may meet.
LEMMA PlaceOK ==
  ASSUME NEW of \in Seq(Locals), NEW meets
  PROVE  PlacesOK(of, meets, Place(of, meets), Len(of))
<1> DEFINE n == Len(of)
           P(k) == Placed(of, meets)[k]
           S == {k \in Nat : k <= n => PlacesOK(of, meets, P(k), k)}
<1>0. n \in Nat
  OBVIOUS
<1>1. 0 \in S
  <2>1. P(0) = <<>>
    BY <1>0, PlacedSteps
  <2>2. PlacesOK(of, meets, <<>>, 0)
    BY DEF PlacesOK
  <2> QED BY <2>1, <2>2
<1>2. ASSUME NEW k \in Nat, k < n, k \in S
      PROVE  k + 1 \in S
  <2> DEFINE s == P(k)
             i == k + 1
             o == Spot(of, meets, s, i)
             t == Append(s, o)
  <2>1. PlacesOK(of, meets, s, k)
    BY <1>0, <1>2
  <2>2. P(i) = t
    <3>1. k + 1 \in 1..n /\ (k + 1) - 1 = k
      BY <1>0, <1>2
    <3> QED BY <1>0, <3>1, PlacedSteps
  <2> HIDE DEF P
  <2>3. /\ i \in 1..n /\ i - 1 = k /\ s \in Seq(Nat) /\ Len(s) = k
        /\ \A j \in 1..k : s[j] \in Nat /\ s[j] >= LeftZone /\ s[j] % 16 = 0
    BY <1>0, <1>2, <2>1 DEF PlacesOK
  <2> HIDE DEF s
  <2>4. /\ o \in Nat /\ o >= LeftZone /\ o % 16 = 0
        /\ \A j \in 1..k : ~Clash(of, meets, o, j, s, i)
    <3> HIDE DEF i
    <3>1. Len(s) = i - 1 /\ \A j \in 1..(i - 1) : s[j] >= LeftZone
      BY <2>3
    <3> QED BY <2>3, <3>1, SpotOK
  <2> HIDE DEF o
  <2>5. /\ t \in Seq(Nat) /\ Len(t) = i /\ t[i] = o
        /\ \A j \in 1..k : t[j] = s[j]
    BY <2>3, <2>4
  <2> HIDE DEF t
  <2>6. \A j \in 1..i : j \in 1..k \/ j = i
    BY <2>3
  <2>7. \A j \in 1..i : t[j] >= LeftZone /\ t[j] % 16 = 0
    BY <2>3, <2>4, <2>5, <2>6
  <2>8. ASSUME NEW a \in 1..i, NEW b \in 1..i, a < b, {b, a} \in meets
        PROVE  ObjectEnd(of, t, a) <= t[b] \/ ObjectEnd(of, t, b) <= t[a]
    <3>1. a \in 1..k
      BY <2>3, <2>8
    <3>2. CASE b \in 1..k
      <4>1. ObjectEnd(of, s, a) <= s[b] \/ ObjectEnd(of, s, b) <= s[a]
        BY <2>1, <2>8, <3>1, <3>2 DEF PlacesOK
      <4> QED BY <2>5, <3>1, <3>2, <4>1 DEF ObjectEnd
    <3>3. CASE b = i
      <4>1. ~Clash(of, meets, o, a, s, i)
        BY <2>4, <3>1
      <4>2. ~(o < s[a] + PaddedSize(of[a].size)) \/ ~(s[a] < o + PaddedSize(of[i].size))
        BY <2>8, <3>3, <4>1 DEF Clash
      <4>3. PaddedSize(of[a].size) \in Nat /\ PaddedSize(of[i].size) \in Nat
        <5>1. a \in 1..Len(of) /\ i \in 1..Len(of)
          BY <2>3, <3>1
        <5> QED BY <5>1, SizeOfLocal
      <4>4. s[a] \in Nat /\ t[a] = s[a] /\ t[b] = o
        BY <2>3, <2>5, <3>1, <3>3
      <4> HIDE DEF i
      <4> QED BY <2>4, <3>3, <4>2, <4>3, <4>4 DEF ObjectEnd
    <3> QED BY <2>6, <3>2, <3>3
  <2>9. PlacesOK(of, meets, t, i)
    BY <2>5, <2>7, <2>8 DEF PlacesOK
  <2> QED BY <1>0, <2>2, <2>9
<1> HIDE DEF S
<1>3. n \in S
  <2>1. \A k \in 0..n : k \in S
    BY <1>0, <1>1, <1>2, Upward
  <2> QED BY <1>0, <2>1
<1>4. PlacesOK(of, meets, P(n), n)
  BY <1>0, <1>3 DEF S
<1> QED BY <1>4 DEF Place

\* The frame holds every extent.
LEMMA SizeForOK ==
  ASSUME NEW of \in Seq(Locals), NEW s \in Seq(Nat), Len(s) = Len(of)
  PROVE  SizeFor(of, s) \in Nat /\ \A j \in 1..Len(of) : ObjectEnd(of, s, j) <= SizeFor(of, s)
<1> DEFINE n == Len(of)
           f == [j \in 1..n |-> ObjectEnd(of, s, j)]
           T == {LeftZone} \cup {s[j] + PaddedSize(of[j].size) : j \in DOMAIN s}
<1>1. n \in Nat /\ DOMAIN s = 1..n /\ \A j \in 1..n : s[j] \in Nat
  OBVIOUS
<1>2. \A j \in 1..n : ObjectEnd(of, s, j) \in Nat
  <2> TAKE j \in 1..n
  <2>1. PaddedSize(of[j].size) \in Nat
    BY SizeOfLocal
  <2> QED BY <1>1, <2>1 DEF ObjectEnd
<1>3. \A j \in 1..n : f[j] = ObjectEnd(of, s, j) /\ f[j] \in Nat
  BY <1>2
<1>4. \A x : x \in T <=> x = LeftZone \/ \E j \in 1..n : x = f[j]
  BY <1>1, <1>3 DEF ObjectEnd
<1>5. SizeFor(of, s) = Max(T)
  BY DEF SizeFor
<1> HIDE DEF T, f, n
<1>6. Listed(T, LeftZone, n, f)
  BY <1>3, <1>4 DEF Listed
<1>7. Max(T) \in Nat /\ \A j \in 1..n : f[j] <= Max(T)
  BY <1>1, <1>6, FrameConstants, MaxOfList
<1>8. \A j \in 1..n : ObjectEnd(of, s, j) <= Max(T)
  BY <1>3, <1>7
<1> QED BY <1>5, <1>7, <1>8 DEF n

\* Whether places are shared or not, objects that live together are apart.
LEMMA LayoutPlaces ==
  ASSUME NEW of \in Seq(Locals), NEW overlaps
  PROVE  \E meets : /\ Together(of, overlaps) \subseteq meets
                    /\ PlacesOK(of, meets, Layout(of, overlaps), Len(of))
<1>1. Together(of, overlaps) \subseteq Pairs(of)
  BY DEF Together
<1>2. PlacesOK(of, Pairs(of), Place(of, Pairs(of)), Len(of))
  BY PlaceOK
<1>3. PlacesOK(of, Together(of, overlaps), Place(of, Together(of, overlaps)), Len(of))
  BY PlaceOK
<1>4. \/ Layout(of, overlaps) = Place(of, Pairs(of))
      \/ Layout(of, overlaps) = Place(of, Together(of, overlaps))
  BY DEF Layout
<1> QED BY <1>1, <1>2, <1>3, <1>4

\* The layout a function starts with.
LEMMA LayoutInitially == FramesInit => LayoutOK /\ locals \in Seq(Locals)
<1> SUFFICES ASSUME FramesInit PROVE LayoutOK /\ locals \in Seq(Locals)
  OBVIOUS
<1>1. locals \in Seq(Locals)
  <2>1. PICK n \in 0..MaxLocals : locals \in [1..n -> Locals]
    BY DEF FramesInit, Locals
  <2>2. n \in Nat
    BY FrameAssumption DEF FrameAssumption
  <2> QED BY <2>1, <2>2
<1>2. offsets = Layout(locals, mayMeet) /\ frameSize = SizeFor(locals, offsets)
  BY DEF FramesInit
<1>3. PICK meets : /\ Together(locals, mayMeet) \subseteq meets
                   /\ PlacesOK(locals, meets, offsets, Len(locals))
  BY <1>1, <1>2, LayoutPlaces
<1> DEFINE n == Len(locals)
<1>4. /\ offsets \in Seq(Nat) /\ Len(offsets) = n /\ n \in Nat /\ DOMAIN locals = 1..n
      /\ \A j \in 1..n : offsets[j] \in Nat /\ offsets[j] >= LeftZone /\ offsets[j] % 16 = 0
  BY <1>1, <1>3 DEF PlacesOK
<1>5. frameSize \in Nat /\ \A j \in 1..n : ObjectEnd(locals, offsets, j) <= frameSize
  BY <1>1, <1>2, <1>4, SizeForOK
<1>6. \A j \in 1..n : ObjectEnd(locals, offsets, j) = ExtentEnd(j)
  BY DEF ObjectEnd, ExtentEnd, SizeOf
<1>7. ASSUME NEW i \in 1..n, NEW j \in 1..n, i < j, MayMeet(i, j)
      PROVE  ExtentEnd(i) <= offsets[j] \/ ExtentEnd(j) <= offsets[i]
  <2>1. {j, i} = {i, j} /\ {i, j} \in Pairs(locals)
    BY <1>4 DEF Pairs
  <2>2. {j, i} \in Together(locals, mayMeet)
    BY <1>7, <2>1 DEF Together, MayMeet
  <2> QED BY <1>3, <1>6, <1>7, <2>2 DEF PlacesOK
<1>8. ASSUME NEW i \in 1..n, NEW j \in 1..n, i # j, MayMeet(i, j)
      PROVE  ExtentEnd(i) <= offsets[j] \/ ExtentEnd(j) <= offsets[i]
  <2>1. MayMeet(j, i)
    <3>1. {i, j} = {j, i}
      OBVIOUS
    <3> QED BY <1>8, <3>1 DEF MayMeet
  <2>2. i < j \/ j < i
    BY <1>4, <1>8
  <2> QED BY <1>7, <1>8, <2>1, <2>2
<1>9. locals \in Seq([size : Nat, align : Nat, scoped : BOOLEAN])
  <2> DEFINE T == [size : Nat, align : Nat, scoped : BOOLEAN]
  <2>1. Locals \subseteq T
    BY FrameConstants DEF Locals
  <2> HIDE DEF T
  <2>2. locals \in [1..n -> Locals]
    BY <1>1
  <2>3. locals \in [1..n -> T]
    BY <2>1, <2>2
  <2>4. locals \in Seq(T)
    BY <1>4, <2>3
  <2> QED BY <2>4 DEF T
<1> QED BY <1>1, <1>4, <1>5, <1>6, <1>8, <1>9 DEF LayoutOK

-----------------------------------------------------------------------------
(* Where the locals lie.                                                   *)
(***************************************************************************)
At(i) == offsets[i] \div Granule
Frame == 0..(frameSize \div 16 - 1)

LEMMA GranulesFacts ==
  ASSUME NEW size \in Nat
  PROVE  /\ Granules(size) \in Nat /\ size \div 16 \in Nat
         /\ size \div 16 <= Granules(size) /\ Granules(size) <= size \div 16 + 1
         /\ 16 * Granules(size) >= size /\ 16 * Granules(size) <= size + 15
  BY DEF Granules, Granule

\* An object begins at a whole granule, and its extent is in the frame.
LEMMA Place16 ==
  ASSUME LayoutOK, NEW i \in DOMAIN locals
  PROVE  /\ i \in 1..Len(locals) /\ Len(locals) \in Nat
         /\ SizeOf(i) \in Nat /\ offsets[i] \in Nat /\ At(i) \in Nat
         /\ offsets[i] = 16 * At(i) /\ LeftZone <= offsets[i] /\ At(i) >= 1
         /\ ExtentEnd(i) \in Nat /\ ExtentEnd(i) >= 16 * At(i) + SizeOf(i) + 32
         /\ ExtentEnd(i) <= frameSize /\ frameSize \in Nat
<1>1. /\ i \in 1..Len(locals) /\ Len(locals) \in Nat /\ offsets[i] \in Nat
      /\ locals[i].size \in Nat /\ frameSize \in Nat
  <2> DEFINE T == [size : Nat, align : Nat, scoped : BOOLEAN]
  <2>1. locals \in Seq(T) /\ offsets \in Seq(Nat) /\ Len(offsets) = Len(locals) /\ frameSize \in Nat
    BY DEF LayoutOK
  <2>2. \A x \in T : x.size \in Nat
    OBVIOUS
  <2> HIDE DEF T
  <2>3. i \in 1..Len(locals) /\ Len(locals) \in Nat /\ locals[i] \in T
    BY <2>1
  <2>4. offsets[i] \in Nat
    BY <2>1, <2>3
  <2> QED BY <2>1, <2>2, <2>3, <2>4
<1>2. offsets[i] >= LeftZone /\ offsets[i] % 16 = 0 /\ ExtentEnd(i) <= frameSize
  BY DEF LayoutOK
<1>3. At(i) \in Nat /\ offsets[i] = 16 * At(i)
  <2> DEFINE o == offsets[i]
  <2>1. o \in Nat /\ o % 16 = 0
    BY <1>1, <1>2
  <2> HIDE DEF o
  <2>2. o \div 16 \in Nat /\ o = 16 * (o \div 16)
    BY <2>1
  <2> QED BY <2>2 DEF At, Granule, o
<1>4. PaddedSize(SizeOf(i)) \in Nat /\ PaddedSize(SizeOf(i)) >= SizeOf(i) + 32 /\ SizeOf(i) \in Nat
  BY <1>1, PaddedFacts DEF SizeOf
<1>5. ExtentEnd(i) = offsets[i] + PaddedSize(SizeOf(i))
  BY DEF ExtentEnd
<1>6. LeftZone <= offsets[i]
  BY <1>1, <1>2, FrameConstants
<1>7. At(i) >= 1
  BY <1>1, <1>3, <1>6, FrameConstants
<1>8. ExtentEnd(i) \in Nat /\ ExtentEnd(i) >= 16 * At(i) + SizeOf(i) + 32
  BY <1>1, <1>3, <1>4, <1>5
<1> QED BY <1>1, <1>2, <1>3, <1>4, <1>6, <1>7, <1>8

\* The granules of an object, which end before its extent does.
LEMMA CoveredIs ==
  ASSUME LayoutOK, NEW i \in DOMAIN locals, NEW g
  PROVE  /\ g \in Covered(i) <=> g \in Nat /\ At(i) <= g /\ g < At(i) + Granules(SizeOf(i))
         /\ Granules(SizeOf(i)) \in Nat
         /\ 16 * (At(i) + Granules(SizeOf(i))) + 16 < ExtentEnd(i)
<1> DEFINE a == At(i)
           n == Granules(SizeOf(i))
<1>1. a \in Nat /\ SizeOf(i) \in Nat /\ ExtentEnd(i) \in Nat /\ ExtentEnd(i) >= 16 * a + SizeOf(i) + 32
  BY Place16
<1>2. n \in Nat /\ 16 * n <= SizeOf(i) + 15
  BY <1>1, GranulesFacts
<1>3. Covered(i) = a..(a + n - 1)
  BY DEF Covered, At
<1> HIDE DEF a, n
<1>4. g \in Covered(i) <=> g \in Nat /\ a <= g /\ g < a + n
  BY <1>1, <1>2, <1>3
<1>5. 16 * (a + n) + 16 < ExtentEnd(i)
  BY <1>1, <1>2
<1> QED BY <1>2, <1>4, <1>5 DEF a, n

\* An object, the granule before it and its redzone are in the frame.
LEMMA InFrame ==
  ASSUME LayoutOK, NEW i \in DOMAIN locals,
         NEW g \in Covered(i) \cup Redzone(i) \cup {offsets[i] \div Granule - 1}
  PROVE  g \in Frame
<1> DEFINE a == At(i)
           n == Granules(SizeOf(i))
           e == ExtentEnd(i)
<1>1. a \in Nat /\ a >= 1 /\ e \in Nat /\ e <= frameSize /\ frameSize \in Nat
  BY Place16
<1>2. n \in Nat /\ 16 * (a + n) + 16 < e
  BY CoveredIs
<1>3. g \in a..(a + n - 1) \/ g \in (a + n)..(e \div 16 - 1) \/ g = a - 1
  BY DEF Covered, Redzone, At, ExtentEnd, Granule
<1> HIDE DEF a, n, e
<1>4. g \in Nat /\ 16 * g + 16 <= e
  BY <1>1, <1>2, <1>3
<1> QED BY <1>1, <1>4 DEF Frame

\* What may be in use at once has no granule in common, redzones included.
LEMMA CoveredApart ==
  ASSUME LayoutOK, NEW i \in DOMAIN locals, NEW j \in DOMAIN locals, i # j, MayMeet(i, j),
         NEW g \in Covered(i) \cup Redzone(i) \cup {offsets[i] \div Granule - 1}
  PROVE  g \notin Covered(j)
<1> DEFINE a == At(i)
           n == Granules(SizeOf(i))
           e == ExtentEnd(i)
           b == At(j)
           m == Granules(SizeOf(j))
           d == ExtentEnd(j)
<1>1. a \in Nat /\ a >= 1 /\ e \in Nat /\ b \in Nat /\ b >= 1 /\ d \in Nat
  BY Place16
<1>2. n \in Nat /\ 16 * (a + n) + 16 < e /\ m \in Nat /\ 16 * (b + m) + 16 < d
  BY CoveredIs
<1>3. g \in a..(a + n - 1) \/ g \in (a + n)..(e \div 16 - 1) \/ g = a - 1
  BY DEF Covered, Redzone, At, ExtentEnd, Granule
<1>4. g \in Covered(j) => b <= g /\ g < b + m
  BY CoveredIs
<1>5. e <= 16 * b \/ d <= 16 * a
  <2>1. e <= offsets[j] \/ d <= offsets[i]
    BY DEF LayoutOK
  <2> QED BY <2>1, Place16
<1> HIDE DEF a, n, e, b, m, d
<1>6. g \in Nat /\ 16 * g + 16 <= e /\ g >= a - 1
  BY <1>1, <1>2, <1>3
<1> QED BY <1>1, <1>2, <1>4, <1>5, <1>6

-----------------------------------------------------------------------------
(* The frame.                                                              *)
(***************************************************************************)

\* A shadow of the frame says which locals are in use.
ScopeShown(shadow, used) ==
  /\ \A i \in used : \A g \in Covered(i) :
       shadow[g] = ObjectRun(i, SizeOf(i), g - At(i))
  /\ \A g \in Frame : (\A i \in used : g \notin Covered(i)) => IsPoison(shadow[g])

LEMMA PoisonIs ==
  \A kind \in {"left", "mid", "right", "scope", "returned"} : IsPoison(Poison(kind))
  BY DEF IsPoison, Poison

\* No local ends after ObjectsEnd.
LEMMA ObjectsEndLast ==
  ASSUME LayoutOK
  PROVE  /\ Granules(ObjectsEnd) \in Nat
         /\ \A i \in DOMAIN locals : At(i) + Granules(SizeOf(i)) <= Granules(ObjectsEnd)
<1> DEFINE n == Len(locals)
           f == [j \in 1..n |-> offsets[j] + SizeOf(j)]
           T == {0} \cup {offsets[i] + SizeOf(i) : i \in DOMAIN locals}
<1>1. n \in Nat /\ DOMAIN locals = 1..n
  BY DEF LayoutOK
<1>2. \A j \in 1..n : offsets[j] \in Nat /\ SizeOf(j) \in Nat
  BY <1>1, Place16
<1>3. \A j \in 1..n : f[j] = offsets[j] + SizeOf(j) /\ f[j] \in Nat
  BY <1>2
<1>4. \A x : x \in T <=> x = 0 \/ \E j \in 1..n : x = f[j]
  BY <1>1, <1>3
<1>5. ObjectsEnd = Max(T)
  BY DEF ObjectsEnd
<1> HIDE DEF T, f
<1>6. Listed(T, 0, n, f)
  BY <1>3, <1>4 DEF Listed
<1> HIDE DEF n
<1>7. ObjectsEnd \in Nat /\ \A j \in 1..n : f[j] <= ObjectsEnd
  BY <1>1, <1>5, <1>6, MaxOfList
<1>8. ASSUME NEW i \in DOMAIN locals
      PROVE  At(i) + Granules(SizeOf(i)) <= Granules(ObjectsEnd)
  <2>1. 16 * At(i) + SizeOf(i) <= ObjectsEnd /\ At(i) \in Nat /\ SizeOf(i) \in Nat
    BY <1>1, <1>3, <1>7, Place16
  <2> DEFINE p == Granules(SizeOf(i))
             q == Granules(ObjectsEnd)
  <2>2. p \in Nat /\ q \in Nat /\ 16 * p <= SizeOf(i) + 15 /\ 16 * q >= ObjectsEnd
    BY <1>7, <2>1, GranulesFacts
  <2> HIDE DEF p, q
  <2>3. At(i) + p <= q
    BY <1>7, <2>1, <2>2
  <2> QED BY <2>3 DEF p, q
<1> QED BY <1>7, <1>8, GranulesFacts

\* The stretch a granule of the frame is in: from its first granule to
\* itself nothing begins or ends.
Stretch(g) == Max({c \in Cuts : c <= g})

\* Objects begin and end, whole or in part, at cuts.
LEMMA CutsAre ==
  ASSUME LayoutOK, NEW i \in DOMAIN locals
  PROVE  At(i) \in Cuts /\ At(i) + SizeOf(i) \div Granule \in Cuts /\ At(i) + Granules(SizeOf(i)) \in Cuts
  BY DEF Cuts, At

LEMMA CutsNumbers ==
  ASSUME LayoutOK
  PROVE  Cuts \subseteq Nat /\ 0 \in Cuts /\ Granules(ObjectsEnd) \in Cuts
<1> DEFINE A == {offsets[i] \div Granule : i \in DOMAIN locals}
           B == {(offsets[i] \div Granule) + (SizeOf(i) \div Granule) : i \in DOMAIN locals}
           C == {(offsets[i] \div Granule) + Granules(SizeOf(i)) : i \in DOMAIN locals}
<1>1. Cuts = {0, LeftZone \div Granule, Granules(ObjectsEnd)} \cup A \cup B \cup C
  BY DEF Cuts
<1>2. \A i \in DOMAIN locals : /\ At(i) \in Nat /\ SizeOf(i) \div 16 \in Nat
                               /\ Granules(SizeOf(i)) \in Nat
  BY Place16, GranulesFacts
<1>3. A \subseteq Nat
  BY <1>2 DEF At
<1>4. B \subseteq Nat
  BY <1>2 DEF At, Granule
<1>5. C \subseteq Nat
  BY <1>2 DEF At
<1> HIDE DEF A, B, C
<1>6. LeftZone \div Granule \in Nat /\ Granules(ObjectsEnd) \in Nat /\ 0 \in Nat
  BY FrameConstants, ObjectsEndLast DEF Granule
<1>7. \A c \in Cuts : \/ c = 0 \/ c = LeftZone \div Granule \/ c = Granules(ObjectsEnd)
                      \/ c \in A \/ c \in B \/ c \in C
  BY <1>1, Zenon
<1>8. \A c \in Cuts : c \in Nat
  BY <1>3, <1>4, <1>5, <1>6, <1>7, Zenon
<1>9. 0 \in Cuts /\ Granules(ObjectsEnd) \in Cuts
  BY <1>1, Zenon
<1> QED BY <1>8, <1>9

\* A stretch begins at the last cut before its granules.
LEMMA StretchFacts ==
  ASSUME LayoutOK, NEW g \in Nat
  PROVE  /\ Stretch(g) \in Nat /\ Stretch(g) <= g
         /\ \A c \in Cuts : c <= g <=> c <= Stretch(g)
<1> DEFINE S == {c \in Cuts : c <= g}
           m == Max(S)
<1>1. Cuts \subseteq Nat /\ 0 \in Cuts
  BY CutsNumbers
<1>2. S \in SUBSET (0..g) /\ S # {}
  <2>1. 0 \in S
    BY <1>1
  <2>2. \A c \in S : c \in 0..g
    BY <1>1
  <2> QED BY <2>1, <2>2
<1>3. m \in S /\ \A y \in S : y <= m
  <2> HIDE DEF S
  <2> QED BY <1>2, GreatestNumber
<1>4. m \in Nat /\ m <= g
  BY <1>1, <1>3
<1>5. \A c \in Cuts : c <= g <=> c <= m
  <2> HIDE DEF m
  <2>1. \A c \in Cuts : c \in Nat
    BY <1>1
  <2>2. \A c \in Cuts : c <= g => c <= m
    BY <1>3
  <2> QED BY <1>4, <2>1, <2>2
<1> QED BY <1>4, <1>5 DEF Stretch

\* The granules of a stretch are of the same locals, and whole or not alike.
LEMMA StretchSame ==
  ASSUME LayoutOK, NEW g \in Nat, NEW i \in DOMAIN locals
  PROVE  LET c == Stretch(g)
         IN /\ g \in Covered(i) <=> c \in Covered(i)
            /\ g \in Covered(i) => ObjectRun(i, SizeOf(i), c - At(i)) = ObjectRun(i, SizeOf(i), g - At(i))
<1> DEFINE c == Stretch(g)
           a == At(i)
           w == SizeOf(i) \div Granule
           n == Granules(SizeOf(i))
<1>1. c \in Nat /\ c <= g /\ \A x \in Cuts : x <= g <=> x <= c
  BY StretchFacts
<1>2. a \in Cuts /\ a + w \in Cuts /\ a + n \in Cuts
  BY CutsAre
<1>3. a \in Nat /\ w \in Nat /\ n \in Nat
  BY Place16, GranulesFacts DEF Granule
<1>4. \A h \in Nat : h \in Covered(i) <=> a <= h /\ h < a + n
  BY CoveredIs
<1> HIDE DEF c, a, n, w
<1>5. (a <= g <=> a <= c) /\ (a + w <= g <=> a + w <= c) /\ (a + n <= g <=> a + n <= c)
  BY <1>1, <1>2
<1>6. g \in Covered(i) <=> c \in Covered(i)
  BY <1>1, <1>3, <1>4, <1>5
<1>7. c - a < w <=> g - a < w
  BY <1>1, <1>3, <1>5
<1>8. ObjectRun(i, SizeOf(i), c - a) = ObjectRun(i, SizeOf(i), g - a)
  BY <1>7 DEF ObjectRun, w
<1> QED BY <1>6, <1>8 DEF c, a

\* Entry: the locals without markers are addressable and nothing else is.
LEMMA EntryShown ==
  ASSUME LayoutOK
  PROVE  /\ EntryShadow = [g \in Frame |-> EntryShadow[g]]
         /\ ScopeShown(EntryShadow, DOMAIN locals \ Scoped)
<1>1. /\ EntryShadow = [g \in Frame |-> EntryAt(Stretch(g))]
      /\ \A g \in Frame : EntryShadow[g] = EntryAt(Stretch(g)) /\ g \in Nat
  <2>1. EntryShadow = [g \in Frame |-> EntryAt(Stretch(g))]
    BY DEF EntryShadow, Frame, Stretch, Granule
  <2>2. \A g \in Frame : g \in Nat
    BY DEF Frame
  <2> QED BY <2>1, <2>2
<1>2. ASSUME NEW i \in DOMAIN locals \ Scoped, NEW g \in Covered(i)
      PROVE  EntryShadow[g] = ObjectRun(i, SizeOf(i), g - At(i))
  <2> DEFINE c == Stretch(g)
             on == {j \in DOMAIN locals : c \in Covered(j)}
             own == on \ Scoped
  <2>1. g \in Frame /\ g \in Nat
    BY <1>1, <1>2, InFrame
  <2>2. /\ c \in Covered(i)
        /\ ObjectRun(i, SizeOf(i), c - At(i)) = ObjectRun(i, SizeOf(i), g - At(i))
    BY <1>2, <2>1, StretchSame
  <2>3. ~(c >= Granules(ObjectsEnd))
    <3>1. c \in Nat /\ c < At(i) + Granules(SizeOf(i))
      BY <2>2, CoveredIs
    <3>2. /\ At(i) + Granules(SizeOf(i)) <= Granules(ObjectsEnd)
          /\ Granules(ObjectsEnd) \in Nat /\ At(i) \in Nat /\ Granules(SizeOf(i)) \in Nat
      BY ObjectsEndLast, Place16, CoveredIs
    <3> HIDE DEF c
    <3> QED BY <3>1, <3>2
  <2> HIDE DEF c
  <2>4. own = {i}
    <3>1. ASSUME NEW j \in own, j # i PROVE FALSE
      <4>1. j \in DOMAIN locals /\ c \in Covered(j) /\ MayMeet(i, j)
        BY <1>2, <3>1 DEF Scoped, MayMeet
      <4> QED BY <2>2, <3>1, <4>1, CoveredApart
    <3>2. i \in own
      BY <1>2, <2>2
    <3> HIDE DEF own
    <3> QED BY <3>1, <3>2
  <2>5. Max(own) = i
    <3>1. i \in Nat
      BY <1>2, Place16
    <3>2. \E x \in {i} : \A y \in {i} : x >= y
      BY <3>1
    <3>3. Max({i}) \in {i}
      BY <3>2 DEF Max
    <3> QED BY <2>4, <3>3
  <2>6. EntryAt(c) = ObjectRun(i, SizeOf(i), c - At(i))
    <3>1. own # {}
      BY <2>4
    <3>2. EntryAt(c) = ObjectRun(Max(own), SizeOf(Max(own)), c - offsets[Max(own)] \div Granule)
      BY <2>3, <3>1, Zenon DEF EntryAt
    <3> HIDE DEF own
    <3> QED BY <2>5, <3>2 DEF At
  <2>7. EntryShadow[g] = EntryAt(c)
    BY <1>1, <2>1 DEF c
  <2> QED BY <2>2, <2>6, <2>7
<1>3. ASSUME NEW g \in Frame, \A i \in DOMAIN locals \ Scoped : g \notin Covered(i)
      PROVE  IsPoison(EntryShadow[g])
  <2> DEFINE c == Stretch(g)
             on == {j \in DOMAIN locals : c \in Covered(j)}
             own == on \ Scoped
  <2>1. g \in Nat /\ EntryShadow[g] = EntryAt(c)
    BY <1>1
  <2>2. \A i \in DOMAIN locals : c \in Covered(i) => g \in Covered(i)
    BY <2>1, StretchSame
  <2> HIDE DEF c
  <2>3. own = {}
    BY <1>3, <2>2
  <2>4. EntryAt(c) \in {Poison("right"), Poison("scope"), Poison("left"), Poison("mid")}
    BY <2>3, Zenon DEF EntryAt
  <2> QED BY <2>1, <2>4, PoisonIs
<1> QED BY <1>1, <1>2, <1>3 DEF ScopeShown

\* A scope's start: only locals it may meet are in scope.
LEMMA StartShown ==
  ASSUME LayoutOK, ScopesOK, FrameKept, NEW i \in Scoped,
         \A j \in inScope \cap Scoped : {i, j} \in mayMeet
  PROVE  /\ StartShadow(i) = [g \in Frame |-> StartShadow(i)[g]]
         /\ ScopeShown(StartShadow(i), inScope \cup {i})
<1>1. i \in DOMAIN locals /\ inScope \subseteq DOMAIN locals /\ DOMAIN frameShadow = Frame
  BY DEF Scoped, ScopesOK, FrameKept, Frame
<1>2. \A j \in inScope : MayMeet(i, j) /\ MayMeet(j, i)
  <2> TAKE j \in inScope
  <2>1. {i, j} = {j, i}
    OBVIOUS
  <2> QED BY <1>1, <2>1 DEF MayMeet, Scoped
<1>3. /\ StartShadow(i) = [g \in Frame |-> StartShadow(i)[g]]
      /\ \A g \in Frame :
           StartShadow(i)[g] =
             IF g \in Covered(i) THEN ObjectRun(i, SizeOf(i), g - At(i))
             ELSE IF SharesRedzone(i) /\ g \in Redzone(i) THEN Poison("mid") ELSE frameShadow[g]
  BY <1>1 DEF StartShadow, At
<1>4. ASSUME NEW j \in inScope \cup {i}, NEW g \in Covered(j)
      PROVE  StartShadow(i)[g] = ObjectRun(j, SizeOf(j), g - At(j))
  <2>1. g \in Frame
    BY <1>1, <1>4, InFrame
  <2>2. CASE j = i
    BY <1>3, <1>4, <2>1, <2>2
  <2>3. CASE j # i
    <3>1. j \in inScope /\ j \in DOMAIN locals /\ MayMeet(i, j)
      BY <1>1, <1>2, <1>4, <2>3
    <3>2. g \notin Covered(i) /\ g \notin Redzone(i)
      BY <1>1, <1>4, <2>3, <3>1, CoveredApart
    <3>3. StartShadow(i)[g] = frameShadow[g]
      BY <1>3, <2>1, <3>2
    <3>4. frameShadow[g] = ObjectRun(j, SizeOf(j), g - At(j))
      BY <1>4, <3>1 DEF FrameKept, LocalsAddressable, At
    <3> QED BY <3>3, <3>4
  <2> QED BY <2>2, <2>3
<1>5. ASSUME NEW g \in Frame, \A j \in inScope \cup {i} : g \notin Covered(j)
      PROVE  IsPoison(StartShadow(i)[g])
  <2>1. IsPoison(frameShadow[g])
    BY <1>1, <1>5 DEF FrameKept, OutOfScopePoison
  <2>2. g \notin Covered(i)
    BY <1>5
  <2>3. StartShadow(i)[g] = Poison("mid") \/ StartShadow(i)[g] = frameShadow[g]
    BY <1>3, <2>2
  <2> QED BY <2>1, <2>3, PoisonIs
<1> QED BY <1>3, <1>4, <1>5 DEF ScopeShown

EndShadow(i) == [g \in DOMAIN frameShadow |->
                   IF g \in Covered(i) THEN Poison("scope") ELSE frameShadow[g]]

\* A scope's end takes only what the local covered.
LEMMA EndShown ==
  ASSUME LayoutOK, ScopesOK, FrameKept, NEW i \in inScope
  PROVE  /\ EndShadow(i) = [g \in Frame |-> EndShadow(i)[g]]
         /\ ScopeShown(EndShadow(i), inScope \ {i})
<1>1. i \in DOMAIN locals /\ inScope \subseteq DOMAIN locals /\ DOMAIN frameShadow = Frame
  BY DEF ScopesOK, FrameKept, Frame
<1>2. /\ EndShadow(i) = [g \in Frame |-> EndShadow(i)[g]]
      /\ \A g \in Frame :
           EndShadow(i)[g] = IF g \in Covered(i) THEN Poison("scope") ELSE frameShadow[g]
  BY <1>1 DEF EndShadow
<1>3. ASSUME NEW j \in inScope \ {i}, NEW g \in Covered(j)
      PROVE  EndShadow(i)[g] = ObjectRun(j, SizeOf(j), g - At(j))
  <2>1. g \in Frame
    BY <1>1, <1>3, InFrame
  <2>2. MayMeet(i, j) /\ j \in DOMAIN locals /\ i # j
    BY <1>1, <1>3 DEF ScopesOK
  <2>3. g \notin Covered(i)
    <3>1. ASSUME g \in Covered(i) PROVE g \notin Covered(j)
      BY <1>1, <2>2, <3>1, CoveredApart
    <3> QED BY <1>3, <3>1
  <2>4. EndShadow(i)[g] = frameShadow[g]
    BY <1>2, <2>1, <2>3
  <2>5. frameShadow[g] = ObjectRun(j, SizeOf(j), g - At(j))
    BY <1>3 DEF FrameKept, LocalsAddressable, At
  <2> QED BY <2>4, <2>5
<1>4. ASSUME NEW g \in Frame, \A j \in inScope \ {i} : g \notin Covered(j)
      PROVE  IsPoison(EndShadow(i)[g])
  <2>1. CASE g \in Covered(i)
    BY <1>2, <2>1, PoisonIs
  <2>2. CASE g \notin Covered(i)
    <3>1. IsPoison(frameShadow[g])
      BY <1>1, <1>4, <2>2 DEF FrameKept, OutOfScopePoison
    <3> QED BY <1>2, <2>2, <3>1
  <2> QED BY <2>1, <2>2
<1> QED BY <1>2, <1>3, <1>4 DEF ScopeShown

-----------------------------------------------------------------------------
(* The allocas.                                                            *)
(***************************************************************************)
EndOf(made, n) == IF n = 1 THEN DynamicGranules ELSE made[n - 1].at

\* The value the shadow has for granule g of alloca n.
AllocaValue(made, n, g) ==
  IF g < made[n].at + Granules(made[n].size) THEN ObjectRun(n, made[n].size, g - made[n].at)
  ELSE Poison("dynamic")

AllocaOK(made, n) == /\ made[n].at \in Nat /\ made[n].size \in DynamicSizes
                   /\ made[n].at + Granules(made[n].size) <= EndOf(made, n)
                   /\ EndOf(made, n) <= DynamicGranules
                   /\ \A m \in 1..Len(made) : m <= n => made[n].at <= made[m].at

Free == {Addressable, Poison("returned")}

StackOK(made, sp, sh) ==
  /\ made \in Seq([at : Nat, size : DynamicSizes])
  /\ sp \in 0..DynamicGranules
  /\ sp = IF Len(made) = 0 THEN DynamicGranules ELSE made[Len(made)].at
  /\ \A n \in 1..Len(made) : AllocaOK(made, n)
  /\ sh = [g \in Stack |-> sh[g]]
  /\ \A n \in 1..Len(made) : \A g \in made[n].at..(EndOf(made, n) - 1) : sh[g] = AllocaValue(made, n, g)
  /\ \A g \in 0..(sp - 1) : sh[g] \in Free

LEMMA ListOf ==
  ASSUME NEW T, NEW s \in Seq(T)
  PROVE  /\ Len(s) \in Nat /\ DOMAIN s = 1..Len(s)
         /\ \A n \in 1..Len(s) : s[n] \in T
  OBVIOUS

LEMMA Numbered ==
  ASSUME NEW k \in Nat, NEW n \in 1..k
  PROVE  /\ k # 0 /\ k \in 1..k /\ n \in Nat /\ n <= k
         /\ n # 1 => n - 1 \in 1..k
  OBVIOUS

LEMMA AllocasAre ==
  ASSUME NEW made \in Seq([at : Nat, size : DynamicSizes])
  PROVE  /\ Len(made) \in Nat /\ DOMAIN made = 1..Len(made)
         /\ \A n \in 1..Len(made) : made[n].at \in Nat /\ made[n].size \in DynamicSizes
<1> DEFINE T == [at : Nat, size : DynamicSizes]
<1>1. made \in Seq(T) /\ \A x \in T : x.at \in Nat /\ x.size \in DynamicSizes
  OBVIOUS
<1> HIDE DEF T
<1>2. Len(made) \in Nat /\ DOMAIN made = 1..Len(made) /\ \A n \in 1..Len(made) : made[n] \in T
  BY <1>1, ListOf, Zenon
<1> QED BY <1>1, <1>2

\* The invariant says so of the stack, now and after a step.
LEMMA StackSays ==
  ASSUME AllocasStacked, AllocasExact
  PROVE  StackOK(allocas, stackPointer, stackShadow)
<1>1. allocas \in Seq([at : Nat, size : DynamicSizes]) /\ DOMAIN allocas = 1..Len(allocas)
  BY DEF AllocasStacked
<1>2. \A n \in 1..Len(allocas) : allocas[n].at \in Nat /\ allocas[n].size \in DynamicSizes
  BY <1>1, AllocasAre
<1>3. \A n : AllocaEnd(n) = EndOf(allocas, n)
  BY DEF AllocaEnd, EndOf
<1>4. \A n \in 1..Len(allocas) : AllocaOK(allocas, n)
  BY <1>1, <1>2, <1>3 DEF AllocasStacked, AllocaOK
<1>5. \A n \in 1..Len(allocas) : \A g \in allocas[n].at..(EndOf(allocas, n) - 1) :
        stackShadow[g] = AllocaValue(allocas, n, g)
  BY <1>1 DEF AllocasExact, EndOf, AllocaValue
<1> QED BY <1>1, <1>4, <1>5 DEF AllocasStacked, AllocasExact, StackOK, Free

LEMMA StackSaysNext ==
  ASSUME StackOK(allocas', stackPointer', stackShadow')
  PROVE  AllocasStacked' /\ AllocasExact'
<1>1. allocas' \in Seq([at : Nat, size : DynamicSizes]) /\ DOMAIN allocas' = 1..Len(allocas')
  BY DEF StackOK
<1>2. \A n : AllocaEnd(n)' = EndOf(allocas', n)
  BY DEF AllocaEnd, EndOf
<1>3. AllocasStacked'
  BY <1>1, <1>2 DEF AllocasStacked, StackOK, AllocaOK
<1>4. AllocasExact'
  BY <1>1 DEF AllocasExact, StackOK, EndOf, AllocaValue, Free
<1> QED BY <1>3, <1>4

\* An alloca is padded by more than its bytes.
LEMMA DynamicFacts ==
  ASSUME NEW size \in Nat
  PROVE  /\ DynamicPadded(size) \div Granule \in Nat
         /\ Granules(size) \in Nat /\ Granules(size) <= DynamicPadded(size) \div Granule
<1> DEFINE r == RoundUp(size, 32)
<1>1. r \in Nat /\ r >= size
  BY RoundUpFacts
<1>2. DynamicPadded(size) = r + 32
  BY DEF DynamicPadded
<1> HIDE DEF r
<1>3. Granules(size) \in Nat /\ 16 * Granules(size) <= size + 15
  BY GranulesFacts
<1>4. (r + 32) \div 16 \in Nat /\ 16 * ((r + 32) \div 16) + 15 >= r + 32
  BY <1>1
<1>5. Granules(size) <= (r + 32) \div 16
  BY <1>1, <1>3, <1>4
<1> QED BY <1>2, <1>3, <1>4, <1>5 DEF Granule

\* No alloca lies below the stack pointer.
LEMMA AboveStack ==
  ASSUME NEW made, NEW sp, NEW sh, StackOK(made, sp, sh), NEW n \in 1..Len(made)
  PROVE  sp <= made[n].at /\ made[n].at \in Nat /\ EndOf(made, n) \in Nat /\ EndOf(made, n) <= DynamicGranules
<1>1. /\ Len(made) \in Nat /\ Len(made) # 0 /\ Len(made) \in 1..Len(made)
      /\ n \in Nat /\ n <= Len(made)
      /\ n # 1 => n - 1 \in 1..Len(made)
  <2>1. Len(made) \in Nat
    BY AllocasAre DEF StackOK
  <2> QED BY <2>1, Numbered, Zenon
<1>2. AllocaOK(made, Len(made)) /\ AllocaOK(made, n)
  BY <1>1 DEF StackOK
<1>3. sp = made[Len(made)].at
  BY <1>1 DEF StackOK
<1>5. n # 1 => made[n - 1].at \in Nat
  BY <1>1 DEF StackOK, AllocaOK
<1>6. EndOf(made, n) \in Nat
  BY <1>5, FrameConstants DEF EndOf
<1> QED BY <1>1, <1>2, <1>3, <1>6 DEF AllocaOK

\* What an alloca of a size leaves of a stack.
AllocaLow(sp, size) == sp - DynamicPadded(size) \div Granule
MadeAlloca(made, sp, size) == Append(made, [at |-> AllocaLow(sp, size), size |-> size])
AllocaShadow(made, sp, sh, size) ==
  LET low == AllocaLow(sp, size)
  IN [g \in Stack |->
        IF g \in low..(low + Granules(size) - 1) THEN ObjectRun(Len(made) + 1, size, g - low)
        ELSE IF g \in low..(sp - 1) THEN Poison("dynamic") ELSE sh[g]]

\* An alloca is laid below all others and disturbs none.
LEMMA AllocaMade ==
  ASSUME NEW made, NEW sp, NEW sh, StackOK(made, sp, sh), NEW size \in DynamicSizes,
         DynamicPadded(size) \div Granule <= sp
  PROVE  StackOK(MadeAlloca(made, sp, size), AllocaLow(sp, size), AllocaShadow(made, sp, sh, size))
<1> DEFINE low == AllocaLow(sp, size)
           k == Len(made)
           new == [at |-> low, size |-> size]
           next == Append(made, new)
           shadow == AllocaShadow(made, sp, sh, size)
           T == [at : Nat, size : DynamicSizes]
           gr == Granules(size)
<1>1. /\ made \in Seq(T) /\ k \in Nat /\ sp \in Nat /\ sp <= DynamicGranules /\ DynamicGranules \in Nat
      /\ sp = IF k = 0 THEN DynamicGranules ELSE made[k].at
      /\ \A n \in 1..k : AllocaOK(made, n)
  <2>1. made \in Seq(T) /\ sp \in 0..DynamicGranules
    BY DEF StackOK
  <2>2. k \in Nat
    BY <2>1, AllocasAre
  <2> QED BY <2>1, <2>2, FrameConstants DEF StackOK
<1>2. low \in Nat /\ gr \in Nat /\ low + gr <= sp
  <2>1. size \in Nat
    BY FrameConstants
  <2> DEFINE d == DynamicPadded(size) \div Granule
  <2>2. d \in Nat /\ gr \in Nat /\ gr <= d /\ d <= sp
    BY <2>1, DynamicFacts
  <2>3. low = sp - d
    BY DEF AllocaLow
  <2> HIDE DEF d, low, gr
  <2> QED BY <1>1, <2>2, <2>3
<1>3. /\ \A g \in Stack : shadow[g] = IF g \in low..(low + gr - 1) THEN ObjectRun(k + 1, size, g - low)
                                      ELSE IF g \in low..(sp - 1) THEN Poison("dynamic") ELSE sh[g]
      /\ shadow = [g \in Stack |-> shadow[g]]
  BY DEF AllocaShadow
<1>4. \A g : g \in Stack <=> g \in Nat /\ g < DynamicGranules
  BY FrameConstants DEF Stack
<1> HIDE DEF low, gr, shadow
<1>5. new \in T /\ new.at = low /\ new.size = size
  BY <1>2
<1> HIDE DEF new, T
<1>6. /\ next \in Seq(T) /\ Len(next) = k + 1 /\ next[k + 1] = new
      /\ \A n \in 1..k : next[n] = made[n]
  BY <1>1, <1>5
<1> HIDE DEF next, k
<1>7. \A n \in 1..(k + 1) : n \in 1..k \/ n = k + 1
  BY <1>1
<1>8. \A n \in 1..k : /\ EndOf(next, n) = EndOf(made, n) /\ sp <= made[n].at
                      /\ made[n].at \in Nat /\ EndOf(made, n) \in Nat /\ EndOf(made, n) <= DynamicGranules
  <2> TAKE n \in 1..k
  <2>1. n # 1 => n - 1 \in 1..k
    BY <1>1, Numbered
  <2>2. EndOf(next, n) = EndOf(made, n)
    BY <1>6, <2>1 DEF EndOf
  <2> QED BY <2>2, AboveStack DEF k
<1>9. EndOf(next, k + 1) = sp
  <2>1. CASE k = 0
    BY <1>1, <2>1 DEF EndOf
  <2>2. CASE k # 0
    <3>1. k + 1 # 1 /\ (k + 1) - 1 = k /\ k \in 1..k
      BY <1>1, <2>2
    <3>2. next[k] = made[k]
      BY <1>6, <3>1
    <3>3. EndOf(next, k + 1) = next[(k + 1) - 1].at
      BY <3>1 DEF EndOf
    <3>4. sp = made[k].at
      BY <1>1, <2>2
    <3> QED BY <3>1, <3>2, <3>3, <3>4
  <2> QED BY <2>1, <2>2
<1>10. ASSUME NEW n \in 1..(k + 1) PROVE AllocaOK(next, n)
  <2>1. CASE n \in 1..k
    <3>1. AllocaOK(made, n) /\ next[n] = made[n] /\ EndOf(next, n) = EndOf(made, n)
      BY <1>1, <1>6, <1>8, <2>1
    <3>2. ASSUME NEW m \in 1..(k + 1), m <= n PROVE next[n].at <= next[m].at
      <4>1. m \in 1..k
        BY <1>1, <2>1, <3>2
      <4>2. made[n].at <= made[m].at
        BY <3>1, <3>2, <4>1 DEF AllocaOK, k
      <4> QED BY <1>6, <2>1, <4>1, <4>2
    <3> QED BY <1>6, <3>1, <3>2 DEF AllocaOK
  <2>2. CASE n = k + 1
    <3>1. next[n] = new /\ EndOf(next, n) = sp
      BY <1>6, <1>9, <2>2
    <3>2. ASSUME NEW m \in 1..(k + 1) PROVE low <= next[m].at
      <4>1. CASE m \in 1..k
        <5>1. next[m] = made[m] /\ sp <= made[m].at /\ made[m].at \in Nat
          BY <1>6, <1>8, <4>1
        <5>2. low <= made[m].at
          BY <1>1, <1>2, <5>1
        <5> QED BY <5>1, <5>2
      <4>2. CASE m = k + 1
        BY <1>2, <1>5, <1>6, <4>2
      <4> QED BY <1>7, <4>1, <4>2
    <3>3. \A m \in 1..Len(next) : m <= n => next[n].at <= next[m].at
      BY <1>5, <1>6, <3>1, <3>2
    <3>4. new.at \in Nat /\ new.size \in DynamicSizes /\ new.at + Granules(new.size) <= sp
      BY <1>2, <1>5 DEF gr
    <3> QED BY <1>1, <3>1, <3>3, <3>4 DEF AllocaOK
  <2> QED BY <1>7, <2>1, <2>2
<1>11. ASSUME NEW n \in 1..(k + 1), NEW g \in next[n].at..(EndOf(next, n) - 1)
       PROVE  shadow[g] = AllocaValue(next, n, g)
  <2>1. CASE n \in 1..k
    <3>1. /\ next[n] = made[n] /\ EndOf(next, n) = EndOf(made, n)
          /\ sp <= made[n].at /\ made[n].at \in Nat
          /\ EndOf(made, n) \in Nat /\ EndOf(made, n) <= DynamicGranules
      BY <1>6, <1>8, <2>1
    <3>2. g \in made[n].at..(EndOf(made, n) - 1)
      BY <1>11, <3>1
    <3>3. g \in Nat /\ g >= sp /\ g < DynamicGranules
      BY <1>1, <3>1, <3>2
    <3>4. g \in Stack /\ g \notin low..(low + gr - 1) /\ g \notin low..(sp - 1)
      BY <1>1, <1>2, <1>4, <3>3
    <3>5. shadow[g] = sh[g]
      BY <1>3, <3>4
    <3>6. sh[g] = AllocaValue(made, n, g)
      BY <2>1, <3>2 DEF StackOK, k
    <3>7. AllocaValue(made, n, g) = AllocaValue(next, n, g)
      BY <3>1 DEF AllocaValue
    <3> QED BY <3>5, <3>6, <3>7
  <2>2. CASE n = k + 1
    <3>1. next[n] = new /\ EndOf(next, n) = sp
      BY <1>6, <1>9, <2>2
    <3>2. g \in low..(sp - 1)
      BY <1>5, <1>11, <3>1
    <3>3. g \in Stack /\ g \in Nat /\ (g \in low..(low + gr - 1) <=> g < low + gr)
      BY <1>1, <1>2, <1>4, <3>2
    <3>4. shadow[g] = IF g < low + gr THEN ObjectRun(n, size, g - low) ELSE Poison("dynamic")
      BY <1>3, <2>2, <3>2, <3>3
    <3>5. AllocaValue(next, n, g) = IF g < low + gr THEN ObjectRun(n, size, g - low) ELSE Poison("dynamic")
      BY <1>5, <3>1 DEF AllocaValue, gr
    <3> QED BY <3>4, <3>5
  <2> QED BY <1>7, <2>1, <2>2
<1>12. ASSUME NEW g \in 0..(low - 1) PROVE shadow[g] \in Free
  <2>1. g \in Stack /\ g \notin low..(low + gr - 1) /\ g \notin low..(sp - 1) /\ g \in 0..(sp - 1)
    BY <1>1, <1>2, <1>4
  <2>2. shadow[g] = sh[g]
    BY <1>3, <2>1
  <2> QED BY <2>1, <2>2 DEF StackOK
<1>13. StackOK(next, low, shadow)
  <2>1. low \in 0..DynamicGranules
    BY <1>1, <1>2
  <2>2. low = IF Len(next) = 0 THEN DynamicGranules ELSE next[Len(next)].at
    BY <1>1, <1>5, <1>6
  <2>3. next \in Seq([at : Nat, size : DynamicSizes]) /\ 1..Len(next) = 1..(k + 1)
    BY <1>6 DEF T
  <2> QED BY <1>3, <1>10, <1>11, <1>12, <2>1, <2>2, <2>3 DEF StackOK
<1> QED BY <1>13 DEF next, new, low, shadow, MadeAlloca

\* What is left when the stack pointer goes back to where it was after the
\* first n allocas.
RestoreTo(made, n) == IF n = 0 THEN DynamicGranules ELSE made[n].at
RestoreShadow(sh, sp, to) == [g \in Stack |-> IF g \in sp..(to - 1) THEN Addressable ELSE sh[g]]

\* The allocas that stay keep their shadow, the others become addressable.
LEMMA AllocasFreed ==
  ASSUME NEW made, NEW sp, NEW sh, StackOK(made, sp, sh), NEW n \in 0..(Len(made) - 1)
  PROVE  StackOK(SubSeq(made, 1, n), RestoreTo(made, n), RestoreShadow(sh, sp, RestoreTo(made, n)))
<1> DEFINE T == [at : Nat, size : DynamicSizes]
           k == Len(made)
           to == RestoreTo(made, n)
           left == SubSeq(made, 1, n)
           shadow == RestoreShadow(sh, sp, to)
<1>1. /\ made \in Seq(T) /\ k \in Nat /\ sp \in Nat /\ sp <= DynamicGranules /\ DynamicGranules \in Nat
      /\ n \in Nat /\ n < k /\ \A m \in 1..k : AllocaOK(made, m)
  <2>1. made \in Seq(T) /\ sp \in 0..DynamicGranules
    BY DEF StackOK
  <2>2. k \in Nat
    BY <2>1, AllocasAre
  <2> QED BY <2>1, <2>2, FrameConstants DEF StackOK
<1> HIDE DEF T
<1>2. left \in Seq(T) /\ Len(left) = n /\ \A m \in 1..n : left[m] = made[m]
  <2>1. n <= k
    BY <1>1
  <2> QED BY <1>1, <2>1
<1> HIDE DEF left
<1>3. \A m \in 1..n : m \in 1..k /\ (m # 1 => m - 1 \in 1..n)
  BY <1>1
<1>4. \A m \in 1..n : /\ EndOf(left, m) = EndOf(made, m) /\ made[m].at \in Nat
                      /\ EndOf(made, m) \in Nat /\ EndOf(made, m) <= DynamicGranules
                      /\ to <= made[m].at
  <2> TAKE m \in 1..n
  <2>1. EndOf(left, m) = EndOf(made, m)
    BY <1>2, <1>3 DEF EndOf
  <2>2. made[m].at \in Nat /\ EndOf(made, m) \in Nat /\ EndOf(made, m) <= DynamicGranules
    BY <1>3, AboveStack DEF k
  <2>3. n # 0 /\ n \in 1..k /\ m <= n
    BY <1>1
  <2>4. made[n].at <= made[m].at
    BY <1>1, <1>3, <2>3 DEF AllocaOK, k
  <2> QED BY <2>1, <2>2, <2>3, <2>4 DEF RestoreTo
<1>5. to \in Nat /\ to <= DynamicGranules /\ sp <= to
  <2>1. CASE n = 0
    BY <1>1, <2>1 DEF RestoreTo
  <2>2. CASE n # 0
    <3>1. n \in 1..n /\ n \in 1..k
      BY <1>1, <2>2
    <3>2. to = made[n].at
      BY <2>2 DEF RestoreTo
    <3>3. /\ made[n].at \in Nat /\ sp <= made[n].at
          /\ made[n].at + Granules(made[n].size) <= EndOf(made, n) /\ EndOf(made, n) <= DynamicGranules
          /\ EndOf(made, n) \in Nat /\ made[n].size \in DynamicSizes
      BY <1>1, <3>1, AboveStack DEF AllocaOK, k
    <3>4. Granules(made[n].size) \in Nat
      BY <3>3, FrameConstants, GranulesFacts
    <3> QED BY <1>1, <3>2, <3>3, <3>4
  <2> QED BY <2>1, <2>2
<1> HIDE DEF to, k
<1>6. \A g : g \in Stack <=> g \in Nat /\ g < DynamicGranules
  BY FrameConstants DEF Stack
<1>7. /\ \A g \in Stack : shadow[g] = IF g \in sp..(to - 1) THEN Addressable ELSE sh[g]
      /\ shadow = [g \in Stack |-> shadow[g]]
  BY DEF RestoreShadow
<1> HIDE DEF shadow
<1>8. ASSUME NEW m \in 1..n PROVE AllocaOK(left, m)
  <2>1. AllocaOK(made, m) /\ left[m] = made[m] /\ EndOf(left, m) = EndOf(made, m)
    BY <1>1, <1>2, <1>3, <1>4
  <2>2. ASSUME NEW j \in 1..n, j <= m PROVE left[m].at <= left[j].at
    <3>1. made[m].at <= made[j].at
      BY <1>3, <2>1, <2>2 DEF AllocaOK, k
    <3> QED BY <1>2, <3>1
  <2> QED BY <1>2, <2>1, <2>2 DEF AllocaOK
<1>9. ASSUME NEW m \in 1..n, NEW g \in left[m].at..(EndOf(left, m) - 1)
      PROVE  shadow[g] = AllocaValue(left, m, g)
  <2>1. /\ left[m] = made[m] /\ EndOf(left, m) = EndOf(made, m) /\ to <= made[m].at
        /\ made[m].at \in Nat /\ EndOf(made, m) \in Nat /\ EndOf(made, m) <= DynamicGranules
    BY <1>2, <1>4
  <2>2. g \in made[m].at..(EndOf(made, m) - 1)
    BY <1>9, <2>1
  <2>3. g \in Stack /\ g \notin sp..(to - 1)
    BY <1>1, <1>5, <1>6, <2>1, <2>2
  <2>4. shadow[g] = sh[g]
    BY <1>7, <2>3
  <2>5. sh[g] = AllocaValue(made, m, g)
    BY <1>3, <2>2 DEF StackOK, k
  <2>6. AllocaValue(made, m, g) = AllocaValue(left, m, g)
    BY <2>1 DEF AllocaValue
  <2> QED BY <2>4, <2>5, <2>6
<1>10. ASSUME NEW g \in 0..(to - 1) PROVE shadow[g] \in Free
  <2>1. g \in Stack /\ (g \in sp..(to - 1) \/ g \in 0..(sp - 1))
    BY <1>1, <1>5, <1>6
  <2>2. CASE g \in sp..(to - 1)
    BY <1>7, <2>1, <2>2 DEF Free
  <2>3. CASE g \notin sp..(to - 1)
    <3>1. shadow[g] = sh[g]
      BY <1>7, <2>1, <2>3
    <3> QED BY <2>1, <2>3, <3>1 DEF StackOK
  <2> QED BY <2>2, <2>3
<1>11. to = IF Len(left) = 0 THEN DynamicGranules ELSE left[Len(left)].at
  <2>1. n # 0 => n \in 1..n
    BY <1>1
  <2> QED BY <1>2, <2>1 DEF to, RestoreTo
<1>12. left \in Seq([at : Nat, size : DynamicSizes]) /\ to \in 0..DynamicGranules /\ 1..Len(left) = 1..n
  BY <1>1, <1>2, <1>5 DEF T
<1>13. StackOK(left, to, shadow)
  BY <1>7, <1>8, <1>9, <1>10, <1>11, <1>12 DEF StackOK
<1> QED BY <1>13 DEF left, to, shadow

-----------------------------------------------------------------------------
(* The steps of a call.                                                    *)
(***************************************************************************)
LEMMA LayoutStays ==
  ASSUME LayoutOK, UNCHANGED layoutVars
  PROVE  LayoutOK'
<1>1. locals' = locals /\ mayMeet' = mayMeet /\ offsets' = offsets /\ frameSize' = frameSize
  BY DEF layoutVars
<1>2. \A i : ExtentEnd(i)' = ExtentEnd(i) /\ \A j : MayMeet(i, j)' <=> MayMeet(i, j)
  BY <1>1 DEF ExtentEnd, SizeOf, MayMeet
<1> QED BY <1>1, <1>2 DEF LayoutOK

LEMMA ScopesStay ==
  ASSUME UNCHANGED layoutVars, inScope' \subseteq DOMAIN locals, frameAt' \in {"out", "in"},
         frameAt' = "out" => inScope' = {},
         \A i, j \in inScope' : i # j => MayMeet(i, j)
  PROVE  ScopesOK'
<1>1. locals' = locals /\ mayMeet' = mayMeet
  BY DEF layoutVars
<1>2. \A i : \A j : MayMeet(i, j)' <=> MayMeet(i, j)
  BY <1>1 DEF MayMeet
<1> QED BY <1>1, <1>2 DEF ScopesOK

\* A step that leaves such a shadow keeps the invariant.
LEMMA FrameShows ==
  ASSUME UNCHANGED layoutVars, frameShadow' = [g \in Frame |-> frameShadow'[g]],
         ScopeShown(frameShadow', inScope')
  PROVE  FrameKept'
<1>1. locals' = locals /\ offsets' = offsets /\ frameSize' = frameSize
  BY DEF layoutVars
<1>2. \A i : Covered(i)' = Covered(i) /\ SizeOf(i)' = SizeOf(i) /\ offsets'[i] \div Granule = At(i)
  BY <1>1 DEF Covered, SizeOf, At
<1>3. DOMAIN frameShadow' = Frame
  OBVIOUS
<1>4. LocalsAddressable'
  BY <1>2 DEF LocalsAddressable, ScopeShown
<1>5. OutOfScopePoison'
  BY <1>2, <1>3 DEF OutOfScopePoison, ScopeShown
<1> QED BY <1>1, <1>4, <1>5 DEF FrameKept, Frame

\* A function that returned has no locals.
LEMMA ReturnedShown ==
  /\ ReturnedFrame = [g \in Frame |-> ReturnedFrame[g]]
  /\ ScopeShown(ReturnedFrame, {})
<1>1. ReturnedFrame = [g \in Frame |-> Poison("returned")]
  BY DEF ReturnedFrame, Frame, Granule
<1>2. \A g \in Frame : ReturnedFrame[g] = Poison("returned")
  BY <1>1
<1> QED BY <1>1, <1>2, PoisonIs DEF ScopeShown

LEMMA FramesInitially == FramesInit => FrameInv
<1> SUFFICES ASSUME FramesInit PROVE FrameInv
  OBVIOUS
<1>1. LayoutOK
  BY LayoutInitially
<1>2. ScopesOK
  BY DEF FramesInit, ScopesOK
<1>3. FrameKept
  <2>1. frameShadow = ReturnedFrame /\ inScope = {}
    BY DEF FramesInit
  <2>2. DOMAIN ReturnedFrame = Frame /\ \A g \in Frame : IsPoison(ReturnedFrame[g])
    BY ReturnedShown DEF ScopeShown
  <2> QED BY <2>1, <2>2, ReturnedShown DEF FrameKept, LocalsAddressable, OutOfScopePoison, Frame
<1>4. stackPointer = DynamicGranules /\ allocas = <<>>
  BY DEF FramesInit
<1>5. PICK old \in {Addressable, Poison("returned")} : stackShadow = [g \in Stack |-> old]
  BY DEF FramesInit
<1>6. AllocasStacked
  <2>1. DynamicGranules \in 0..DynamicGranules
    BY FrameConstants
  <2>2. Len(<<>>) = 0 /\ DOMAIN <<>> = {} /\ <<>> \in Seq([at : Nat, size : DynamicSizes])
    OBVIOUS
  <2> QED BY <1>4, <1>5, <2>1, <2>2 DEF AllocasStacked
<1>7. AllocasExact
  <2>1. DOMAIN allocas = {}
    BY <1>4
  <2>2. \A g \in 0..(DynamicGranules - 1) : stackShadow[g] = old
    BY <1>5 DEF Stack
  <2> QED BY <1>4, <1>5, <2>1, <2>2 DEF AllocasExact
<1> QED BY <1>1, <1>2, <1>3, <1>6, <1>7 DEF FrameInv

LEMMA FramesSteps == FrameInv /\ [FramesNext]_frameVars => FrameInv'
<1> SUFFICES ASSUME FrameInv, [FramesNext]_frameVars PROVE FrameInv'
  OBVIOUS
<1>0. LayoutOK /\ ScopesOK /\ FrameKept /\ StackOK(allocas, stackPointer, stackShadow)
  BY StackSays DEF FrameInv
<1>1. CASE Enter
  <2>1. /\ frameAt' = "in" /\ frameShadow' = EntryShadow /\ inScope' = DOMAIN locals \ Scoped
        /\ UNCHANGED layoutVars /\ UNCHANGED dynamicVars
    BY <1>1 DEF Enter
  <2>2. FrameKept'
    BY <1>0, <2>1, EntryShown, FrameShows
  <2>3. \A i, j \in inScope' : i # j => MayMeet(i, j)
    BY <2>1 DEF MayMeet, Scoped
  <2>4. ScopesOK'
    BY <2>1, <2>3, ScopesStay
  <2>5. StackOK(allocas', stackPointer', stackShadow')
    BY <1>0, <2>1 DEF dynamicVars
  <2> QED BY <1>0, <2>1, <2>2, <2>4, <2>5, LayoutStays, StackSaysNext DEF FrameInv
<1>2. ASSUME NEW i \in DOMAIN locals, ScopeStart(i) PROVE FrameInv'
  <2>1. /\ frameAt = "in" /\ i \in Scoped /\ frameAt' = frameAt
        /\ \A j \in inScope \cap Scoped : {i, j} \in mayMeet
        /\ frameShadow' = StartShadow(i) /\ inScope' = inScope \cup {i}
        /\ UNCHANGED layoutVars /\ UNCHANGED dynamicVars
    BY <1>2 DEF ScopeStart
  <2>2. FrameKept'
    BY <1>0, <2>1, StartShown, FrameShows
  <2>3. \A j \in inScope : MayMeet(i, j) /\ MayMeet(j, i)
    <3> TAKE j \in inScope
    <3>1. {i, j} = {j, i} /\ j \in DOMAIN locals
      BY <1>0 DEF ScopesOK
    <3> QED BY <2>1, <3>1 DEF MayMeet, Scoped
  <2>4. \A a, b \in inScope' : a # b => MayMeet(a, b)
    BY <1>0, <2>1, <2>3 DEF ScopesOK
  <2>5. inScope' \subseteq DOMAIN locals /\ frameAt' = "in"
    BY <1>0, <2>1 DEF ScopesOK
  <2>6. ScopesOK'
    BY <2>1, <2>4, <2>5, ScopesStay
  <2>7. StackOK(allocas', stackPointer', stackShadow')
    BY <1>0, <2>1 DEF dynamicVars
  <2> QED BY <1>0, <2>1, <2>2, <2>6, <2>7, LayoutStays, StackSaysNext DEF FrameInv
<1>3. ASSUME NEW i \in DOMAIN locals, ScopeEnd(i) PROVE FrameInv'
  <2>1. /\ frameAt = "in" /\ i \in inScope /\ frameAt' = frameAt
        /\ frameShadow' = EndShadow(i) /\ inScope' = inScope \ {i}
        /\ UNCHANGED layoutVars /\ UNCHANGED dynamicVars
    BY <1>3 DEF ScopeEnd, EndShadow
  <2>2. FrameKept'
    BY <1>0, <2>1, EndShown, FrameShows
  <2>3. ScopesOK'
    <3>1. inScope' \subseteq DOMAIN locals /\ frameAt' = "in"
      BY <1>0, <2>1 DEF ScopesOK
    <3>2. \A a, b \in inScope' : a # b => MayMeet(a, b)
      BY <1>0, <2>1 DEF ScopesOK
    <3> QED BY <2>1, <3>1, <3>2, ScopesStay
  <2>4. StackOK(allocas', stackPointer', stackShadow')
    BY <1>0, <2>1 DEF dynamicVars
  <2> QED BY <1>0, <2>1, <2>2, <2>3, <2>4, LayoutStays, StackSaysNext DEF FrameInv
<1>4. ASSUME UNCHANGED <<layoutVars, frameAt, inScope, frameShadow>>,
             StackOK(allocas', stackPointer', stackShadow')
      PROVE  FrameInv'
  <2>1. UNCHANGED layoutVars /\ frameAt' = frameAt /\ inScope' = inScope /\ frameShadow' = frameShadow
    BY <1>4
  <2>2. DOMAIN frameShadow = Frame /\ frameShadow = [g \in Frame |-> frameShadow[g]]
    BY <1>0 DEF FrameKept, Frame
  <2>3. ScopeShown(frameShadow, inScope)
    BY <1>0, <2>2 DEF FrameKept, LocalsAddressable, OutOfScopePoison, ScopeShown, At
  <2>4. FrameKept'
    BY <2>1, <2>2, <2>3, FrameShows
  <2>5. ScopesOK'
    BY <1>0, <2>1, ScopesStay DEF ScopesOK
  <2> QED BY <1>0, <1>4, <2>1, <2>4, <2>5, LayoutStays, StackSaysNext DEF FrameInv
<1>5. ASSUME NEW size \in DynamicSizes, DynamicAlloca(size) PROVE FrameInv'
  <2>1. /\ DynamicPadded(size) \div Granule <= stackPointer
        /\ stackPointer' = AllocaLow(stackPointer, size)
        /\ allocas' = MadeAlloca(allocas, stackPointer, size)
        /\ stackShadow' = AllocaShadow(allocas, stackPointer, stackShadow, size)
        /\ UNCHANGED <<layoutVars, frameAt, inScope, frameShadow>>
    BY <1>5 DEF DynamicAlloca, AllocaLow, MadeAlloca, AllocaShadow
  <2>2. StackOK(allocas', stackPointer', stackShadow')
    BY <1>0, <2>1, AllocaMade
  <2> QED BY <1>4, <2>1, <2>2
<1>6. ASSUME NEW n \in 0..Len(allocas), StackRestore(n) PROVE FrameInv'
  <2>1. /\ n \in 0..(Len(allocas) - 1)
        /\ stackPointer' = RestoreTo(allocas, n)
        /\ allocas' = SubSeq(allocas, 1, n)
        /\ stackShadow' = RestoreShadow(stackShadow, stackPointer, RestoreTo(allocas, n))
        /\ UNCHANGED <<layoutVars, frameAt, inScope, frameShadow>>
    BY <1>6 DEF StackRestore, Unpoisoned, RestoreTo, RestoreShadow
  <2>2. StackOK(allocas', stackPointer', stackShadow')
    BY <1>0, <2>1, AllocasFreed
  <2> QED BY <1>4, <2>1, <2>2
<1>7. CASE Return
  <2>1. /\ frameAt' = "out" /\ inScope' = {} /\ frameShadow' = ReturnedFrame
        /\ stackPointer' = DynamicGranules /\ allocas' = <<>> /\ UNCHANGED layoutVars
        /\ stackShadow' = IF allocas = <<>> THEN stackShadow
                          ELSE RestoreShadow(stackShadow, stackPointer, DynamicGranules)
    BY <1>7 DEF Return, Unpoisoned, RestoreShadow
  <2>2. FrameKept'
    BY <2>1, ReturnedShown, FrameShows
  <2>3. ScopesOK'
    BY <2>1, ScopesStay
  <2>4. StackOK(allocas', stackPointer', stackShadow')
    <3>1. CASE allocas = <<>>
      <4>1. stackPointer = DynamicGranules
        BY <1>0, <3>1 DEF StackOK
      <4> QED BY <1>0, <2>1, <3>1, <4>1
    <3>2. CASE allocas # <<>>
      <4>1. Len(allocas) \in Nat /\ Len(allocas) # 0 /\ SubSeq(allocas, 1, 0) = <<>>
        BY <1>0, <3>2 DEF StackOK
      <4>2. 0 \in 0..(Len(allocas) - 1) /\ RestoreTo(allocas, 0) = DynamicGranules
        BY <4>1 DEF RestoreTo
      <4>3. StackOK(SubSeq(allocas, 1, 0), RestoreTo(allocas, 0),
                    RestoreShadow(stackShadow, stackPointer, RestoreTo(allocas, 0)))
        BY <1>0, <4>2, AllocasFreed
      <4> QED BY <2>1, <3>2, <4>1, <4>2, <4>3
    <3> QED BY <3>1, <3>2
  <2> QED BY <1>0, <2>1, <2>2, <2>3, <2>4, LayoutStays, StackSaysNext DEF FrameInv
<1>8. CASE UNCHANGED frameVars
  <2>1. UNCHANGED <<layoutVars, frameAt, inScope, frameShadow>> /\ UNCHANGED dynamicVars
    BY <1>8 DEF frameVars
  <2>2. StackOK(allocas', stackPointer', stackShadow')
    BY <1>0, <2>1 DEF dynamicVars
  <2> QED BY <1>4, <2>1, <2>2
<1> QED BY <1>1, <1>2, <1>3, <1>5, <1>6, <1>7, <1>8 DEF FramesNext

\* In scope at once are only locals that may meet: their redzones are apart
\* too.
LEMMA FramesSafe == FrameInv => FrameShadowExact
<1> SUFFICES ASSUME FrameInv PROVE FrameShadowExact
  OBVIOUS
<1>1. LayoutOK /\ ScopesOK /\ FrameKept /\ AllocasExact
  BY DEF FrameInv
<1>2. ASSUME NEW i \in inScope, NEW g \in Redzone(i) \cup {offsets[i] \div Granule - 1}
      PROVE  IsPoison(frameShadow[g]) /\ \A j \in inScope : g \notin Covered(j)
  <2>1. i \in DOMAIN locals /\ inScope \subseteq DOMAIN locals /\ DOMAIN frameShadow = Frame
    BY <1>1 DEF ScopesOK, FrameKept, Frame
  <2>2. g \in Frame
    BY <1>1, <1>2, <2>1, InFrame
  <2>3. g \notin Covered(i)
    <3>1. At(i) \in Nat /\ Granules(SizeOf(i)) \in Nat
      BY <1>1, <2>1, Place16, CoveredIs
    <3>2. g = At(i) - 1 \/ g >= At(i) + Granules(SizeOf(i))
      BY <1>2, <3>1 DEF Redzone, At
    <3>3. g \in Covered(i) => At(i) <= g /\ g < At(i) + Granules(SizeOf(i)) /\ g \in Nat
      BY <1>1, <2>1, CoveredIs
    <3> QED BY <3>1, <3>2, <3>3
  <2>4. \A j \in inScope : g \notin Covered(j)
    <3> TAKE j \in inScope
    <3>1. CASE j = i
      BY <2>3, <3>1
    <3>2. CASE j # i
      <4>1. MayMeet(i, j) /\ j \in DOMAIN locals
        BY <1>1, <2>1, <3>2 DEF ScopesOK
      <4> QED BY <1>1, <1>2, <2>1, <3>2, <4>1, CoveredApart
    <3> QED BY <3>1, <3>2
  <2> QED BY <1>1, <2>1, <2>2, <2>4 DEF FrameKept, OutOfScopePoison
<1>3. LocalRedzonesPoison
  BY <1>2 DEF LocalRedzonesPoison
<1> QED BY <1>1, <1>3 DEF FrameShadowExact, FrameKept

\* For any sizes and alignments of the locals of a function, any of them
\* with lifetime markers and whatever of those may live at once, and any
\* allocas: at every moment of a call the shadow of the frame and of the
\* stack below it is that of the locals in scope and of the allocas that
\* were not freed (layoutStatic, place, layoutDynamic in GuardFrames.cpp).
THEOREM FrameShadowKept == FramesSpec => []FrameShadowExact
<1>1. FramesInit => FrameInv
  BY FramesInitially
<1>2. FrameInv /\ [FramesNext]_frameVars => FrameInv'
  BY FramesSteps
<1>3. FrameInv => FrameShadowExact
  BY FramesSafe
<1> QED BY <1>1, <1>2, <1>3, PTL DEF FramesSpec
=============================================================================
