--------------------------- MODULE RuntimeProofs ---------------------------
(***************************************************************************)
(* Proofs about the table of huge blocks: a lookup finds the block that    *)
(* holds an address and no other, for any number of blocks and pages, and  *)
(* the shadow agrees with who has the memory; about the checked versions   *)
(* of library calls, for any number of cells and any memory; and about the *)
(* guards, which decide exactly for any granule, layout and history.       *)
(***************************************************************************)
EXTENDS HugeBlocks, Library, Shadow, NaturalsInduction, WellFoundedInduction,
        SequenceTheorems, FiniteSetTheorems, TLAPS

-----------------------------------------------------------------------------
\* A sequence with e inserted after its first n elements.
InsertAfter(s, n, e) == InsertAt(s, n + 1, e)

\* What u is then.
Inserted(S, s, n, e, u) ==
  /\ u \in Seq(S) /\ Len(u) = Len(s) + 1
  /\ \A i \in 1..n : u[i] = s[i]
  /\ u[n + 1] = e
  /\ \A i \in (n + 2)..(Len(s) + 1) : u[i] = s[i - 1]

LEMMA InsertProperties ==
  ASSUME NEW S, NEW s \in Seq(S), NEW e \in S, NEW n \in 0..Len(s)
  PROVE  Inserted(S, s, n, e, InsertAfter(s, n, e))
<1> DEFINE a == SubSeq(s, 1, n)
           c == SubSeq(s, n + 1, Len(s))
<1>1. a \in Seq(S) /\ Len(a) = n /\ \A i \in 1..n : a[i] = s[i]
  BY SubSeqProperties
<1>2. c \in Seq(S) /\ Len(c) = Len(s) - n /\ \A i \in 1..(Len(s) - n) : c[i] = s[n + i]
  BY SubSeqProperties
<1> HIDE DEF a, c
<1>3. <<e>> \in Seq(S) /\ Len(<<e>>) = 1 /\ <<e>>[1] = e
  OBVIOUS
<1>4. /\ a \o <<e>> \in Seq(S) /\ Len(a \o <<e>>) = n + 1
      /\ \A i \in 1..n : (a \o <<e>>)[i] = s[i]
      /\ (a \o <<e>>)[n + 1] = e
  BY <1>1, <1>3, ConcatProperties
<1> DEFINE d == a \o <<e>>
<1> HIDE DEF d
<1>5. d \in Seq(S) /\ Len(d) = n + 1 /\ (\A i \in 1..n : d[i] = s[i]) /\ d[n + 1] = e
  BY <1>4 DEF d
<1>6. /\ d \o c \in Seq(S) /\ Len(d \o c) = Len(d) + Len(c)
      /\ \A i \in 1..(Len(d) + Len(c)) :
           (d \o c)[i] = IF i <= Len(d) THEN d[i] ELSE c[i - Len(d)]
  BY <1>2, <1>5, ConcatProperties
<1>7. Len(d) + Len(c) = Len(s) + 1
  BY <1>2, <1>5
<1>8. ASSUME NEW i \in (n + 2)..(Len(s) + 1)
      PROVE  (d \o c)[i] = s[i - 1]
  <2>1. i - (n + 1) \in 1..(Len(s) - n) /\ n + (i - (n + 1)) = i - 1
        /\ i \in 1..(Len(s) + 1) /\ ~(i <= n + 1)
    OBVIOUS
  <2>2. (d \o c)[i] = c[i - (n + 1)]
    BY <1>5, <1>6, <1>7, <2>1
  <2> QED BY <1>2, <2>1, <2>2
<1>9. InsertAt(s, n + 1, e) = d \o c
  <2>1. (n + 1) - 1 = n
    OBVIOUS
  <2> QED BY <2>1 DEF InsertAt, a, c, d
<1>10. Len(d \o c) = Len(s) + 1
  BY <1>6, <1>7
<1>11. \A i \in 1..n : (d \o c)[i] = s[i]
  BY <1>5, <1>6, <1>7
<1>12. (d \o c)[n + 1] = e
  BY <1>5, <1>6, <1>7
<1> DEFINE r == d \o c
<1>13. r \in Seq(S) /\ Len(r) = Len(s) + 1 /\ (\A i \in 1..n : r[i] = s[i])
       /\ r[n + 1] = e /\ \A i \in (n + 2)..(Len(s) + 1) : r[i] = s[i - 1]
  BY <1>6, <1>8, <1>10, <1>11, <1>12
<1>14. InsertAfter(s, n, e) = r
  BY <1>9 DEF InsertAfter
<1> HIDE DEF r
<1> QED BY <1>13, <1>14 DEF Inserted

-----------------------------------------------------------------------------
(* Induction, in the form of a set of numbers.                             *)
(***************************************************************************)
LEMMA SetInduction ==
  ASSUME NEW S, 0 \in S, \A n \in Nat : n \in S => n + 1 \in S
  PROVE  Nat \subseteq S
<1> DEFINE T == {n \in Nat : n \notin S}
<1>1. SUFFICES ASSUME T # {} PROVE FALSE
  OBVIOUS
<1>2. OpToRel(<, Nat) = {s \in Nat \X Nat : s[1] < s[2]}
  BY DEF OpToRel
<1>3. \E x \in T : \A y \in T : ~(<<y, x>> \in OpToRel(<, Nat))
  BY <1>1, NatLessThanWellFounded, WFMin, Zenon
<1>4. PICK x \in T : \A y \in T : ~(<<y, x>> \in {s \in Nat \X Nat : s[1] < s[2]})
  BY <1>2, <1>3, Zenon
<1>5. ASSUME NEW y \in T PROVE ~(y < x)
  <2>1. <<y, x>> \in Nat \X Nat /\ <<y, x>>[1] = y /\ <<y, x>>[2] = x
    OBVIOUS
  <2> QED BY <2>1, <1>4
<1>6. x # 0 /\ x - 1 \in Nat
  OBVIOUS
<1>7. x - 1 \notin T
  BY <1>5, <1>6
<1> QED BY <1>6, <1>7

\* What is true of 0 and goes from each i to i + 1 is true up to n.
LEMMA Upward ==
  ASSUME NEW n \in Nat, NEW S, 0 \in S,
         \A i \in Nat : i < n /\ i \in S => i + 1 \in S
  PROVE  \A i \in 0..n : i \in S
<1> DEFINE T == {i \in Nat : i <= n => i \in S}
<1>1. 0 \in T /\ \A i \in Nat : i \in T => i + 1 \in T
  OBVIOUS
<1> HIDE DEF T
<1>2. Nat \subseteq T
  BY <1>1, SetInduction
<1> QED BY <1>2 DEF T

\* The search of n blocks is its rounds, one after the other.
LEMMA SearchSteps ==
  ASSUME NEW g, Len(hugeBlocks) \in Nat
  PROVE  /\ Search(g)[0] = [low |-> 0, high |-> Len(hugeBlocks)]
         /\ \A k \in 1..Len(hugeBlocks) :
              Search(g)[k] = Halved(Search(g)[k - 1], g)
<1> DEFINE n == Len(hugeBlocks)
           Start == [low |-> 0, high |-> n]
           Is(f, m) == f = [k \in 0..m |-> IF k = 0 THEN Start
                                           ELSE Halved(f[k - 1], g)]
           S == {m \in Nat : \E f : Is(f, m)}
<1>1. 0 \in S
  <2> DEFINE f == [k \in 0..0 |-> Start]
  <2>1. Is(f, 0)
    OBVIOUS
  <2> HIDE DEF f
  <2> QED BY <2>1
<1>2. ASSUME NEW m \in Nat, m \in S
      PROVE  m + 1 \in S
  <2> PICK f : Is(f, m)
    BY <1>2
  <2> DEFINE h == [k \in 0..(m + 1) |-> IF k = m + 1 THEN Halved(f[m], g) ELSE f[k]]
  <2>1. Is(h, m + 1)
    OBVIOUS
  <2>2. \E q : Is(q, m + 1)
    <3> HIDE DEF h, Is
    <3> QED BY <2>1, Zenon
  <2>3. m + 1 \in Nat
    OBVIOUS
  <2> HIDE DEF h, Is
  <2> QED BY <2>2, <2>3
<1> HIDE DEF S
<1>3. n \in S
  BY <1>1, <1>2, SetInduction
<1>4. \E f : Is(f, n)
  BY <1>3 DEF S
<1>5. Search(g) = CHOOSE f : Is(f, n)
  BY DEF Search
<1>6. Is(Search(g), n)
  BY <1>4, <1>5
<1> QED BY <1>6

\* The blocks kept of the first i, one block after the other.
LEMMA KeptSteps ==
  ASSUME NEW r, Len(hugeBlocks) \in Nat
  PROVE  /\ KeptUpTo(r)[0] = <<>>
         /\ \A i \in 1..Len(hugeBlocks) :
              KeptUpTo(r)[i] =
                IF Stays(hugeBlocks[i], r)
                THEN Append(KeptUpTo(r)[i - 1], [hugeBlocks[i] EXCEPT !.marked = FALSE])
                ELSE KeptUpTo(r)[i - 1]
<1> DEFINE n == Len(hugeBlocks)
           One(s, i) == IF Stays(hugeBlocks[i], r)
                        THEN Append(s, [hugeBlocks[i] EXCEPT !.marked = FALSE])
                        ELSE s
           Is(f, m) == f = [i \in 0..m |-> IF i = 0 THEN <<>> ELSE One(f[i - 1], i)]
           S == {m \in Nat : \E f : Is(f, m)}
<1>5. KeptUpTo(r) = CHOOSE f : Is(f, n)
  BY DEF KeptUpTo
<1> HIDE DEF One
<1>1. 0 \in S
  <2> DEFINE f == [i \in 0..0 |-> <<>>]
  <2>1. Is(f, 0)
    OBVIOUS
  <2> HIDE DEF f
  <2> QED BY <2>1
<1>2. ASSUME NEW m \in Nat, m \in S
      PROVE  m + 1 \in S
  <2> PICK f : Is(f, m)
    BY <1>2
  <2> DEFINE h == [i \in 0..(m + 1) |-> IF i = m + 1 THEN One(f[m], m + 1) ELSE f[i]]
  <2>1. Is(h, m + 1)
    OBVIOUS
  <2> HIDE DEF h
  <2> QED BY <2>1
<1> HIDE DEF S
<1>3. n \in S
  BY <1>1, <1>2, SetInduction
<1>4. \E f : Is(f, n)
  BY <1>3 DEF S
<1>6. Is(KeptUpTo(r), n)
  BY <1>4, <1>5
<1>7. KeptUpTo(r)[0] = <<>> /\ \A i \in 1..n : KeptUpTo(r)[i] = One(KeptUpTo(r)[i - 1], i)
  BY <1>6
<1> QED BY <1>7, Zenon DEF One

-----------------------------------------------------------------------------
(* The invariant.  Blocks are whole pages of memory, in address order and  *)
(* apart from each other and from what the threads have not published yet. *)
(***************************************************************************)
Blocks == [map : Nat, mapBytes : Nat, base : Nat, size : Nat,
           dead : BOOLEAN, marked : BOOLEAN]

\* The granules from low on, n of them, are those of whole pages of memory.
WholePages(low, n) ==
    \A g \in low .. low + n - 1 :
        /\ g \in HugeGranules
        /\ \A h \in HugeGranules : HugePage(h) = HugePage(g) => h \in low .. low + n - 1

\* A block, the rest of its last page and a granule after it lie in its mapping.
BlockOK(b) ==
    /\ b \in Blocks
    /\ b.size <= BlockPages(b.size) * PageG
    /\ b.map <= b.base
    /\ b.base + BlockPages(b.size) * PageG < b.map + b.mapBytes
    /\ WholePages(b.map, b.mapBytes)

MapOK(m) ==
    \/ m = NoMap
    \/ /\ m \in [page : Nat, size : Nat, align : Nat \ {0}]
       /\ MapPages(m.page, m.size, m.align) \subseteq 0 .. Pages - 1

HugeTyped ==
    /\ hugeBlocks \in Seq(Blocks)
    /\ \A i \in DOMAIN hugeBlocks : BlockOK(hugeBlocks[i])
    /\ hugeLow \in Nat /\ hugeHigh \in Nat
    /\ pageOwner \in [0 .. Pages - 1 -> {"none", "huge", "program", "other"}]
    /\ pagePoison \in [HugeGranules -> {"clear", "tail", "freed"}]
    /\ DOMAIN mapping = Callers
    /\ \A t \in Callers : MapOK(mapping[t])

InOrder ==
    \A i \in DOMAIN hugeBlocks : \A j \in DOMAIN hugeBlocks :
        i < j => hugeBlocks[i].map + hugeBlocks[i].mapBytes <= hugeBlocks[j].map

InBounds ==
    \A i \in DOMAIN hugeBlocks :
        /\ hugeLow <= hugeBlocks[i].map
        /\ hugeBlocks[i].map + hugeBlocks[i].mapBytes <= hugeHigh

\* What a thread has mapped and not published is no block's and no other thread's.
Unpublished(t, q) == mapping[t] # NoMap /\ q \in MappedPages(t)

OnPage(i, q) == \E g \in BlockGranules(hugeBlocks[i]) : HugePage(g) = q

MapsApart ==
    \A t \in Callers : \A q \in 0 .. Pages - 1 :
        Unpublished(t, q) => /\ \A i \in DOMAIN hugeBlocks : ~OnPage(i, q)
                             /\ \A u \in Callers : Unpublished(u, q) => u = t

HugeInv ==
    /\ HugeTyped /\ InOrder /\ InBounds /\ MapsApart /\ PagesKept
    /\ BlockShadowExact /\ ProgramMemoryAddressable

-----------------------------------------------------------------------------
(* Pages and granules.                                                     *)
(***************************************************************************)
LEMMA Scaled ==
  ASSUME NEW a \in Int, NEW b \in Int, NEW n \in Nat, a <= b
  PROVE  a * n \in Int /\ b * n \in Int /\ a * n <= b * n
OBVIOUS

LEMMA PageOf ==
  ASSUME NEW g \in Nat
  PROVE  /\ HugePage(g) \in Nat
         /\ HugePage(g) * PageG <= g
         /\ g < (HugePage(g) + 1) * PageG
  BY HugeAssumption DEF HugePage

LEMMA PageSpan ==
  ASSUME NEW p \in Nat, NEW k \in Nat, NEW g \in Nat
  PROVE  g >= p * PageG /\ g < (p + k) * PageG <=> HugePage(g) \in p .. p + k - 1
<1>0. PageG \in Nat /\ HugePage(g) \in Nat
  BY HugeAssumption, PageOf
<1> DEFINE d == HugePage(g)
<1>1. d * PageG <= g /\ g < (d + 1) * PageG
  BY PageOf
<1> HIDE DEF d
<1>2. d \in Nat
  BY <1>0 DEF d
<1>3. CASE d < p
  <2>1. (d + 1) * PageG <= p * PageG
    BY <1>0, <1>2, <1>3, Scaled
  <2>2. d + 1 \in Nat /\ (d + 1) * PageG \in Nat /\ p * PageG \in Nat
    BY <1>0, <1>2
  <2>3. ~(g >= p * PageG)
    BY <1>1, <2>1, <2>2
  <2> QED BY <1>2, <1>3, <2>3 DEF d
<1>4. CASE d >= p + k
  <2>1. (p + k) * PageG <= d * PageG
    BY <1>0, <1>2, <1>4, Scaled
  <2>2. (p + k) * PageG \in Nat /\ d * PageG \in Nat
    BY <1>0, <1>2
  <2>3. ~(g < (p + k) * PageG)
    BY <1>1, <2>1, <2>2
  <2> QED BY <1>2, <1>4, <2>3 DEF d
<1>5. CASE p <= d /\ d < p + k
  <2>1. p * PageG <= d * PageG /\ (d + 1) * PageG <= (p + k) * PageG
    BY <1>0, <1>2, <1>5, Scaled
  <2>2. p * PageG \in Nat /\ d * PageG \in Nat /\ (d + 1) * PageG \in Nat
        /\ (p + k) * PageG \in Nat
    BY <1>0, <1>2
  <2>3. g >= p * PageG /\ g < (p + k) * PageG
    BY <1>1, <2>1, <2>2
  <2> QED BY <1>2, <1>5, <2>3 DEF d
<1> QED BY <1>2, <1>3, <1>4, <1>5

\* Memory ends with a page.
LEMMA PagesOfMemory ==
  /\ Pages \in Nat /\ PageG \in Nat /\ Pages * PageG \in Nat
  /\ \A g \in HugeGranules : g \in Nat /\ HugePage(g) \in 0 .. Pages - 1
  /\ \A g \in Nat : HugePage(g) \in 0 .. Pages - 1 => g \in HugeGranules
<1>1. Pages \in Nat /\ PageG \in Nat /\ Pages * PageG \in Nat /\ 0 * PageG = 0
  BY HugeAssumption
<1>2. ASSUME NEW g \in Nat
      PROVE  g < Pages * PageG <=> HugePage(g) \in 0 .. Pages - 1
  <2>1. g >= 0 * PageG /\ g < (0 + Pages) * PageG <=> HugePage(g) \in 0 .. 0 + Pages - 1
    BY <1>1, PageSpan
  <2> QED BY <1>1, <2>1
<1> QED BY <1>1, <1>2 DEF HugeGranules

LEMMA BlockPagesBound ==
  ASSUME NEW n \in Nat
  PROVE  BlockPages(n) \in Nat \ {0} /\ n <= BlockPages(n) * PageG
<1>1. PageG \in Nat \ {0}
  BY HugeAssumption
<1>2. CASE n = 0
  BY <1>1, <1>2 DEF BlockPages
<1>3. CASE n # 0
  <2>1. HugePage(n - 1) \in Nat /\ n - 1 < (HugePage(n - 1) + 1) * PageG
    BY <1>3, PageOf
  <2>2. BlockPages(n) = HugePage(n - 1) + 1
    BY <1>1, <1>3 DEF BlockPages, HugePage
  <2> QED BY <1>1, <2>1, <2>2
<1> QED BY <1>2, <1>3

LEMMA AlignedBound ==
  ASSUME NEW p \in Nat, NEW a \in Nat \ {0}
  PROVE  AlignedPage(p, a) \in Nat /\ p <= AlignedPage(p, a) /\ AlignedPage(p, a) <= p + a - 1
  BY DEF AlignedPage

-----------------------------------------------------------------------------
(* The block a thread publishes is the memory it mapped.                   *)
(***************************************************************************)
LEMMA MapSpan ==
  ASSUME NEW m \in [page : Nat, size : Nat, align : Nat \ {0}]
  PROVE  \E k \in Nat : /\ k >= BlockPages(m.size) + 1
                        /\ AlignedPage(m.page, m.align) + BlockPages(m.size) + 1
                             <= m.page + k
                        /\ MapPages(m.page, m.size, m.align) = m.page .. m.page + k - 1
                        /\ Cardinality(MapPages(m.page, m.size, m.align)) = k
<1> DEFINE p == m.page
           n == BlockPages(m.size)
           a == m.align
           k == n + 1 + (IF a > 1 THEN a ELSE 0)
<1>1. p \in Nat /\ n \in Nat \ {0} /\ a \in Nat \ {0}
  BY BlockPagesBound
<1>2. AlignedPage(p, a) \in Nat /\ AlignedPage(p, a) <= p + a - 1
  BY <1>1, AlignedBound
<1>3. MapPages(p, m.size, a) = p .. p + n + (IF a > 1 THEN a ELSE 0)
  BY DEF MapPages
<1> HIDE DEF p, n, a
<1>4. k \in Nat /\ p + n + (IF a > 1 THEN a ELSE 0) = p + k - 1 /\ p + k - 1 \in Int
  BY <1>1
<1>5. Cardinality(p .. p + k - 1) = k
  <2> DEFINE c == p + k - 1
  <2>1. c \in Int /\ c - p + 1 = k /\ ~(p > c)
    BY <1>1
  <2> HIDE DEF c
  <2>2. Cardinality(p .. c) = IF p > c THEN 0 ELSE c - p + 1
    BY <1>1, <2>1, FS_Interval
  <2>3. Cardinality(p .. c) = k
    BY <2>1, <2>2, Zenon
  <2> QED BY <2>3 DEF c
<1>6. AlignedPage(p, a) + n + 1 <= p + k /\ k >= n + 1
  BY <1>1, <1>2
<1> HIDE DEF k
<1>7. MapPages(p, m.size, a) = p .. p + k - 1
  BY <1>3, <1>4
<1> QED BY <1>4, <1>5, <1>6, <1>7 DEF p, n, a

LEMMA NewBlockOK ==
  ASSUME NEW t \in Callers, MapOK(mapping[t]), mapping[t] # NoMap
  PROVE  /\ BlockOK(NewBlock(t)) /\ ~NewBlock(t).dead
         /\ \A g \in Nat : g \in BlockGranules(NewBlock(t)) <=> HugePage(g) \in MappedPages(t)
         /\ MappedPages(t) \subseteq 0 .. Pages - 1
<1> DEFINE m == mapping[t]
           p == m.page
           b == NewBlock(t)
           n == BlockPages(m.size)
           q == AlignedPage(m.page, m.align)
<1>1. m \in [page : Nat, size : Nat, align : Nat \ {0}]
      /\ MappedPages(t) \subseteq 0 .. Pages - 1
  BY DEF MapOK, MappedPages
<1>2. PICK k \in Nat : /\ k >= n + 1 /\ q + n + 1 <= p + k
                       /\ MappedPages(t) = p .. p + k - 1
                       /\ Cardinality(MappedPages(t)) = k
  BY <1>1, MapSpan DEF MappedPages
<1>3. b = [map |-> p * PageG, mapBytes |-> k * PageG, base |-> q * PageG,
           size |-> m.size, dead |-> FALSE, marked |-> FALSE]
  BY <1>2 DEF NewBlock
<1>4. p \in Nat /\ m.size \in Nat /\ m.align \in Nat \ {0}
  BY <1>1
<1>5. q \in Nat /\ p <= q
  BY <1>4, AlignedBound
<1>6. n \in Nat \ {0} /\ m.size <= n * PageG
  BY <1>4, BlockPagesBound
<1>7. PageG \in Nat \ {0}
  BY HugeAssumption
<1>8. b.map = p * PageG /\ b.mapBytes = k * PageG /\ b.base = q * PageG
      /\ b.size = m.size /\ b.dead = FALSE /\ b.marked = FALSE
  BY <1>3
<1> HIDE DEF b, m, p, n, q
<1>9. p * PageG \in Nat /\ k * PageG \in Nat /\ q * PageG \in Nat /\ n * PageG \in Nat
  BY <1>2, <1>4, <1>5, <1>6, <1>7
<1>10. b \in Blocks
  BY <1>3, <1>4, <1>9 DEF Blocks
<1>11. p * PageG <= q * PageG
  BY <1>4, <1>5, <1>7, Scaled
<1>12. q * PageG + n * PageG < p * PageG + k * PageG
  <2>1. (q + n + 1) * PageG <= (p + k) * PageG
    BY <1>2, <1>4, <1>5, <1>6, <1>7, Scaled
  <2>2. (q + n + 1) * PageG = q * PageG + n * PageG + PageG
    BY <1>5, <1>6, <1>7
  <2>3. (p + k) * PageG = p * PageG + k * PageG
    BY <1>2, <1>4, <1>7
  <2> QED BY <1>7, <1>9, <2>1, <2>2, <2>3
<1>13. p * PageG + k * PageG = (p + k) * PageG
  BY <1>2, <1>4, <1>7
<1>14. ASSUME NEW g \in Nat
       PROVE  g \in BlockGranules(b) <=> HugePage(g) \in MappedPages(t)
  <2>1. g \in BlockGranules(b) <=> g >= p * PageG /\ g < p * PageG + k * PageG
    BY <1>8, <1>9 DEF BlockGranules
  <2>2. g >= p * PageG /\ g < (p + k) * PageG <=> HugePage(g) \in p .. p + k - 1
    BY <1>2, <1>4, PageSpan
  <2> QED BY <1>2, <1>13, <2>1, <2>2
<1>15. WholePages(b.map, b.mapBytes)
  <2> SUFFICES ASSUME NEW g \in b.map .. b.map + b.mapBytes - 1
               PROVE  /\ g \in HugeGranules
                      /\ \A h \in HugeGranules : HugePage(h) = HugePage(g)
                            => h \in b.map .. b.map + b.mapBytes - 1
    BY DEF WholePages
  <2>1. g \in BlockGranules(b) /\ g \in Nat
    BY <1>8, <1>9 DEF BlockGranules
  <2>2. HugePage(g) \in MappedPages(t)
    BY <1>14, <2>1
  <2>3. g \in HugeGranules
    BY <1>1, <2>1, <2>2, PagesOfMemory
  <2>4. ASSUME NEW h \in HugeGranules, HugePage(h) = HugePage(g)
        PROVE  h \in BlockGranules(b)
    BY <1>14, <2>2, <2>4, PagesOfMemory
  <2> QED BY <2>3, <2>4 DEF BlockGranules
<1>16. BlockOK(b)
  BY <1>6, <1>8, <1>9, <1>10, <1>11, <1>12, <1>15 DEF BlockOK, n
<1> QED BY <1>1, <1>8, <1>14, <1>16 DEF b

-----------------------------------------------------------------------------
(* The search.                                                             *)
(***************************************************************************)
LEMMA Middle ==
  ASSUME NEW low \in Nat, NEW high \in Nat, low < high
  PROVE  /\ low + (high - low) \div 2 \in Nat
         /\ low <= low + (high - low) \div 2
         /\ low + (high - low) \div 2 < high
OBVIOUS

LEMMA IndexExact ==
  ASSUME HugeTyped, InOrder, NEW g \in Nat
  PROVE  /\ HugeIndex(g) \in 0 .. Len(hugeBlocks)
         /\ \A j \in 1 .. HugeIndex(g) : hugeBlocks[j].map <= g
         /\ \A j \in HugeIndex(g) + 1 .. Len(hugeBlocks) : hugeBlocks[j].map > g
<1> DEFINE n == Len(hugeBlocks)
           M(j) == hugeBlocks[j].map
           F(k) == Search(g)[k]
           Narrowed(s, k) == /\ s \in [low : 0..n, high : 0..n]
                             /\ s.low <= s.high /\ s.high - s.low <= n - k
                             /\ \A j \in 1 .. s.low : M(j) <= g
                             /\ \A j \in s.high + 1 .. n : M(j) > g
           S == {k \in Nat : Narrowed(F(k), k)}
<1>1. n \in Nat /\ DOMAIN hugeBlocks = 1..n /\ \A j \in 1..n : M(j) \in Nat /\ hugeBlocks[j].mapBytes \in Nat
  <2>1. hugeBlocks \in Seq(Blocks)
    BY DEF HugeTyped
  <2>2. n \in Nat /\ DOMAIN hugeBlocks = 1..n /\ \A j \in 1..n : hugeBlocks[j] \in Blocks
    BY <2>1
  <2> QED BY <2>2 DEF Blocks
<1>2. \A i \in 1..n : \A j \in 1..n : i <= j => M(i) <= M(j)
  BY <1>1 DEF InOrder
<1>3. F(0) = [low |-> 0, high |-> n] /\ \A k \in 1..n : F(k) = Halved(F(k - 1), g)
  BY <1>1, SearchSteps
<1> HIDE DEF M, F, n
<1>4. 0 \in S
  BY <1>1, <1>3
<1>5. ASSUME NEW k \in Nat, k < n, k \in S
      PROVE  k + 1 \in S
  <2> DEFINE s == F(k)
             mid == s.low + ((s.high - s.low) \div 2)
  <2>1. Narrowed(s, k)
    BY <1>5
  <2>2. F(k + 1) = Halved(s, g)
    BY <1>1, <1>3, <1>5
  <2> HIDE DEF s
  <2>3. s.low \in 0..n /\ s.high \in 0..n
    BY <2>1
  <2>4. CASE s.low >= s.high
    <3>1. Halved(s, g) = s
      BY <2>4, Zenon DEF Halved
    <3>2. Narrowed(s, k + 1)
      BY <1>1, <1>5, <2>1, <2>3, <2>4
    <3> QED BY <2>2, <3>1, <3>2
  <2>5. CASE s.low < s.high
    <3>1. mid \in Nat /\ s.low <= mid /\ mid < s.high /\ mid + 1 \in 1..n
      <4>1. s.low \in Nat /\ s.high \in Nat /\ s.high <= n
        BY <1>1, <2>3
      <4>2. mid \in Nat /\ s.low <= mid /\ mid < s.high
        BY <2>5, <4>1, Middle, Zenon
      <4> HIDE DEF mid
      <4> QED BY <1>1, <4>1, <4>2
    <3>2. Halved(s, g) = IF hugeBlocks[mid + 1].map <= g THEN [s EXCEPT !.low = mid + 1]
                         ELSE [s EXCEPT !.high = mid]
      <4>1. ~(s.low >= s.high)
        BY <2>3, <2>5
      <4> QED BY <4>1, Zenon DEF Halved
    <3>3. CASE M(mid + 1) <= g
      <4>1. Halved(s, g) = [s EXCEPT !.low = mid + 1]
        BY <3>2, <3>3, Zenon DEF M
      <4> DEFINE r == [s EXCEPT !.low = mid + 1]
      <4> HIDE DEF mid
      <4>2. r \in [low : 0..n, high : 0..n] /\ r.low = mid + 1 /\ r.high = s.high
        BY <2>1, <3>1, <1>1
      <4> HIDE DEF r
      <4>3. \A j \in 1 .. mid + 1 : M(j) <= g
        <5> TAKE j \in 1 .. mid + 1
        <5>1. M(j) <= M(mid + 1) /\ M(j) \in Nat /\ M(mid + 1) \in Nat
          BY <1>1, <1>2, <3>1
        <5> QED BY <3>3, <5>1
      <4>4. r.low <= r.high /\ r.high - r.low <= n - (k + 1)
        <5>1. s.low <= s.high /\ s.high - s.low <= n - k /\ s.low \in Int /\ s.high \in Int
          BY <1>1, <2>1, <2>3
        <5> HIDE DEF Narrowed
        <5> QED BY <1>1, <3>1, <4>2, <5>1
      <4>5. Narrowed(r, k + 1)
        BY <2>1, <4>2, <4>3, <4>4
      <4> QED BY <2>2, <4>1, <4>5 DEF r
    <3>4. CASE ~(M(mid + 1) <= g)
      <4>1. Halved(s, g) = [s EXCEPT !.high = mid]
        BY <3>2, <3>4, Zenon DEF M
      <4> DEFINE r == [s EXCEPT !.high = mid]
      <4> HIDE DEF mid
      <4>2. r \in [low : 0..n, high : 0..n] /\ r.low = s.low /\ r.high = mid
        BY <2>1, <3>1, <1>1
      <4> HIDE DEF r
      <4>3. \A j \in mid + 1 .. n : M(j) > g
        <5> TAKE j \in mid + 1 .. n
        <5>1. M(mid + 1) <= M(j) /\ M(j) \in Nat /\ M(mid + 1) \in Nat
          BY <1>1, <1>2, <3>1
        <5> QED BY <3>4, <5>1
      <4>4. r.low <= r.high /\ r.high - r.low <= n - (k + 1)
        <5>1. s.low <= s.high /\ s.high - s.low <= n - k /\ s.low \in Int /\ s.high \in Int
          BY <1>1, <2>1, <2>3
        <5> HIDE DEF Narrowed
        <5> QED BY <1>1, <3>1, <4>2, <5>1
      <4>5. Narrowed(r, k + 1)
        BY <2>1, <4>2, <4>3, <4>4
      <4> QED BY <2>2, <4>1, <4>5 DEF r
    <3> QED BY <3>3, <3>4
  <2> QED BY <2>3, <2>4, <2>5
<1> HIDE DEF S
<1>6. n \in S
  <2>1. \A k \in Nat : k < n /\ k \in S => k + 1 \in S
    BY <1>5
  <2>2. \A k \in 0..n : k \in S
    BY <1>1, <1>4, <2>1, Upward
  <2> QED BY <1>1, <2>2
<1>7. Narrowed(F(n), n)
  BY <1>6 DEF S
<1>8. F(n).low = F(n).high /\ F(n).low \in 0..n
  BY <1>1, <1>7
<1>9. HugeIndex(g) = F(n).low
  BY DEF HugeIndex, F, n
<1> QED BY <1>7, <1>8, <1>9 DEF M, n

LEMMA TableFacts ==
  ASSUME HugeTyped
  PROVE  /\ Len(hugeBlocks) \in Nat /\ DOMAIN hugeBlocks = 1 .. Len(hugeBlocks)
         /\ \A i \in DOMAIN hugeBlocks : BlockOK(hugeBlocks[i])
<1>1. hugeBlocks \in Seq(Blocks)
  BY DEF HugeTyped
<1> QED BY <1>1 DEF HugeTyped

\* Where a block's parts lie.
LEMMA BlockFacts ==
  ASSUME NEW b, BlockOK(b)
  PROVE  /\ b.map \in Nat /\ b.mapBytes \in Nat /\ b.base \in Nat /\ b.size \in Nat
         /\ b.dead \in BOOLEAN /\ b.marked \in BOOLEAN
         /\ BlockPages(b.size) * PageG \in Nat
         /\ b.map \in BlockGranules(b)
         /\ BlockGranules(b) \subseteq HugeGranules /\ BlockGranules(b) \subseteq Nat
         /\ \A g \in BlockGranules(b) : \A h \in HugeGranules :
              HugePage(h) = HugePage(g) => h \in BlockGranules(b)
         /\ b.base .. b.base + BlockPages(b.size) * PageG \subseteq BlockGranules(b)
         /\ \A g : g \in BlockGranules(b) <=> g \in Int /\ b.map <= g /\ g < b.map + b.mapBytes
<1>1. b \in Blocks /\ b.map <= b.base
      /\ b.base + BlockPages(b.size) * PageG < b.map + b.mapBytes
  BY DEF BlockOK
<1>2. b.map \in Nat /\ b.mapBytes \in Nat /\ b.base \in Nat /\ b.size \in Nat
      /\ b.dead \in BOOLEAN /\ b.marked \in BOOLEAN
  BY <1>1 DEF Blocks
<1>3. BlockPages(b.size) * PageG \in Nat
  BY <1>2, BlockPagesBound, HugeAssumption
<1> DEFINE n == BlockPages(b.size) * PageG
<1> HIDE DEF n
<1>4. n \in Nat /\ b.base + n < b.map + b.mapBytes
  BY <1>1, <1>3 DEF n
<1>5. \A g : g \in BlockGranules(b) <=> g \in Int /\ b.map <= g /\ g < b.map + b.mapBytes
  BY <1>2 DEF BlockGranules
<1>6. b.map \in BlockGranules(b) /\ b.base .. b.base + n \subseteq BlockGranules(b)
      /\ BlockGranules(b) \subseteq Nat
  BY <1>1, <1>2, <1>4, <1>5
<1>7. WholePages(b.map, b.mapBytes)
  BY DEF BlockOK
<1> QED BY <1>2, <1>3, <1>5, <1>6, <1>7 DEF WholePages, BlockGranules, n

\* No granule and no page is two blocks'.
LEMMA BlocksApart ==
  ASSUME HugeTyped, InOrder, NEW i \in DOMAIN hugeBlocks, NEW j \in DOMAIN hugeBlocks,
         NEW g \in BlockGranules(hugeBlocks[i]), NEW h \in BlockGranules(hugeBlocks[j]),
         HugePage(g) = HugePage(h)
  PROVE  i = j
<1>1. BlockOK(hugeBlocks[i]) /\ BlockOK(hugeBlocks[j]) /\ i \in Nat /\ j \in Nat
  BY TableFacts
<1>2. h \in HugeGranules /\ h \in BlockGranules(hugeBlocks[i])
  BY <1>1, BlockFacts
<1> DEFINE b == hugeBlocks[i]
           c == hugeBlocks[j]
<1>3. b.map <= h /\ h < b.map + b.mapBytes /\ c.map <= h /\ h < c.map + c.mapBytes
      /\ h \in Int /\ b.map \in Nat /\ b.mapBytes \in Nat /\ c.map \in Nat /\ c.mapBytes \in Nat
  BY <1>1, <1>2, BlockFacts
<1>4. (i < j => b.map + b.mapBytes <= c.map) /\ (j < i => c.map + c.mapBytes <= b.map)
  BY DEF InOrder
<1> HIDE DEF b, c
<1> QED BY <1>1, <1>3, <1>4

LEMMA FindExact ==
  ASSUME HugeTyped, InOrder, InBounds
  PROVE  FoundExactly
<1> SUFFICES ASSUME NEW g \in HugeGranules
             PROVE  LET holders == {i \in DOMAIN hugeBlocks : g \in BlockGranules(hugeBlocks[i])}
                    IN  IF holders = {} THEN HugeFind(g) = 0 ELSE holders = {HugeFind(g)}
  BY DEF FoundExactly
<1> DEFINE x == HugeIndex(g)
           n == Len(hugeBlocks)
<1>1. g \in Nat /\ n \in Nat /\ DOMAIN hugeBlocks = 1..n
  BY PagesOfMemory, TableFacts
<1>2. /\ x \in 0..n
      /\ \A j \in 1 .. x : hugeBlocks[j].map <= g
      /\ \A j \in x + 1 .. n : hugeBlocks[j].map > g
  BY <1>1, IndexExact
<1> HIDE DEF x
<1>3. HugeFind(g) = IF MaybeHuge(g) /\ x > 0 /\ g < hugeBlocks[x].map + hugeBlocks[x].mapBytes
                    THEN x ELSE 0
  BY Zenon DEF HugeFind, x
<1>4. ASSUME NEW j \in 1..n, g \in BlockGranules(hugeBlocks[j])
      PROVE  HugeFind(g) = j
  <2>0. BlockOK(hugeBlocks[j])
    BY <1>1, TableFacts
  <2>1. hugeBlocks[j].map <= g /\ g < hugeBlocks[j].map + hugeBlocks[j].mapBytes
        /\ hugeBlocks[j].map \in Nat /\ hugeBlocks[j].mapBytes \in Nat
    BY <1>4, <2>0, BlockFacts
  <2>2. j <= x
    BY <1>1, <1>2, <2>1
  <2>3. x \in 1..n
    BY <1>1, <1>2, <2>2
  <2>4. BlockOK(hugeBlocks[x])
    BY <1>1, <2>3, TableFacts
  <2>5. hugeBlocks[x].map \in Nat /\ hugeBlocks[x].map <= g
    BY <1>2, <2>3, <2>4, BlockFacts
  <2>6. j < x => hugeBlocks[j].map + hugeBlocks[j].mapBytes <= hugeBlocks[x].map
    BY <1>1, <2>3 DEF InOrder
  <2>7. x = j
    BY <1>1, <2>1, <2>2, <2>3, <2>5, <2>6
  <2>8. hugeLow <= hugeBlocks[j].map /\ hugeBlocks[j].map + hugeBlocks[j].mapBytes <= hugeHigh
        /\ hugeLow \in Nat /\ hugeHigh \in Nat
    BY <1>1 DEF InBounds, HugeTyped
  <2>9. MaybeHuge(g)
    BY <1>1, <2>1, <2>8 DEF MaybeHuge
  <2>10. x > 0
    BY <2>3
  <2> QED BY <1>3, <2>1, <2>7, <2>9, <2>10
<1>5. ASSUME HugeFind(g) # 0
      PROVE  HugeFind(g) \in 1..n /\ g \in BlockGranules(hugeBlocks[HugeFind(g)])
  <2>1. HugeFind(g) = x /\ x > 0 /\ g < hugeBlocks[x].map + hugeBlocks[x].mapBytes
    BY <1>3, <1>5, Zenon
  <2>2. x \in 1..n /\ hugeBlocks[x].map <= g
    BY <1>2, <2>1
  <2>3. BlockOK(hugeBlocks[x])
    BY <1>1, <2>2, TableFacts
  <2>4. g \in BlockGranules(hugeBlocks[x])
    BY <1>1, <2>1, <2>2, <2>3, BlockFacts
  <2> QED BY <2>1, <2>2, <2>4
<1> HIDE DEF n
<1> QED BY <1>1, <1>4, <1>5

-----------------------------------------------------------------------------
(* The shadow.                                                             *)
(***************************************************************************)
ShadowOK(b, s) ==
    IF ~b.dead
    THEN /\ \A g \in b.base .. b.base + b.size - 1 : s[g] = "clear"
         /\ \A g \in (b.base + b.size) .. (b.base + BlockPages(b.size) * PageG - 1) :
               s[g] = "tail"
    ELSE b.size > 0 => s[b.base] = "freed" /\ s[b.base + b.size - 1] = "freed"

LEMMA ShadowByBlock ==
  BlockShadowExact <=> \A i \in DOMAIN hugeBlocks : ShadowOK(hugeBlocks[i], pagePoison)
  BY DEF BlockShadowExact, ShadowOK

\* A block's shadow depends on its own granules only.
LEMMA ShadowLocal ==
  ASSUME NEW b, BlockOK(b), NEW s, NEW r, ShadowOK(b, s),
         \A g \in BlockGranules(b) : r[g] = s[g]
  PROVE  ShadowOK(b, r)
<1> DEFINE n == BlockPages(b.size) * PageG
<1>1. b.base \in Nat /\ b.size \in Nat /\ b.dead \in BOOLEAN /\ n \in Nat
      /\ b.base .. b.base + n \subseteq BlockGranules(b)
  BY BlockFacts
<1>2. b.size <= n
  BY DEF BlockOK
<1>3. IF ~b.dead
      THEN /\ \A g \in b.base .. b.base + b.size - 1 : s[g] = "clear"
           /\ \A g \in (b.base + b.size) .. (b.base + n - 1) : s[g] = "tail"
      ELSE b.size > 0 => s[b.base] = "freed" /\ s[b.base + b.size - 1] = "freed"
  BY DEF ShadowOK
<1> HIDE DEF n
<1>4. \A g \in b.base .. b.base + n : r[g] = s[g]
  BY <1>1
<1>5. CASE ~b.dead
  <2>1. \A g \in b.base .. b.base + b.size - 1 : r[g] = "clear"
    BY <1>1, <1>2, <1>3, <1>4, <1>5
  <2>2. \A g \in (b.base + b.size) .. (b.base + n - 1) : r[g] = "tail"
    BY <1>1, <1>2, <1>3, <1>4, <1>5
  <2> QED BY <1>5, <2>1, <2>2 DEF ShadowOK, n
<1>6. CASE b.dead
  <2>1. b.size > 0 => b.base \in b.base .. b.base + n /\ b.base + b.size - 1 \in b.base .. b.base + n
    BY <1>1, <1>2
  <2>2. b.size > 0 => r[b.base] = "freed" /\ r[b.base + b.size - 1] = "freed"
    BY <1>1, <1>3, <1>4, <1>6, <2>1
  <2> QED BY <1>6, <2>2 DEF ShadowOK
<1> QED BY <1>5, <1>6

LEMMA PaintedAt ==
  ASSUME NEW s \in [HugeGranules -> {"clear", "tail", "freed"}], NEW low \in Int, NEW n \in Int,
         NEW v \in {"clear", "tail", "freed"}
  PROVE  /\ Painted(s, low, n, v) \in [HugeGranules -> {"clear", "tail", "freed"}]
         /\ \A g \in HugeGranules :
              Painted(s, low, n, v)[g] = IF g >= low /\ g < low + n THEN v ELSE s[g]
  BY DEF Painted

LEMMA LiveShadow ==
  ASSUME NEW b, BlockOK(b), ~b.dead, NEW s \in [HugeGranules -> {"clear", "tail", "freed"}]
  PROVE  /\ LiveBlock(s, b.base, b.size) \in [HugeGranules -> {"clear", "tail", "freed"}]
         /\ ShadowOK(b, LiveBlock(s, b.base, b.size))
         /\ \A g \in HugeGranules \ BlockGranules(b) : LiveBlock(s, b.base, b.size)[g] = s[g]
<1> DEFINE n == BlockPages(b.size) * PageG
           s1 == Painted(s, b.base, b.size, "clear")
           s2 == Painted(s1, b.base + b.size, n - b.size, "tail")
<1>1. b.base \in Nat /\ b.size \in Nat /\ n \in Nat
      /\ b.base .. b.base + n \subseteq BlockGranules(b)
      /\ BlockGranules(b) \subseteq HugeGranules
  BY BlockFacts
<1>2. b.size <= n
  BY DEF BlockOK
<1>3. LiveBlock(s, b.base, b.size) = s2
  BY DEF LiveBlock
<1> HIDE DEF n
<1>4. /\ s1 \in [HugeGranules -> {"clear", "tail", "freed"}]
      /\ \A g \in HugeGranules : s1[g] = IF g >= b.base /\ g < b.base + b.size THEN "clear" ELSE s[g]
  BY <1>1, PaintedAt
<1> HIDE DEF s1
<1>5. /\ s2 \in [HugeGranules -> {"clear", "tail", "freed"}]
      /\ \A g \in HugeGranules : s2[g] = IF g >= b.base + b.size
                                            /\ g < (b.base + b.size) + (n - b.size)
                                         THEN "tail" ELSE s1[g]
  BY <1>1, <1>4, PaintedAt
<1> HIDE DEF s2
<1>6. HugeGranules \subseteq Nat
  BY PagesOfMemory
<1>7. (b.base + b.size) + (n - b.size) = b.base + n
  BY <1>1
<1>8. ASSUME NEW g \in b.base .. b.base + b.size - 1
      PROVE  s2[g] = "clear"
  <2>1. g \in HugeGranules
    BY <1>1, <1>2
  <2>2. ~(g >= b.base + b.size) /\ g >= b.base /\ g < b.base + b.size
    BY <1>1
  <2> QED BY <1>4, <1>5, <2>1, <2>2
<1>9. ASSUME NEW g \in (b.base + b.size) .. (b.base + n - 1)
      PROVE  s2[g] = "tail"
  <2>1. g \in HugeGranules
    BY <1>1, <1>2
  <2>2. g >= b.base + b.size /\ g < b.base + n
    BY <1>1
  <2> QED BY <1>5, <1>7, <2>1, <2>2
<1>10. ASSUME NEW g \in HugeGranules \ BlockGranules(b)
       PROVE  s2[g] = s[g]
  <2>1. g \notin b.base .. b.base + n /\ g \in Nat
    BY <1>1, <1>6
  <2>2. ~(g >= b.base + b.size /\ g < b.base + n) /\ ~(g >= b.base /\ g < b.base + b.size)
    BY <1>1, <1>2, <2>1
  <2> QED BY <1>4, <1>5, <1>7, <2>2
<1> QED BY <1>3, <1>5, <1>8, <1>9, <1>10 DEF ShadowOK, n

LEMMA DeadShadow ==
  ASSUME NEW b, BlockOK(b), NEW s \in [HugeGranules -> {"clear", "tail", "freed"}]
  PROVE  /\ DeadBlock(s, b.base, b.size) \in [HugeGranules -> {"clear", "tail", "freed"}]
         /\ b.size > 0 => /\ DeadBlock(s, b.base, b.size)[b.base] = "freed"
                          /\ DeadBlock(s, b.base, b.size)[b.base + b.size - 1] = "freed"
         /\ \A g \in HugeGranules \ BlockGranules(b) : DeadBlock(s, b.base, b.size)[g] = s[g]
<1> DEFINE Shadows == [HugeGranules -> {"clear", "tail", "freed"}]
           s1 == Painted(s, b.base, EndLimit, "freed")
           s2 == Painted(s1, b.base + EndLimit, b.size - 2 * EndLimit, "clear")
           s3 == Painted(s2, b.base + b.size - EndLimit, EndLimit, "freed")
           s4 == Painted(s, b.base, b.size, "freed")
<1>1. b.base \in Nat /\ b.size \in Nat
      /\ b.base .. b.base + b.size \subseteq BlockGranules(b)
      /\ BlockGranules(b) \subseteq HugeGranules
  <2>1. b.base \in Nat /\ b.size \in Nat /\ BlockPages(b.size) * PageG \in Nat
        /\ b.base .. b.base + BlockPages(b.size) * PageG \subseteq BlockGranules(b)
        /\ BlockGranules(b) \subseteq HugeGranules
    BY BlockFacts
  <2>2. b.size <= BlockPages(b.size) * PageG
    BY DEF BlockOK
  <2> QED BY <2>1, <2>2
<1>2. EndLimit \in Nat \ {0} /\ HugeGranules \subseteq Nat
  BY HugeAssumption, PagesOfMemory
<1>3. DeadBlock(s, b.base, b.size) = IF b.size > 2 * EndLimit THEN s3 ELSE s4
  BY Zenon DEF DeadBlock
<1>4. /\ s1 \in Shadows
      /\ \A g \in HugeGranules : s1[g] = IF g >= b.base /\ g < b.base + EndLimit THEN "freed" ELSE s[g]
  BY <1>1, <1>2, PaintedAt
<1> HIDE DEF s1
<1>5. /\ s2 \in Shadows
      /\ \A g \in HugeGranules : s2[g] = IF g >= b.base + EndLimit
                                            /\ g < b.base + EndLimit + (b.size - 2 * EndLimit)
                                         THEN "clear" ELSE s1[g]
  BY <1>1, <1>2, <1>4, PaintedAt
<1> HIDE DEF s2
<1>6. /\ s3 \in Shadows
      /\ \A g \in HugeGranules : s3[g] = IF g >= b.base + b.size - EndLimit
                                            /\ g < b.base + b.size - EndLimit + EndLimit
                                         THEN "freed" ELSE s2[g]
  BY <1>1, <1>2, <1>5, PaintedAt
<1> HIDE DEF s3
<1>7. /\ s4 \in Shadows
      /\ \A g \in HugeGranules : s4[g] = IF g >= b.base /\ g < b.base + b.size THEN "freed" ELSE s[g]
  BY <1>1, PaintedAt
<1> HIDE DEF s4
<1>8. ASSUME NEW g \in HugeGranules \ BlockGranules(b)
      PROVE  s4[g] = s[g] /\ (b.size > 2 * EndLimit => s3[g] = s[g])
  <2>1. g \notin b.base .. b.base + b.size /\ g \in Nat
    BY <1>1, <1>2
  <2>2. ~(g >= b.base /\ g < b.base + b.size)
    BY <1>1, <2>1
  <2>3. b.size > 2 * EndLimit =>
           /\ ~(g >= b.base + b.size - EndLimit /\ g < b.base + b.size - EndLimit + EndLimit)
           /\ ~(g >= b.base + EndLimit /\ g < b.base + EndLimit + (b.size - 2 * EndLimit))
           /\ ~(g >= b.base /\ g < b.base + EndLimit)
    BY <1>1, <1>2, <2>2, <2>1
  <2> QED BY <1>4, <1>5, <1>6, <1>7, <2>2, <2>3
<1>9. ASSUME b.size > 0
      PROVE  /\ s4[b.base] = "freed" /\ s4[b.base + b.size - 1] = "freed"
             /\ b.size > 2 * EndLimit => s3[b.base] = "freed" /\ s3[b.base + b.size - 1] = "freed"
  <2> DEFINE l == b.base + b.size - 1
  <2>1. b.base \in HugeGranules /\ l \in HugeGranules
    BY <1>1, <1>9
  <2>2. l >= b.base /\ l < b.base + b.size /\ b.base < b.base + b.size
    BY <1>1, <1>9
  <2>3. b.size > 2 * EndLimit =>
           /\ ~(b.base >= b.base + b.size - EndLimit) /\ ~(b.base >= b.base + EndLimit)
           /\ b.base < b.base + EndLimit
           /\ l >= b.base + b.size - EndLimit /\ l < b.base + b.size - EndLimit + EndLimit
    BY <1>1, <1>2
  <2>4. b.base >= b.base
    BY <1>1
  <2> HIDE DEF l
  <2>5. s4[b.base] = "freed" /\ s4[l] = "freed"
    BY <1>7, <2>1, <2>2, <2>4
  <2>6. b.size > 2 * EndLimit => s3[b.base] = "freed" /\ s3[l] = "freed"
    BY <1>4, <1>5, <1>6, <2>1, <2>3, <2>4
  <2> QED BY <2>5, <2>6 DEF l
<1>10. CASE b.size > 2 * EndLimit
  <2>1. DeadBlock(s, b.base, b.size) = s3
    BY <1>3, <1>10, Zenon
  <2> QED BY <1>6, <1>8, <1>9, <1>10, <2>1
<1>11. CASE ~(b.size > 2 * EndLimit)
  <2>1. DeadBlock(s, b.base, b.size) = s4
    BY <1>3, <1>11, Zenon
  <2> QED BY <1>7, <1>8, <1>9, <2>1
<1> QED BY <1>10, <1>11

-----------------------------------------------------------------------------
(* Each step keeps the invariant.                                          *)
(***************************************************************************)
LEMMA BlocksOwned ==
  ASSUME HugeTyped, PagesKept, NEW i \in DOMAIN hugeBlocks,
         NEW g \in BlockGranules(hugeBlocks[i])
  PROVE  g \in HugeGranules /\ HugePage(g) \in 0 .. Pages - 1 /\ pageOwner[HugePage(g)] = "huge"
<1>1. g \in HugeGranules
  BY TableFacts, BlockFacts
<1>2. HugePage(g) \in 0 .. Pages - 1
  BY <1>1, PagesOfMemory
<1> QED BY <1>1, <1>2 DEF PagesKept

LEMMA MapsOwned ==
  ASSUME HugeTyped, PagesKept, NEW t \in Callers, NEW q, Unpublished(t, q)
  PROVE  q \in 0 .. Pages - 1 /\ pageOwner[q] = "huge"
<1>1. MapOK(mapping[t]) /\ mapping[t] # NoMap /\ q \in MappedPages(t)
  BY DEF HugeTyped, Unpublished
<1>2. q \in 0 .. Pages - 1
  BY <1>1 DEF MapOK, MappedPages
<1> QED BY <1>1, <1>2 DEF PagesKept

LEMMA HugeInitially == HugeInit => HugeInv
<1> SUFFICES ASSUME HugeInit PROVE HugeInv
  OBVIOUS
<1>1. HugeTyped
  <2>1. hugeBlocks = <<>> /\ hugeBlocks \in Seq(Blocks) /\ DOMAIN hugeBlocks = {}
    BY DEF HugeInit
  <2>2. hugeLow \in Nat /\ hugeHigh \in Nat
    BY PagesOfMemory DEF HugeInit
  <2>3. DOMAIN mapping = Callers /\ \A t \in Callers : MapOK(mapping[t])
    BY DEF HugeInit, MapOK
  <2> QED BY <2>1, <2>2, <2>3 DEF HugeInit, HugeTyped
<1>2. DOMAIN hugeBlocks = {}
  BY DEF HugeInit
<1>3. InOrder /\ InBounds /\ BlockShadowExact
  BY <1>2 DEF InOrder, InBounds, BlockShadowExact
<1>4. MapsApart /\ PagesKept
  BY <1>2 DEF HugeInit, MapsApart, Unpublished, PagesKept
<1>5. ProgramMemoryAddressable
  BY PagesOfMemory DEF HugeInit, ProgramMemoryAddressable
<1> QED BY <1>1, <1>3, <1>4, <1>5 DEF HugeInv

\* What does not touch the table keeps its order and bounds.
LEMMA TableUntouched ==
  ASSUME HugeInv, UNCHANGED <<hugeBlocks, hugeCapacity, hugeLow, hugeHigh>>
  PROVE  /\ InOrder' /\ InBounds' /\ hugeBlocks' \in Seq(Blocks)
         /\ \A i \in DOMAIN hugeBlocks' : BlockOK(hugeBlocks'[i])
         /\ hugeLow' \in Nat /\ hugeHigh' \in Nat
         /\ \A i, q : OnPage(i, q)' <=> OnPage(i, q)
  BY DEF HugeInv, HugeTyped, InOrder, InBounds, OnPage, BlockGranules

LEMMA MapStep ==
  ASSUME HugeInv, NEW t \in Callers, NEW p \in 0 .. Pages - 1, NEW n \in HugeSizes,
         NEW a \in HugeAligns, HugeMap(t, p, n, a)
  PROVE  HugeInv'
<1> DEFINE Q == MapPages(p, n, a)
           m == [page |-> p, size |-> n, align |-> a]
<1>0. HugeTyped /\ InOrder /\ InBounds /\ MapsApart /\ PagesKept
      /\ BlockShadowExact /\ ProgramMemoryAddressable
  BY DEF HugeInv
<1>1. UNCHANGED <<hugeBlocks, hugeCapacity, hugeLow, hugeHigh, pagePoison>>
  BY DEF HugeMap
<1>2. /\ InOrder' /\ InBounds' /\ hugeBlocks' \in Seq(Blocks)
      /\ \A i \in DOMAIN hugeBlocks' : BlockOK(hugeBlocks'[i])
      /\ hugeLow' \in Nat /\ hugeHigh' \in Nat
      /\ \A i, q : OnPage(i, q)' <=> OnPage(i, q)
  BY <1>1, TableUntouched
<1>3. p \in Nat /\ n \in Nat /\ a \in Nat \ {0} /\ Q \subseteq 0 .. Pages - 1
  BY HugeAssumption DEF HugeMap
<1>4. m # NoMap /\ MapOK(m) /\ m.page = p /\ m.size = n /\ m.align = a
  <2>1. m.page # NoMap.page
    BY <1>3 DEF NoMap
  <2> QED BY <1>3, <2>1 DEF MapOK
<1>5. mapping[t] = NoMap /\ mapping' = [mapping EXCEPT ![t] = m] /\ DOMAIN mapping = Callers
  BY <1>0 DEF HugeMap, HugeTyped
<1> HIDE DEF m
<1>6. DOMAIN mapping' = Callers /\ mapping'[t] = m /\ \A u \in Callers \ {t} : mapping'[u] = mapping[u]
  BY <1>5
<1>7. \A q : Unpublished(t, q)' <=> q \in Q
  BY <1>4, <1>6 DEF Unpublished, MappedPages
<1>8. \A q : ~Unpublished(t, q)
  BY <1>5 DEF Unpublished
<1>9. \A u \in Callers \ {t} : \A q : Unpublished(u, q)' <=> Unpublished(u, q)
  BY <1>6 DEF Unpublished, MappedPages
<1>10. \A q \in Q : pageOwner[q] = "none"
  BY DEF HugeMap
<1>11. /\ pageOwner' \in [0 .. Pages - 1 -> {"none", "huge", "program", "other"}]
       /\ \A q \in 0 .. Pages - 1 : pageOwner'[q] = IF q \in Q THEN "huge" ELSE pageOwner[q]
  BY <1>0 DEF HugeMap, HugeTyped
<1> HIDE DEF Q
<1>12. HugeTyped'
  BY <1>0, <1>1, <1>2, <1>4, <1>6, <1>11 DEF HugeTyped
<1>13. \A i \in DOMAIN hugeBlocks : \A q : OnPage(i, q) => q \notin Q
  BY <1>0, <1>10, BlocksOwned DEF OnPage
<1>14. \A u \in Callers : \A q : Unpublished(u, q) => q \notin Q
  BY <1>0, <1>10, MapsOwned
<1>15. MapsApart'
  <2> SUFFICES ASSUME NEW u \in Callers, NEW q \in 0 .. Pages - 1, Unpublished(u, q)'
               PROVE  /\ \A i \in DOMAIN hugeBlocks : ~OnPage(i, q)
                      /\ \A v \in Callers : Unpublished(v, q)' => v = u
    BY <1>1, <1>2 DEF MapsApart
  <2>1. CASE u = t
    BY <1>7, <1>9, <1>13, <1>14, <2>1
  <2>2. CASE u # t
    <3>1. Unpublished(u, q) /\ q \notin Q
      BY <1>9, <1>14, <2>2
    <3> QED BY <1>0, <1>7, <1>9, <3>1 DEF MapsApart
  <2> QED BY <2>1, <2>2
<1>16. PagesKept'
  <2> SUFFICES ASSUME NEW q \in 0 .. Pages - 1
               PROVE  pageOwner'[q] = "huge" <=>
                        \/ \E i \in DOMAIN hugeBlocks : OnPage(i, q)
                        \/ \E u \in Callers : Unpublished(u, q)'
    BY <1>1, <1>2 DEF PagesKept, OnPage, Unpublished
  <2>1. pageOwner[q] = "huge" <=> \/ \E i \in DOMAIN hugeBlocks : OnPage(i, q)
                                  \/ \E u \in Callers : Unpublished(u, q)
    BY <1>0 DEF PagesKept, OnPage, Unpublished
  <2>2. CASE q \in Q
    BY <1>7, <1>11, <2>2
  <2>3. CASE q \notin Q
    BY <1>7, <1>8, <1>9, <1>11, <2>1, <2>3
  <2> QED BY <2>2, <2>3
<1>17. BlockShadowExact'
  BY <1>0, <1>1 DEF BlockShadowExact
<1>18. ProgramMemoryAddressable'
  BY <1>0, <1>1, <1>11, PagesOfMemory DEF ProgramMemoryAddressable
<1> QED BY <1>2, <1>12, <1>15, <1>16, <1>17, <1>18 DEF HugeInv

LEMMA GrowFailsStep ==
  ASSUME HugeInv, NEW t \in Callers, HugeGrowFails(t)
  PROVE  HugeInv'
<1> DEFINE Q == MappedPages(t)
<1>0. HugeTyped /\ InOrder /\ InBounds /\ MapsApart /\ PagesKept
      /\ BlockShadowExact /\ ProgramMemoryAddressable
  BY DEF HugeInv
<1>1. UNCHANGED <<hugeBlocks, hugeCapacity, hugeLow, hugeHigh, pagePoison>>
  BY DEF HugeGrowFails
<1>2. /\ InOrder' /\ InBounds' /\ hugeBlocks' \in Seq(Blocks)
      /\ \A i \in DOMAIN hugeBlocks' : BlockOK(hugeBlocks'[i])
      /\ hugeLow' \in Nat /\ hugeHigh' \in Nat
      /\ \A i, q : OnPage(i, q)' <=> OnPage(i, q)
  BY <1>1, TableUntouched
<1>5. mapping[t] # NoMap /\ mapping' = [mapping EXCEPT ![t] = NoMap] /\ DOMAIN mapping = Callers
  BY <1>0 DEF HugeGrowFails, HugeTyped
<1>6. DOMAIN mapping' = Callers /\ mapping'[t] = NoMap /\ \A u \in Callers \ {t} : mapping'[u] = mapping[u]
  BY <1>5
<1>7. \A q : ~Unpublished(t, q)'
  BY <1>6 DEF Unpublished
<1>8. \A q : Unpublished(t, q) <=> q \in Q
  BY <1>5 DEF Unpublished
<1>9. \A u \in Callers \ {t} : \A q : Unpublished(u, q)' <=> Unpublished(u, q)
  BY <1>6 DEF Unpublished, MappedPages
<1>11. /\ pageOwner' \in [0 .. Pages - 1 -> {"none", "huge", "program", "other"}]
       /\ \A q \in 0 .. Pages - 1 : pageOwner'[q] = IF q \in Q THEN "none" ELSE pageOwner[q]
  BY <1>0 DEF HugeGrowFails, HugeTyped
<1> HIDE DEF Q
<1>12. HugeTyped'
  BY <1>0, <1>1, <1>2, <1>6, <1>11 DEF HugeTyped, MapOK
<1>15. MapsApart'
  BY <1>0, <1>1, <1>2, <1>7, <1>9 DEF MapsApart
<1>16. PagesKept'
  <2> SUFFICES ASSUME NEW q \in 0 .. Pages - 1
               PROVE  pageOwner'[q] = "huge" <=>
                        \/ \E i \in DOMAIN hugeBlocks : OnPage(i, q)
                        \/ \E u \in Callers : Unpublished(u, q)'
    BY <1>1, <1>2 DEF PagesKept, OnPage, Unpublished
  <2>1. pageOwner[q] = "huge" <=> \/ \E i \in DOMAIN hugeBlocks : OnPage(i, q)
                                  \/ \E u \in Callers : Unpublished(u, q)
    BY <1>0 DEF PagesKept, OnPage, Unpublished
  <2>2. CASE q \in Q
    BY <1>0, <1>7, <1>8, <1>9, <1>11, <2>2 DEF MapsApart
  <2>3. CASE q \notin Q
    BY <1>7, <1>8, <1>9, <1>11, <2>1, <2>3
  <2> QED BY <2>2, <2>3
<1>17. BlockShadowExact'
  BY <1>0, <1>1 DEF BlockShadowExact
<1>18. ProgramMemoryAddressable'
  BY <1>0, <1>1, <1>11, PagesOfMemory DEF ProgramMemoryAddressable
<1> QED BY <1>2, <1>12, <1>15, <1>16, <1>17, <1>18 DEF HugeInv

\* The program's and the library's mappings: page q, which is no block's.
LEMMA PageStep ==
  ASSUME HugeInv, NEW q \in 0 .. Pages - 1, ProgramMap(q) \/ ProgramUnmap(q) \/ OtherMap(q)
  PROVE  HugeInv'
<1>0. HugeTyped /\ InOrder /\ InBounds /\ MapsApart /\ PagesKept
      /\ BlockShadowExact /\ ProgramMemoryAddressable
  BY DEF HugeInv
<1>1. UNCHANGED <<hugeBlocks, hugeCapacity, hugeLow, hugeHigh, mapping>>
  BY DEF ProgramMap, ProgramUnmap, OtherMap
<1>2. /\ InOrder' /\ InBounds' /\ hugeBlocks' \in Seq(Blocks)
      /\ \A i \in DOMAIN hugeBlocks' : BlockOK(hugeBlocks'[i])
      /\ hugeLow' \in Nat /\ hugeHigh' \in Nat
      /\ \A i, x : OnPage(i, x)' <=> OnPage(i, x)
  BY <1>1, TableUntouched
<1>3. \A u, x : Unpublished(u, x)' <=> Unpublished(u, x)
  BY <1>1 DEF Unpublished, MappedPages
<1>4. PICK who \in {"none", "program", "other"} :
         pageOwner' = [pageOwner EXCEPT ![q] = who]
  BY DEF ProgramMap, ProgramUnmap, OtherMap
<1>5. pageOwner[q] # "huge"
  BY DEF ProgramMap, ProgramUnmap, OtherMap
<1>6. /\ pageOwner' \in [0 .. Pages - 1 -> {"none", "huge", "program", "other"}]
      /\ pageOwner'[q] = who /\ \A x \in 0 .. Pages - 1 : x # q => pageOwner'[x] = pageOwner[x]
  BY <1>0, <1>4 DEF HugeTyped
<1>7. PagesKept'
  <2> SUFFICES ASSUME NEW x \in 0 .. Pages - 1
               PROVE  pageOwner'[x] = "huge" <=>
                        \/ \E i \in DOMAIN hugeBlocks : OnPage(i, x)
                        \/ \E u \in Callers : Unpublished(u, x)
    BY <1>1, <1>2, <1>3 DEF PagesKept, OnPage, Unpublished
  <2>1. pageOwner[x] = "huge" <=> \/ \E i \in DOMAIN hugeBlocks : OnPage(i, x)
                                  \/ \E u \in Callers : Unpublished(u, x)
    BY <1>0 DEF PagesKept, OnPage, Unpublished
  <2>2. pageOwner'[x] = "huge" <=> pageOwner[x] = "huge"
    BY <1>5, <1>6
  <2> QED BY <2>1, <2>2
<1>8. MapsApart'
  BY <1>0, <1>1, <1>2, <1>3 DEF MapsApart
<1>9. /\ pagePoison' \in [HugeGranules -> {"clear", "tail", "freed"}]
      /\ \A g \in HugeGranules : HugePage(g) # q => pagePoison'[g] = pagePoison[g]
      /\ pageOwner'[q] = "program" => \A g \in HugeGranules : HugePage(g) = q => pagePoison'[g] = "clear"
  <2>1. CASE ProgramMap(q) \/ ProgramUnmap(q)
    <3>1. pagePoison' = Painted(pagePoison, q * PageG, PageG, "clear")
      BY <2>1 DEF ProgramMap, ProgramUnmap
    <3>2. q \in Nat /\ PageG \in Nat /\ q * PageG \in Nat /\ (q + 1) * PageG = q * PageG + PageG
      BY HugeAssumption
    <3>3. /\ pagePoison' \in [HugeGranules -> {"clear", "tail", "freed"}]
          /\ \A g \in HugeGranules :
               pagePoison'[g] = IF g >= q * PageG /\ g < q * PageG + PageG
                                THEN "clear" ELSE pagePoison[g]
      BY <1>0, <3>1, <3>2, PaintedAt DEF HugeTyped
    <3>4. ASSUME NEW g \in HugeGranules
          PROVE  HugePage(g) = q <=> g >= q * PageG /\ g < q * PageG + PageG
      <4>1. g \in Nat /\ HugePage(g) \in Nat
        BY PagesOfMemory, PageOf
      <4>2. g >= q * PageG /\ g < (q + 1) * PageG <=> HugePage(g) \in q .. q + 1 - 1
        BY <3>2, <4>1, PageSpan
      <4> QED BY <3>2, <4>1, <4>2
    <3> QED BY <3>3, <3>4
  <2>2. CASE OtherMap(q)
    BY <1>0, <1>6, <2>2 DEF OtherMap, HugeTyped
  <2> QED BY <2>1, <2>2
<1>10. HugeTyped'
  BY <1>0, <1>1, <1>2, <1>6, <1>9 DEF HugeTyped
<1>11. ProgramMemoryAddressable'
  BY <1>0, <1>6, <1>9, PagesOfMemory DEF ProgramMemoryAddressable
<1>12. BlockShadowExact'
  <2>1. ASSUME NEW i \in DOMAIN hugeBlocks
        PROVE  ShadowOK(hugeBlocks[i], pagePoison')
    <3>1. BlockOK(hugeBlocks[i]) /\ ShadowOK(hugeBlocks[i], pagePoison)
      BY <1>0, TableFacts, ShadowByBlock
    <3>2. \A g \in BlockGranules(hugeBlocks[i]) : pagePoison'[g] = pagePoison[g]
      BY <1>0, <1>5, <1>9, BlocksOwned
    <3> QED BY <3>1, <3>2, ShadowLocal
  <2> QED BY <1>1, <2>1 DEF BlockShadowExact, ShadowOK
<1> QED BY <1>2, <1>7, <1>8, <1>10, <1>11, <1>12 DEF HugeInv

\* A step that leaves the blocks where they are.
LEMMA InPlace ==
  ASSUME HugeInv, UNCHANGED <<hugeLow, hugeHigh, pageOwner, mapping>>,
         DOMAIN hugeBlocks' = DOMAIN hugeBlocks,
         \A i \in DOMAIN hugeBlocks : /\ hugeBlocks'[i].map = hugeBlocks[i].map
                                      /\ hugeBlocks'[i].mapBytes = hugeBlocks[i].mapBytes
  PROVE  InOrder' /\ InBounds' /\ MapsApart' /\ PagesKept'
<1>0. InOrder /\ InBounds /\ MapsApart /\ PagesKept
  BY DEF HugeInv
<1>1. \A i \in DOMAIN hugeBlocks : BlockGranules(hugeBlocks'[i]) = BlockGranules(hugeBlocks[i])
  BY DEF BlockGranules
<1>2. \A i \in DOMAIN hugeBlocks : \A q : OnPage(i, q)' <=> OnPage(i, q)
  BY <1>1 DEF OnPage
<1>3. \A u, q : Unpublished(u, q)' <=> Unpublished(u, q)
  BY DEF Unpublished, MappedPages
<1>4. InOrder' /\ InBounds'
  BY <1>0 DEF InOrder, InBounds
<1>5. MapsApart'
  BY <1>0, <1>2, <1>3 DEF MapsApart
<1>6. PagesKept'
  <2> SUFFICES ASSUME NEW q \in 0 .. Pages - 1
               PROVE  pageOwner[q] = "huge" <=>
                        \/ \E i \in DOMAIN hugeBlocks : OnPage(i, q)'
                        \/ \E u \in Callers : Unpublished(u, q)'
    BY DEF PagesKept, OnPage, Unpublished
  <2>1. pageOwner[q] = "huge" <=> \/ \E i \in DOMAIN hugeBlocks : OnPage(i, q)
                                  \/ \E u \in Callers : Unpublished(u, q)
    BY <1>0 DEF PagesKept, OnPage, Unpublished
  <2> QED BY <1>2, <1>3, <2>1
<1> QED BY <1>4, <1>5, <1>6

\* Block b, released or marked, is a block.
LEMMA BlockTouched ==
  ASSUME NEW b, BlockOK(b), NEW v \in BOOLEAN
  PROVE  /\ BlockOK([b EXCEPT !.dead = v]) /\ BlockOK([b EXCEPT !.marked = v])
         /\ [b EXCEPT !.dead = v].dead = v /\ [b EXCEPT !.dead = v].marked = b.marked
         /\ [b EXCEPT !.marked = v].dead = b.dead /\ [b EXCEPT !.marked = v].marked = v
         /\ \A c \in {[b EXCEPT !.dead = v], [b EXCEPT !.marked = v]} :
              c.map = b.map /\ c.mapBytes = b.mapBytes /\ c.base = b.base /\ c.size = b.size
<1> DEFINE c == [b EXCEPT !.dead = v]
           d == [b EXCEPT !.marked = v]
<1>1. b \in Blocks
  BY DEF BlockOK
<1>2. c \in Blocks /\ c.map = b.map /\ c.mapBytes = b.mapBytes /\ c.base = b.base /\ c.size = b.size
      /\ c.dead = v /\ c.marked = b.marked
  BY <1>1 DEF Blocks
<1>3. d \in Blocks /\ d.map = b.map /\ d.mapBytes = b.mapBytes /\ d.base = b.base /\ d.size = b.size
      /\ d.dead = b.dead /\ d.marked = v
  BY <1>1 DEF Blocks
<1> HIDE DEF c, d
<1>4. BlockOK(c) /\ BlockOK(d)
  BY <1>2, <1>3 DEF BlockOK
<1> QED BY <1>2, <1>3, <1>4 DEF c, d

LEMMA FreeStep ==
  ASSUME HugeInv, NEW g \in HugeGranules, HugeFree(g)
  PROVE  HugeInv'
<1> DEFINE x == HugeIndex(g)
           b == hugeBlocks[x]
           c == [b EXCEPT !.dead = TRUE]
<1>0. HugeTyped /\ InOrder /\ InBounds /\ MapsApart /\ PagesKept
      /\ BlockShadowExact /\ ProgramMemoryAddressable
  BY DEF HugeInv
<1>1. /\ x > 0 /\ b.base = g /\ hugeBlocks' = [hugeBlocks EXCEPT ![x] = c]
      /\ pagePoison' = DeadBlock(pagePoison, g, b.size)
      /\ UNCHANGED <<hugeLow, hugeHigh, pageOwner, mapping>>
  BY DEF HugeFree
<1>2. x \in 1 .. Len(hugeBlocks) /\ Len(hugeBlocks) \in Nat
  BY <1>0, <1>1, IndexExact, TableFacts, PagesOfMemory
<1>3. x \in DOMAIN hugeBlocks /\ BlockOK(b)
  BY <1>0, <1>2, TableFacts
<1> HIDE DEF x
<1>4. BlockOK(c) /\ c.dead = TRUE /\ c.map = b.map /\ c.mapBytes = b.mapBytes /\ c.base = b.base
      /\ c.size = b.size
  BY <1>3, BlockTouched
<1> HIDE DEF c
<1>5. hugeBlocks' \in Seq(Blocks) /\ DOMAIN hugeBlocks' = DOMAIN hugeBlocks
      /\ hugeBlocks'[x] = c /\ \A i \in DOMAIN hugeBlocks : i # x => hugeBlocks'[i] = hugeBlocks[i]
  <2>1. hugeBlocks \in Seq(Blocks) /\ c \in Blocks
    BY <1>0, <1>4 DEF HugeTyped, BlockOK
  <2> QED BY <1>1, <1>3, <2>1
<1> HIDE DEF b
<1>6. \A i \in DOMAIN hugeBlocks :
         BlockOK(hugeBlocks'[i]) /\ hugeBlocks'[i].map = hugeBlocks[i].map
         /\ hugeBlocks'[i].mapBytes = hugeBlocks[i].mapBytes
  BY <1>0, <1>4, <1>5, TableFacts DEF b
<1>7. InOrder' /\ InBounds' /\ MapsApart' /\ PagesKept'
  BY <1>1, <1>5, <1>6, InPlace
<1>8. /\ pagePoison' \in [HugeGranules -> {"clear", "tail", "freed"}]
      /\ b.size > 0 => pagePoison'[b.base] = "freed" /\ pagePoison'[b.base + b.size - 1] = "freed"
      /\ \A h \in HugeGranules \ BlockGranules(b) : pagePoison'[h] = pagePoison[h]
  BY <1>0, <1>1, <1>3, DeadShadow DEF HugeTyped
<1>9. HugeTyped'
  BY <1>0, <1>1, <1>5, <1>6, <1>8 DEF HugeTyped
<1>10. BlockShadowExact'
  <2>1. ASSUME NEW i \in DOMAIN hugeBlocks
        PROVE  ShadowOK(hugeBlocks'[i], pagePoison')
    <3>1. CASE i = x
      BY <1>4, <1>5, <1>8, <3>1 DEF ShadowOK
    <3>2. CASE i # x
      <4>1. BlockOK(hugeBlocks[i]) /\ ShadowOK(hugeBlocks[i], pagePoison)
        BY <1>0, TableFacts, ShadowByBlock
      <4>2. \A h \in BlockGranules(hugeBlocks[i]) : h \in HugeGranules \ BlockGranules(b)
        BY <1>0, <1>3, <3>2, <4>1, BlocksApart, BlockFacts DEF b
      <4>3. ShadowOK(hugeBlocks[i], pagePoison')
        BY <1>8, <4>1, <4>2, ShadowLocal
      <4> QED BY <1>5, <3>2, <4>3
    <3> QED BY <3>1, <3>2
  <2> QED BY <1>5, <2>1 DEF BlockShadowExact, ShadowOK
<1>11. ProgramMemoryAddressable'
  <2>1. ASSUME NEW h \in HugeGranules, pageOwner[HugePage(h)] = "program"
        PROVE  pagePoison'[h] = pagePoison[h]
    BY <1>0, <1>3, <1>8, <2>1, BlocksOwned DEF b
  <2> QED BY <1>0, <1>1, <2>1 DEF ProgramMemoryAddressable
<1> QED BY <1>7, <1>9, <1>10, <1>11 DEF HugeInv

LEMMA MarkStep ==
  ASSUME HugeInv, NEW g \in HugeGranules, HugeMark(g)
  PROVE  HugeInv'
<1> DEFINE x == HugeFind(g)
           b == hugeBlocks[x]
           c == [b EXCEPT !.marked = TRUE]
<1>0. HugeTyped /\ InOrder /\ InBounds /\ MapsApart /\ PagesKept
      /\ BlockShadowExact /\ ProgramMemoryAddressable
  BY DEF HugeInv
<1>1. /\ x > 0 /\ hugeBlocks' = [hugeBlocks EXCEPT ![x] = c]
      /\ UNCHANGED <<hugeLow, hugeHigh, pageOwner, pagePoison, mapping>>
  BY DEF HugeMark
<1>2. x \in DOMAIN hugeBlocks
  <2>1. FoundExactly
    BY <1>0, FindExact
  <2>2. x # 0
    BY <1>1
  <2> QED BY <2>1, <2>2 DEF FoundExactly
<1>3. BlockOK(b)
  BY <1>0, <1>2, TableFacts
<1> HIDE DEF x
<1>4. BlockOK(c) /\ c.dead = b.dead /\ c.map = b.map /\ c.mapBytes = b.mapBytes /\ c.base = b.base
      /\ c.size = b.size
  BY <1>3, BlockTouched
<1> HIDE DEF c
<1>5. hugeBlocks' \in Seq(Blocks) /\ DOMAIN hugeBlocks' = DOMAIN hugeBlocks
      /\ hugeBlocks'[x] = c /\ \A i \in DOMAIN hugeBlocks : i # x => hugeBlocks'[i] = hugeBlocks[i]
  <2>1. hugeBlocks \in Seq(Blocks) /\ c \in Blocks
    BY <1>0, <1>4 DEF HugeTyped, BlockOK
  <2> QED BY <1>1, <1>2, <2>1
<1> HIDE DEF b
<1>6. \A i \in DOMAIN hugeBlocks :
         BlockOK(hugeBlocks'[i]) /\ hugeBlocks'[i].map = hugeBlocks[i].map
         /\ hugeBlocks'[i].mapBytes = hugeBlocks[i].mapBytes
  BY <1>0, <1>4, <1>5, TableFacts DEF b
<1>7. InOrder' /\ InBounds' /\ MapsApart' /\ PagesKept'
  BY <1>1, <1>5, <1>6, InPlace
<1>9. HugeTyped'
  BY <1>0, <1>1, <1>5, <1>6 DEF HugeTyped
<1>10. BlockShadowExact'
  <2>1. ASSUME NEW i \in DOMAIN hugeBlocks
        PROVE  ShadowOK(hugeBlocks'[i], pagePoison)
    <3>1. ShadowOK(hugeBlocks[i], pagePoison)
      BY <1>0, ShadowByBlock
    <3>2. CASE i = x
      BY <1>4, <1>5, <3>1, <3>2 DEF ShadowOK, b
    <3> QED BY <1>5, <3>1, <3>2
  <2> QED BY <1>1, <1>5, <2>1 DEF BlockShadowExact, ShadowOK
<1>11. ProgramMemoryAddressable'
  BY <1>0, <1>1 DEF ProgramMemoryAddressable
<1> QED BY <1>7, <1>9, <1>10, <1>11 DEF HugeInv

LEMMA PairBounds ==
  ASSUME NEW y \in Nat, NEW z \in Nat
  PROVE  /\ Min({y, z}) \in Nat /\ Min({y, z}) <= y /\ Min({y, z}) <= z
         /\ Max({y, z}) \in Nat /\ Max({y, z}) >= y /\ Max({y, z}) >= z
<1>1. \E m \in {y, z} : \A k \in {y, z} : m <= k
  OBVIOUS
<1>2. \E m \in {y, z} : \A k \in {y, z} : m >= k
  OBVIOUS
<1>3. Min({y, z}) \in {y, z} /\ \A k \in {y, z} : Min({y, z}) <= k
  BY <1>1 DEF Min
<1>4. Max({y, z}) \in {y, z} /\ \A k \in {y, z} : Max({y, z}) >= k
  BY <1>2 DEF Max
<1> QED BY <1>3, <1>4

\* Where the new block goes, and the order it leaves.
LEMMA PublishStep ==
  ASSUME HugeInv, NEW t \in Callers, HugePublish(t)
  PROVE  HugeInv'
<1> DEFINE b == NewBlock(t)
           x == HugeIndex(b.map)
           n == Len(hugeBlocks)
<1>0. HugeTyped /\ InOrder /\ InBounds /\ MapsApart /\ PagesKept
      /\ BlockShadowExact /\ ProgramMemoryAddressable
  BY DEF HugeInv
<1>1. /\ mapping[t] # NoMap /\ hugeBlocks' = InsertAt(hugeBlocks, x + 1, b)
      /\ pagePoison' = LiveBlock(pagePoison, b.base, b.size)
      /\ hugeLow' = Min({hugeLow, b.map}) /\ hugeHigh' = Max({hugeHigh, b.map + b.mapBytes})
      /\ mapping' = [mapping EXCEPT ![t] = NoMap]
      /\ UNCHANGED pageOwner
  BY DEF HugePublish
<1>2. MapOK(mapping[t]) /\ DOMAIN mapping = Callers
  BY <1>0 DEF HugeTyped
<1>3. /\ BlockOK(b) /\ ~b.dead
      /\ \A g \in Nat : g \in BlockGranules(b) <=> HugePage(g) \in MappedPages(t)
      /\ MappedPages(t) \subseteq 0 .. Pages - 1
  BY <1>1, <1>2, NewBlockOK
<1>4. b.map \in Nat /\ b.mapBytes \in Nat /\ b.map + b.mapBytes \in Nat /\ b.map \in BlockGranules(b)
  BY <1>3, BlockFacts
<1>5. /\ n \in Nat /\ DOMAIN hugeBlocks = 1..n /\ x \in 0..n
      /\ \A j \in 1 .. x : hugeBlocks[j].map <= b.map
      /\ \A j \in x + 1 .. n : hugeBlocks[j].map > b.map
  BY <1>0, <1>4, IndexExact, TableFacts
<1>6. hugeBlocks \in Seq(Blocks) /\ b \in Blocks
  BY <1>0, <1>3 DEF HugeTyped, BlockOK
<1> HIDE DEF b, x, n
<1>7. /\ hugeBlocks' \in Seq(Blocks) /\ Len(hugeBlocks') = n + 1
      /\ \A i \in 1..x : hugeBlocks'[i] = hugeBlocks[i]
      /\ hugeBlocks'[x + 1] = b
      /\ \A i \in (x + 2)..(n + 1) : hugeBlocks'[i] = hugeBlocks[i - 1]
  <2> DEFINE r == InsertAt(hugeBlocks, x + 1, b)
  <2>1. /\ r \in Seq(Blocks) /\ Len(r) = Len(hugeBlocks) + 1
        /\ \A i \in 1..x : r[i] = hugeBlocks[i]
        /\ r[x + 1] = b
        /\ \A i \in (x + 2)..(Len(hugeBlocks) + 1) : r[i] = hugeBlocks[i - 1]
    <3>1. x \in 0 .. Len(hugeBlocks)
      BY <1>5 DEF n
    <3>2. Inserted(Blocks, hugeBlocks, x, b, InsertAfter(hugeBlocks, x, b))
      BY <1>6, <3>1, InsertProperties
    <3> QED BY <3>2 DEF Inserted, InsertAfter
  <2>2. hugeBlocks' = r
    BY <1>1
  <2> HIDE DEF r
  <2> QED BY <2>1, <2>2 DEF n
<1>8. DOMAIN hugeBlocks' = 1..(n + 1)
  BY <1>7
<1>9. /\ \A i \in 1..(n + 1) : \/ i <= x /\ i \in 1..n /\ hugeBlocks'[i] = hugeBlocks[i]
                               \/ i = x + 1 /\ hugeBlocks'[i] = b
                               \/ i > x + 1 /\ i - 1 \in 1..n /\ hugeBlocks'[i] = hugeBlocks[i - 1]
      /\ \A j \in 1..n : \E i \in 1..(n + 1) : hugeBlocks'[i] = hugeBlocks[j]
  <2>1. ASSUME NEW i \in 1..(n + 1)
        PROVE  \/ i <= x /\ i \in 1..n /\ hugeBlocks'[i] = hugeBlocks[i]
               \/ i = x + 1 /\ hugeBlocks'[i] = b
               \/ i > x + 1 /\ i - 1 \in 1..n /\ hugeBlocks'[i] = hugeBlocks[i - 1]
    <3>1. i \in 1..x \/ i = x + 1 \/ i \in (x + 2)..(n + 1)
      BY <1>5
    <3> QED BY <1>5, <1>7, <3>1
  <2>2. ASSUME NEW j \in 1..n
        PROVE  \E i \in 1..(n + 1) : hugeBlocks'[i] = hugeBlocks[j]
    <3>1. CASE j <= x
      BY <1>5, <1>7, <3>1
    <3>2. CASE j > x
      <4>1. j + 1 \in (x + 2)..(n + 1) /\ j + 1 \in 1..(n + 1) /\ (j + 1) - 1 = j
        BY <1>5, <3>2
      <4>2. hugeBlocks'[j + 1] = hugeBlocks[j]
        BY <1>7, <4>1
      <4> QED BY <4>1, <4>2
    <3> QED BY <1>5, <3>1, <3>2
  <2> QED BY <2>1, <2>2
<1>10. ASSUME NEW j \in 1..n
       PROVE  /\ BlockOK(hugeBlocks[j])
              /\ \A g \in BlockGranules(hugeBlocks[j]) : g \notin BlockGranules(b)
              /\ j <= x => hugeBlocks[j].map + hugeBlocks[j].mapBytes <= b.map
              /\ j > x => b.map + b.mapBytes <= hugeBlocks[j].map
  <2>1. BlockOK(hugeBlocks[j])
    BY <1>0, <1>5, TableFacts
  <2>2. ASSUME NEW g \in BlockGranules(hugeBlocks[j]), g \in BlockGranules(b)
        PROVE  FALSE
    <3>1. g \in Nat /\ HugePage(g) \in MappedPages(t) /\ HugePage(g) \in 0 .. Pages - 1
      BY <1>3, <2>1, <2>2, BlockFacts
    <3>2. Unpublished(t, HugePage(g)) /\ OnPage(j, HugePage(g))
      BY <1>1, <3>1 DEF Unpublished, OnPage
    <3> QED BY <1>0, <1>5, <3>1, <3>2 DEF MapsApart
  <2>3. hugeBlocks[j].map \in Nat /\ hugeBlocks[j].mapBytes \in Nat
        /\ hugeBlocks[j].map \in BlockGranules(hugeBlocks[j])
    BY <2>1, BlockFacts
  <2>4. b.map \notin BlockGranules(hugeBlocks[j]) /\ hugeBlocks[j].map \notin BlockGranules(b)
    BY <1>4, <2>2, <2>3
  <2>5. ~(hugeBlocks[j].map <= b.map /\ b.map < hugeBlocks[j].map + hugeBlocks[j].mapBytes)
    BY <1>4, <2>1, <2>4, BlockFacts
  <2>6. ~(b.map <= hugeBlocks[j].map /\ hugeBlocks[j].map < b.map + b.mapBytes)
    BY <1>3, <2>3, <2>4, BlockFacts
  <2>7. j <= x => hugeBlocks[j].map <= b.map
    BY <1>5
  <2>8. j > x => hugeBlocks[j].map > b.map
    BY <1>5
  <2>9. j <= x => hugeBlocks[j].map + hugeBlocks[j].mapBytes <= b.map
    BY <1>4, <2>3, <2>5, <2>7
  <2>10. j > x => b.map + b.mapBytes <= hugeBlocks[j].map
    BY <1>4, <2>3, <2>6, <2>8
  <2> QED BY <2>1, <2>2, <2>9, <2>10
<1>11. InOrder'
  <2> SUFFICES ASSUME NEW i \in 1..(n + 1), NEW j \in 1..(n + 1), i < j
               PROVE  hugeBlocks'[i].map + hugeBlocks'[i].mapBytes <= hugeBlocks'[j].map
    BY <1>8 DEF InOrder
  <2>1. \A k \in 1..n : \A l \in 1..n :
           k < l => hugeBlocks[k].map + hugeBlocks[k].mapBytes <= hugeBlocks[l].map
    BY <1>0, <1>5 DEF InOrder
  <2>2. CASE j = x + 1
    <3>1. i \in 1..n /\ i <= x /\ hugeBlocks'[i] = hugeBlocks[i] /\ hugeBlocks'[j] = b
      BY <1>5, <1>7, <2>2
    <3> QED BY <1>10, <3>1
  <2>3. CASE i = x + 1
    <3>1. j - 1 \in 1..n /\ j - 1 > x /\ hugeBlocks'[j] = hugeBlocks[j - 1] /\ hugeBlocks'[i] = b
      BY <1>5, <1>7, <2>3
    <3> QED BY <1>10, <3>1
  <2>4. CASE i # x + 1 /\ j # x + 1
    <3>1. PICK k \in 1..n : hugeBlocks'[i] = hugeBlocks[k] /\ ((k = i /\ i <= x) \/ (k = i - 1 /\ i > x + 1))
      <4>1. \/ i <= x /\ i \in 1..n /\ hugeBlocks'[i] = hugeBlocks[i]
            \/ i > x + 1 /\ i - 1 \in 1..n /\ hugeBlocks'[i] = hugeBlocks[i - 1]
        BY <1>9, <2>4
      <4>2. CASE i <= x /\ i \in 1..n /\ hugeBlocks'[i] = hugeBlocks[i]
        BY <4>2
      <4>3. CASE i > x + 1 /\ i - 1 \in 1..n /\ hugeBlocks'[i] = hugeBlocks[i - 1]
        BY <4>3, Zenon
      <4> QED BY <4>1, <4>2, <4>3
    <3>2. PICK l \in 1..n : hugeBlocks'[j] = hugeBlocks[l] /\ ((l = j /\ j <= x) \/ (l = j - 1 /\ j > x + 1))
      <4>1. \/ j <= x /\ j \in 1..n /\ hugeBlocks'[j] = hugeBlocks[j]
            \/ j > x + 1 /\ j - 1 \in 1..n /\ hugeBlocks'[j] = hugeBlocks[j - 1]
        BY <1>9, <2>4
      <4>2. CASE j <= x /\ j \in 1..n /\ hugeBlocks'[j] = hugeBlocks[j]
        BY <4>2
      <4>3. CASE j > x + 1 /\ j - 1 \in 1..n /\ hugeBlocks'[j] = hugeBlocks[j - 1]
        BY <4>3, Zenon
      <4> QED BY <4>1, <4>2, <4>3
    <3>3. k < l
      BY <1>5, <3>1, <3>2
    <3> QED BY <2>1, <3>1, <3>2, <3>3
  <2> QED BY <2>2, <2>3, <2>4
<1>12. hugeLow' \in Nat /\ hugeHigh' \in Nat /\ hugeLow' <= hugeLow /\ hugeLow' <= b.map
       /\ hugeHigh <= hugeHigh' /\ b.map + b.mapBytes <= hugeHigh'
       /\ hugeLow \in Nat /\ hugeHigh \in Nat
  <2>1. hugeLow \in Nat /\ hugeHigh \in Nat
    BY <1>0 DEF HugeTyped
  <2>2. \A y, z \in Nat : /\ Min({y, z}) \in Nat /\ Min({y, z}) <= y /\ Min({y, z}) <= z
                          /\ Max({y, z}) \in Nat /\ Max({y, z}) >= y /\ Max({y, z}) >= z
    BY PairBounds
  <2> QED BY <1>1, <1>4, <2>1, <2>2
<1>13. InBounds'
  <2> SUFFICES ASSUME NEW i \in 1..(n + 1)
               PROVE  /\ hugeLow' <= hugeBlocks'[i].map
                      /\ hugeBlocks'[i].map + hugeBlocks'[i].mapBytes <= hugeHigh'
    BY <1>8 DEF InBounds
  <2>1. CASE i = x + 1
    BY <1>7, <1>12, <2>1
  <2>2. CASE i # x + 1
    <3>1. PICK k \in 1..n : hugeBlocks'[i] = hugeBlocks[k]
      BY <1>9, <2>2
    <3>2. hugeLow <= hugeBlocks[k].map /\ hugeBlocks[k].map + hugeBlocks[k].mapBytes <= hugeHigh
      BY <1>0, <1>5 DEF InBounds
    <3>3. hugeBlocks[k].map \in Nat /\ hugeBlocks[k].mapBytes \in Nat
      BY <1>10, BlockFacts
    <3> QED BY <1>12, <3>1, <3>2, <3>3
  <2> QED BY <2>1, <2>2
<1>14. /\ pagePoison' \in [HugeGranules -> {"clear", "tail", "freed"}]
       /\ ShadowOK(b, pagePoison')
       /\ \A g \in HugeGranules \ BlockGranules(b) : pagePoison'[g] = pagePoison[g]
  BY <1>0, <1>1, <1>3, LiveShadow DEF HugeTyped
<1>15. DOMAIN mapping' = Callers /\ mapping'[t] = NoMap /\ \A u \in Callers \ {t} : mapping'[u] = mapping[u]
  BY <1>1, <1>2
<1>16. HugeTyped'
  <2>1. \A i \in DOMAIN hugeBlocks' : BlockOK(hugeBlocks'[i])
    BY <1>3, <1>8, <1>9, <1>10
  <2>2. \A u \in Callers : MapOK(mapping'[u])
    BY <1>0, <1>15 DEF HugeTyped, MapOK
  <2> QED BY <1>0, <1>1, <1>7, <1>12, <1>14, <1>15, <2>1, <2>2 DEF HugeTyped
<1>17. \A q : ~Unpublished(t, q)'
  BY <1>15 DEF Unpublished
<1>18. \A u \in Callers \ {t} : \A q : Unpublished(u, q)' <=> Unpublished(u, q)
  BY <1>15 DEF Unpublished, MappedPages
<1>19. \A q \in 0 .. Pages - 1 :
          (\E i \in DOMAIN hugeBlocks' : OnPage(i, q)')
          <=> (\E j \in DOMAIN hugeBlocks : OnPage(j, q)) \/ Unpublished(t, q)
  <2> TAKE q \in 0 .. Pages - 1
  <2>1. ASSUME NEW i \in 1..(n + 1), OnPage(i, q)'
        PROVE  (\E j \in 1..n : OnPage(j, q)) \/ Unpublished(t, q)
    <3>1. CASE i = x + 1
      <4>1. PICK g \in BlockGranules(b) : HugePage(g) = q
        BY <1>7, <2>1, <3>1 DEF OnPage
      <4>2. g \in Nat
        BY <1>3, BlockFacts
      <4> QED BY <1>1, <1>3, <4>1, <4>2 DEF Unpublished
    <3>2. CASE i # x + 1
      <4>1. PICK k \in 1..n : hugeBlocks'[i] = hugeBlocks[k]
        BY <1>9, <3>2
      <4> QED BY <2>1, <4>1 DEF OnPage
    <3> QED BY <3>1, <3>2
  <2>2. ASSUME NEW j \in 1..n, OnPage(j, q)
        PROVE  \E i \in 1..(n + 1) : OnPage(i, q)'
    BY <1>9, <2>2 DEF OnPage
  <2>3. ASSUME Unpublished(t, q)
        PROVE  \E i \in 1..(n + 1) : OnPage(i, q)'
    <3>1. q \in MappedPages(t)
      BY <2>3 DEF Unpublished
    <3>2. q \in Nat /\ q * PageG \in Nat /\ HugePage(q * PageG) = q
      BY HugeAssumption DEF HugePage
    <3>3. q * PageG \in BlockGranules(b)
      BY <1>3, <3>1, <3>2
    <3>4. x + 1 \in 1..(n + 1) /\ q * PageG \in BlockGranules(hugeBlocks'[x + 1])
      BY <1>5, <1>7, <3>3
    <3> QED BY <3>2, <3>4 DEF OnPage
  <2> QED BY <1>5, <1>8, <2>1, <2>2, <2>3
<1>20. MapsApart'
  <2> SUFFICES ASSUME NEW u \in Callers, NEW q \in 0 .. Pages - 1, Unpublished(u, q)'
               PROVE  /\ ~\E i \in DOMAIN hugeBlocks' : OnPage(i, q)'
                      /\ \A v \in Callers : Unpublished(v, q)' => v = u
    BY DEF MapsApart
  <2>1. u # t /\ Unpublished(u, q)
    BY <1>17, <1>18
  <2>2. (\A i \in DOMAIN hugeBlocks : ~OnPage(i, q)) /\ ~Unpublished(t, q)
        /\ \A v \in Callers : Unpublished(v, q) => v = u
    BY <1>0, <2>1 DEF MapsApart
  <2>3. ~\E i \in DOMAIN hugeBlocks' : OnPage(i, q)'
    BY <1>19, <2>2
  <2> QED BY <1>17, <1>18, <2>2, <2>3
<1>21. PagesKept'
  <2> SUFFICES ASSUME NEW q \in 0 .. Pages - 1
               PROVE  pageOwner[q] = "huge" <=>
                        \/ \E i \in DOMAIN hugeBlocks' : OnPage(i, q)'
                        \/ \E u \in Callers : Unpublished(u, q)'
    BY <1>1 DEF PagesKept, OnPage, Unpublished
  <2>1. pageOwner[q] = "huge" <=> \/ \E i \in DOMAIN hugeBlocks : OnPage(i, q)
                                  \/ \E u \in Callers : Unpublished(u, q)
    BY <1>0 DEF PagesKept, OnPage, Unpublished
  <2>2. (\E u \in Callers : Unpublished(u, q)) <=> Unpublished(t, q) \/ \E u \in Callers : Unpublished(u, q)'
    BY <1>17, <1>18
  <2> QED BY <1>19, <2>1, <2>2
<1>22. BlockShadowExact'
  <2>1. ASSUME NEW j \in 1..n
        PROVE  ShadowOK(hugeBlocks[j], pagePoison')
    <3>1. ShadowOK(hugeBlocks[j], pagePoison) /\ BlockOK(hugeBlocks[j])
      BY <1>0, <1>5, <1>10, ShadowByBlock
    <3>2. \A g \in BlockGranules(hugeBlocks[j]) : g \in HugeGranules \ BlockGranules(b)
      BY <1>10, <3>1, BlockFacts
    <3> QED BY <1>14, <3>1, <3>2, ShadowLocal
  <2>2. \A i \in DOMAIN hugeBlocks' : ShadowOK(hugeBlocks'[i], pagePoison')
    BY <1>8, <1>9, <1>14, <2>1
  <2> QED BY <2>2 DEF BlockShadowExact, ShadowOK
<1>23. ProgramMemoryAddressable'
  <2>1. ASSUME NEW h \in HugeGranules, pageOwner[HugePage(h)] = "program"
        PROVE  pagePoison'[h] = pagePoison[h]
    <3>1. ASSUME h \in BlockGranules(b) PROVE FALSE
      <4>1. Unpublished(t, HugePage(h))
        BY <1>1, <1>3, <3>1, PagesOfMemory DEF Unpublished
      <4> QED BY <1>0, <2>1, <4>1, MapsOwned
    <3> QED BY <1>14, <3>1
  <2> QED BY <1>0, <1>1, <2>1 DEF ProgramMemoryAddressable
<1> QED BY <1>11, <1>13, <1>16, <1>20, <1>21, <1>22, <1>23 DEF HugeInv

\* The table the sweep leaves: the blocks that stay, in their order.
Unmarked(b) == [b EXCEPT !.marked = FALSE]

KeptOK(s, r, k) ==
    /\ s \in Seq(Blocks)
    /\ \A i \in 1 .. Len(s) : \E j \in 1 .. k :
          Stays(hugeBlocks[j], r) /\ s[i] = Unmarked(hugeBlocks[j])
    /\ \A j \in 1 .. k : Stays(hugeBlocks[j], r) =>
          \E i \in 1 .. Len(s) : s[i] = Unmarked(hugeBlocks[j])
    /\ \A i \in 1 .. Len(s) : \A h \in 1 .. Len(s) :
          i < h => s[i].map + s[i].mapBytes <= s[h].map

LEMMA KeptStep ==
  ASSUME HugeTyped, InOrder, NEW r, NEW k \in Nat, k < Len(hugeBlocks), NEW s, KeptOK(s, r, k),
         Stays(hugeBlocks[k + 1], r)
  PROVE  KeptOK(Append(s, Unmarked(hugeBlocks[k + 1])), r, k + 1)
<1> DEFINE B(j) == hugeBlocks[j]
           U(j) == Unmarked(hugeBlocks[j])
           c == U(k + 1)
           m == Len(s)
           e == Append(s, c)
<1>1. /\ Len(hugeBlocks) \in Nat /\ k + 1 \in 1 .. Len(hugeBlocks)
      /\ DOMAIN hugeBlocks = 1 .. Len(hugeBlocks)
  BY TableFacts
<1>2. ASSUME NEW j \in 1 .. Len(hugeBlocks)
      PROVE  /\ U(j) \in Blocks /\ U(j).map = B(j).map /\ U(j).mapBytes = B(j).mapBytes
             /\ B(j).map \in Nat /\ B(j).mapBytes \in Nat
  <2>1. BlockOK(B(j))
    BY <1>1, TableFacts
  <2>2. BlockOK(U(j)) /\ U(j).map = B(j).map /\ U(j).mapBytes = B(j).mapBytes
    BY <2>1, BlockTouched DEF Unmarked
  <2>3. B(j).map \in Nat /\ B(j).mapBytes \in Nat
    BY <2>1, BlockFacts
  <2> HIDE DEF U, B
  <2> QED BY <2>2, <2>3 DEF BlockOK
<1>3. /\ s \in Seq(Blocks) /\ m \in Nat
      /\ \A i \in 1 .. m : \E j \in 1 .. k : Stays(B(j), r) /\ s[i] = U(j)
      /\ \A j \in 1 .. k : Stays(B(j), r) => \E i \in 1 .. m : s[i] = U(j)
      /\ \A i \in 1 .. m : \A h \in 1 .. m : i < h => s[i].map + s[i].mapBytes <= s[h].map
  <2>1. s \in Seq(Blocks)
    BY DEF KeptOK
  <2>2. m \in Nat
    BY <2>1
  <2> QED BY <2>1, <2>2, Zenon DEF KeptOK
<1>4. \A j \in 1 .. k : B(j).map + B(j).mapBytes <= B(k + 1).map
  BY <1>1 DEF InOrder
<1>5. Stays(B(k + 1), r)
  OBVIOUS
<1>6. c \in Blocks /\ c.map = B(k + 1).map
  BY <1>1, <1>2
<1> HIDE DEF B, U
<1>7. /\ e \in Seq(Blocks) /\ Len(e) = m + 1
      /\ \A i \in 1 .. m : e[i] = s[i]
      /\ e[m + 1] = c
  BY <1>3, <1>6, AppendProperties
<1> HIDE DEF e, m, c
<1>8. ASSUME NEW i \in 1 .. m + 1
      PROVE  \E j \in 1 .. k + 1 : Stays(B(j), r) /\ e[i] = U(j)
  <2>1. CASE i = m + 1
    <3>1. e[i] = U(k + 1) /\ k + 1 \in 1 .. k + 1
      BY <1>7, <2>1 DEF c
    <3> QED BY <1>5, <3>1
  <2>2. CASE i # m + 1
    <3>1. i \in 1 .. m
      BY <1>3, <2>2
    <3>2. PICK j \in 1 .. k : Stays(B(j), r) /\ s[i] = U(j)
      BY <1>3, <3>1
    <3> QED BY <1>7, <3>1, <3>2
  <2> QED BY <2>1, <2>2
<1>9. ASSUME NEW j \in 1 .. k + 1, Stays(B(j), r)
      PROVE  \E i \in 1 .. m + 1 : e[i] = U(j)
  <2>1. CASE j = k + 1
    <3>1. e[m + 1] = U(j) /\ m + 1 \in 1 .. m + 1
      BY <1>3, <1>7, <2>1 DEF c
    <3> QED BY <3>1
  <2>2. CASE j # k + 1
    <3>1. j \in 1 .. k
      BY <2>2
    <3>2. PICK i \in 1 .. m : s[i] = U(j)
      BY <1>3, <1>9, <3>1
    <3> QED BY <1>3, <1>7, <3>2
  <2> QED BY <2>1, <2>2
<1>10. ASSUME NEW i \in 1 .. m + 1, NEW h \in 1 .. m + 1, i < h
       PROVE  e[i].map + e[i].mapBytes <= e[h].map
  <2>1. i \in 1 .. m
    BY <1>3, <1>10
  <2>2. CASE h = m + 1
    <3>1. PICK j \in 1 .. k : s[i] = U(j)
      BY <1>3, <2>1
    <3>2. j \in 1 .. Len(hugeBlocks)
      BY <1>1
    <3>3. s[i].map + s[i].mapBytes <= B(k + 1).map
      BY <1>2, <1>4, <3>1, <3>2
    <3> QED BY <1>6, <1>7, <2>1, <2>2, <3>3
  <2>3. CASE h # m + 1
    <3>1. h \in 1 .. m
      BY <1>3, <2>3
    <3> QED BY <1>3, <1>7, <1>10, <2>1, <3>1
  <2> QED BY <2>2, <2>3
<1>11. KeptOK(e, r, k + 1)
  BY <1>7, <1>8, <1>9, <1>10 DEF KeptOK, B, U
<1> QED BY <1>11 DEF e, c, U

LEMMA KeptTable ==
  ASSUME HugeTyped, InOrder, NEW r
  PROVE  KeptOK(KeptUpTo(r)[Len(hugeBlocks)], r, Len(hugeBlocks))
<1> DEFINE n == Len(hugeBlocks)
           F(k) == KeptUpTo(r)[k]
           S == {k \in Nat : KeptOK(F(k), r, k)}
<1>1. n \in Nat
  BY TableFacts
<1>2. F(0) = <<>> /\ \A i \in 1..n :
         F(i) = IF Stays(hugeBlocks[i], r) THEN Append(F(i - 1), Unmarked(hugeBlocks[i]))
                ELSE F(i - 1)
  BY <1>1, KeptSteps DEF Unmarked
<1> HIDE DEF F
<1>3. 0 \in S
  <2>1. <<>> \in Seq(Blocks) /\ Len(<<>>) = 0 /\ 1 .. 0 = {}
    OBVIOUS
  <2>2. KeptOK(<<>>, r, 0)
    BY <2>1, Zenon DEF KeptOK
  <2> QED BY <1>2, <2>2
<1>4. ASSUME NEW k \in Nat, k < n, k \in S
      PROVE  k + 1 \in S
  <2>1. KeptOK(F(k), r, k)
    BY <1>4
  <2>2. k + 1 \in 1..n /\ (k + 1) - 1 = k
    BY <1>1, <1>4
  <2>3. F(k + 1) = IF Stays(hugeBlocks[k + 1], r) THEN Append(F(k), Unmarked(hugeBlocks[k + 1]))
                   ELSE F(k)
    BY <1>2, <2>2
  <2>4. CASE Stays(hugeBlocks[k + 1], r)
    <3>1. KeptOK(Append(F(k), Unmarked(hugeBlocks[k + 1])), r, k + 1)
      BY <1>4, <2>1, <2>4, KeptStep
    <3>2. KeptOK(F(k + 1), r, k + 1)
      BY <2>3, <2>4, <3>1, Zenon
    <3> QED BY <3>2
  <2>5. CASE ~Stays(hugeBlocks[k + 1], r)
    <3>1. F(k + 1) = F(k)
      BY <2>3, <2>5
    <3>2. \A j \in 1 .. k + 1 : j = k + 1 \/ j \in 1 .. k
      OBVIOUS
    <3>3. \A j \in 1 .. k : j \in 1 .. k + 1
      OBVIOUS
    <3>4. KeptOK(F(k), r, k + 1)
      BY <2>1, <2>5, <3>2, <3>3 DEF KeptOK
    <3> QED BY <3>1, <3>4
  <2> QED BY <2>4, <2>5
<1> HIDE DEF S
<1>5. \A k \in Nat : k < n /\ k \in S => k + 1 \in S
  BY <1>4
<1>6. \A k \in 0..n : k \in S
  BY <1>1, <1>3, <1>5, Upward
<1>7. n \in S
  BY <1>1, <1>6
<1> QED BY <1>7 DEF S, F

LEMMA RecycleStep ==
  ASSUME HugeInv, NEW r \in BOOLEAN, HugeRecycle(r)
  PROVE  HugeInv'
<1> DEFINE n == Len(hugeBlocks)
           B(j) == hugeBlocks[j]
           gone == {i \in DOMAIN hugeBlocks : ~Stays(B(i), r)}
           k == Len(hugeBlocks')
<1>0. HugeTyped /\ InOrder /\ InBounds /\ MapsApart /\ PagesKept
      /\ BlockShadowExact /\ ProgramMemoryAddressable
  BY DEF HugeInv
<1>1. /\ pagePoison' = [g \in HugeGranules |-> IF \E i \in gone : g \in Cleared(B(i))
                                               THEN "clear" ELSE pagePoison[g]]
      /\ hugeBlocks' = KeptUpTo(r)[n]
      /\ pageOwner' = [q \in DOMAIN pageOwner |-> IF \E i \in gone : OnPage(i, q)
                                                  THEN "none" ELSE pageOwner[q]]
      /\ UNCHANGED <<hugeLow, hugeHigh, mapping>>
  BY DEF HugeRecycle, OnPage
<1>2. n \in Nat /\ DOMAIN hugeBlocks = 1..n /\ \A j \in 1..n : BlockOK(B(j))
  BY <1>0, TableFacts
<1>3. KeptOK(hugeBlocks', r, n)
  BY <1>0, <1>1, KeptTable
<1>4. /\ hugeBlocks' \in Seq(Blocks) /\ k \in Nat /\ DOMAIN hugeBlocks' = 1..k
      /\ \A i \in 1..k : \E j \in 1..n : Stays(B(j), r) /\ hugeBlocks'[i] = Unmarked(B(j))
      /\ \A j \in 1..n : Stays(B(j), r) => \E i \in 1..k : hugeBlocks'[i] = Unmarked(B(j))
      /\ InOrder'
  <2>1. hugeBlocks' \in Seq(Blocks)
    BY <1>3 DEF KeptOK
  <2>2. k \in Nat /\ DOMAIN hugeBlocks' = 1..k
    BY <2>1
  <2>3. InOrder'
    BY <1>3, <2>2 DEF KeptOK, InOrder
  <2> QED BY <1>3, <2>1, <2>2, <2>3 DEF KeptOK
<1>5. ASSUME NEW j \in 1..n
      PROVE  /\ BlockOK(Unmarked(B(j))) /\ Unmarked(B(j)).map = B(j).map
             /\ Unmarked(B(j)).mapBytes = B(j).mapBytes /\ Unmarked(B(j)).base = B(j).base
             /\ Unmarked(B(j)).size = B(j).size /\ Unmarked(B(j)).dead = B(j).dead
             /\ BlockGranules(Unmarked(B(j))) = BlockGranules(B(j))
  <2>1. BlockOK(B(j))
    BY <1>2
  <2> HIDE DEF B
  <2> QED BY <2>1, BlockTouched DEF Unmarked, BlockGranules
<1>6. \A i \in DOMAIN hugeBlocks' : BlockOK(hugeBlocks'[i])
  BY <1>4, <1>5
<1>7. InBounds'
  <2> SUFFICES ASSUME NEW i \in 1..k
               PROVE  /\ hugeLow <= hugeBlocks'[i].map
                      /\ hugeBlocks'[i].map + hugeBlocks'[i].mapBytes <= hugeHigh
    BY <1>1, <1>4 DEF InBounds
  <2>1. PICK j \in 1..n : hugeBlocks'[i] = Unmarked(B(j))
    BY <1>4
  <2> QED BY <1>0, <1>2, <1>5, <2>1 DEF InBounds
<1>8. /\ pagePoison' \in [HugeGranules -> {"clear", "tail", "freed"}]
      /\ \A g \in HugeGranules : pagePoison'[g] = IF \E i \in gone : g \in Cleared(B(i))
                                                  THEN "clear" ELSE pagePoison[g]
  BY <1>0, <1>1 DEF HugeTyped
<1>9. /\ pageOwner' \in [0 .. Pages - 1 -> {"none", "huge", "program", "other"}]
      /\ \A q \in 0 .. Pages - 1 : pageOwner'[q] = IF \E i \in gone : OnPage(i, q)
                                                   THEN "none" ELSE pageOwner[q]
  BY <1>0, <1>1 DEF HugeTyped
<1>10. HugeTyped'
  BY <1>0, <1>1, <1>4, <1>6, <1>8, <1>9 DEF HugeTyped
<1>11. \A u, q : Unpublished(u, q)' <=> Unpublished(u, q)
  BY <1>1 DEF Unpublished, MappedPages
<1>12. ASSUME NEW q
       PROVE  (\E i \in DOMAIN hugeBlocks' : OnPage(i, q)')
              <=> (\E j \in DOMAIN hugeBlocks : j \notin gone /\ OnPage(j, q))
  <2>1. ASSUME NEW i \in 1..k, OnPage(i, q)'
        PROVE  \E j \in 1..n : j \notin gone /\ OnPage(j, q)
    <3>1. PICK j \in 1..n : Stays(B(j), r) /\ hugeBlocks'[i] = Unmarked(B(j))
      BY <1>4
    <3>2. BlockGranules(hugeBlocks'[i]) = BlockGranules(B(j))
      BY <1>5, <3>1
    <3> QED BY <2>1, <3>1, <3>2 DEF OnPage
  <2>2. ASSUME NEW j \in 1..n, j \notin gone, OnPage(j, q)
        PROVE  \E i \in 1..k : OnPage(i, q)'
    <3>1. Stays(B(j), r)
      BY <1>2, <2>2
    <3>2. PICK i \in 1..k : hugeBlocks'[i] = Unmarked(B(j))
      BY <1>4, <3>1
    <3>3. BlockGranules(hugeBlocks'[i]) = BlockGranules(B(j))
      BY <1>5, <3>2
    <3> QED BY <2>2, <3>3 DEF OnPage
  <2> HIDE DEF gone, k, n
  <2> QED BY <1>2, <1>4, <2>1, <2>2
<1>13. MapsApart'
  <2> SUFFICES ASSUME NEW u \in Callers, NEW q \in 0 .. Pages - 1, Unpublished(u, q)'
               PROVE  /\ ~\E i \in DOMAIN hugeBlocks' : OnPage(i, q)'
                      /\ \A v \in Callers : Unpublished(v, q)' => v = u
    BY DEF MapsApart
  <2>1. (\A i \in DOMAIN hugeBlocks : ~OnPage(i, q)) /\ \A v \in Callers : Unpublished(v, q) => v = u
    BY <1>0, <1>11 DEF MapsApart
  <2> HIDE DEF gone
  <2> QED BY <1>11, <1>12, <2>1
<1>14. \A i \in DOMAIN hugeBlocks : \A j \in DOMAIN hugeBlocks : \A q :
          OnPage(i, q) /\ OnPage(j, q) => i = j
  BY <1>0, BlocksApart DEF OnPage
<1>15. PagesKept'
  <2> SUFFICES ASSUME NEW q \in 0 .. Pages - 1
               PROVE  pageOwner'[q] = "huge" <=>
                        \/ \E i \in DOMAIN hugeBlocks' : OnPage(i, q)'
                        \/ \E u \in Callers : Unpublished(u, q)'
    BY DEF PagesKept, OnPage, Unpublished
  <2>1. pageOwner[q] = "huge" <=> \/ \E i \in DOMAIN hugeBlocks : OnPage(i, q)
                                  \/ \E u \in Callers : Unpublished(u, q)
    BY <1>0 DEF PagesKept, OnPage, Unpublished
  <2>2. gone \subseteq DOMAIN hugeBlocks
    OBVIOUS
  <2> HIDE DEF gone
  <2>3. CASE \E i \in gone : OnPage(i, q)
    <3>1. PICK i \in gone : OnPage(i, q)
      BY <2>3
    <3>2. pageOwner'[q] = "none"
      BY <1>9, <2>3
    <3>3. ~\E j \in DOMAIN hugeBlocks : j \notin gone /\ OnPage(j, q)
      BY <1>14, <2>2, <3>1
    <3>4. ~\E u \in Callers : Unpublished(u, q)
      BY <1>0, <2>2, <3>1 DEF MapsApart
    <3> QED BY <1>11, <1>12, <3>2, <3>3, <3>4
  <2>4. CASE ~\E i \in gone : OnPage(i, q)
    <3>1. pageOwner'[q] = pageOwner[q]
      BY <1>9, <2>4
    <3> QED BY <1>11, <1>12, <2>1, <2>2, <2>4, <3>1
  <2> QED BY <2>3, <2>4
<1>16. \A i \in gone : Cleared(B(i)) \subseteq BlockGranules(B(i))
  <2> TAKE i \in gone
  <2>1. BlockOK(B(i))
    BY <1>2
  <2> DEFINE b == B(i)
             l == BlockPages(b.size) * PageG
  <2> HIDE DEF b
  <2>2. b.base \in Nat /\ b.size \in Nat /\ l \in Nat /\ b.base .. b.base + l \subseteq BlockGranules(b)
        /\ b.size <= l
    BY <2>1, BlockFacts DEF BlockOK, b
  <2> HIDE DEF l
  <2>3. b.base .. b.base + b.size \subseteq b.base .. b.base + l
    BY <2>2
  <2> QED BY <2>2, <2>3 DEF Cleared, b
<1>17. BlockShadowExact'
  <2>1. ASSUME NEW i \in 1..k
        PROVE  ShadowOK(hugeBlocks'[i], pagePoison')
    <3>1. PICK j \in 1..n : Stays(B(j), r) /\ hugeBlocks'[i] = Unmarked(B(j))
      BY <1>4
    <3>2. ShadowOK(B(j), pagePoison) /\ BlockOK(B(j))
      BY <1>0, <1>2, ShadowByBlock
    <3>3. ASSUME NEW g \in BlockGranules(B(j))
          PROVE  pagePoison'[g] = pagePoison[g]
      <4>1. g \in HugeGranules
        BY <3>2, BlockFacts
      <4>2. ASSUME NEW h \in gone, g \in Cleared(B(h)) PROVE FALSE
        <5>1. g \in BlockGranules(B(h)) /\ h \in DOMAIN hugeBlocks /\ h # j
          BY <1>16, <3>1, <4>2
        <5> QED BY <1>0, <1>2, <5>1, BlocksApart
      <4> HIDE DEF gone
      <4> QED BY <1>8, <4>1, <4>2
    <3>4. ShadowOK(B(j), pagePoison')
      BY <3>2, <3>3, ShadowLocal
    <3>5. ShadowOK(Unmarked(B(j)), pagePoison')
      BY <1>5, <3>4 DEF ShadowOK
    <3> QED BY <3>1, <3>5
  <2> QED BY <1>4, <2>1 DEF BlockShadowExact, ShadowOK
<1>18. ProgramMemoryAddressable'
  <2> SUFFICES ASSUME NEW g \in HugeGranules, pageOwner'[HugePage(g)] = "program"
               PROVE  pagePoison'[g] = "clear"
    BY DEF ProgramMemoryAddressable
  <2> HIDE DEF gone
  <2>1. HugePage(g) \in 0 .. Pages - 1
    BY PagesOfMemory
  <2>2. pageOwner[HugePage(g)] = "program"
    BY <1>9, <2>1
  <2> QED BY <1>0, <1>8, <2>2 DEF ProgramMemoryAddressable
<1> QED BY <1>4, <1>7, <1>10, <1>13, <1>15, <1>17, <1>18 DEF HugeInv

LEMMA HugeSteps == HugeInv /\ [HugeNext]_hugeVars => HugeInv'
<1> SUFFICES ASSUME HugeInv, [HugeNext]_hugeVars PROVE HugeInv'
  OBVIOUS
<1>1. CASE UNCHANGED hugeVars
  BY <1>1 DEF HugeInv, hugeVars, HugeTyped, InOrder, InBounds, MapsApart, PagesKept,
     BlockShadowExact, ProgramMemoryAddressable, Unpublished, MappedPages, OnPage
<1>2. ASSUME NEW t \in Callers, NEW p \in 0 .. Pages - 1, NEW n \in HugeSizes,
             NEW a \in HugeAligns, HugeMap(t, p, n, a)
      PROVE  HugeInv'
  BY <1>2, MapStep
<1>3. ASSUME NEW t \in Callers, HugeGrowFails(t) PROVE HugeInv'
  BY <1>3, GrowFailsStep
<1>4. ASSUME NEW t \in Callers, HugePublish(t) PROVE HugeInv'
  BY <1>4, PublishStep
<1>5. ASSUME NEW g \in HugeGranules, HugeFree(g) PROVE HugeInv'
  BY <1>5, FreeStep
<1>6. ASSUME NEW g \in HugeGranules, HugeMark(g) PROVE HugeInv'
  BY <1>6, MarkStep
<1>7. ASSUME NEW r \in BOOLEAN, HugeRecycle(r) PROVE HugeInv'
  BY <1>7, RecycleStep
<1>8. ASSUME NEW q \in 0 .. Pages - 1, ProgramMap(q) \/ ProgramUnmap(q) \/ OtherMap(q)
      PROVE  HugeInv'
  BY <1>8, PageStep
<1> QED BY <1>1, <1>2, <1>3, <1>4, <1>5, <1>6, <1>7, <1>8 DEF HugeNext

-----------------------------------------------------------------------------
\* Every address in a block's mapping, in use or waiting for a sweep, finds
\* that block, every other address finds none (hugeIndex, hugeFind), and the
\* blocks' pages are theirs alone: for any number of threads, pages and blocks.
THEOREM LookupExact == HugeSpec => []HugeFoundExactly
<1>1. HugeInv => HugeFoundExactly
  BY FindExact DEF HugeInv, HugeFoundExactly
<1> QED BY HugeInitially, HugeSteps, <1>1, PTL DEF HugeSpec

\* The shadow of huge blocks and of the program's own mappings agrees with who
\* has the memory, whatever was published, released, recycled and mapped since.
THEOREM HugeShadowKept == HugeSpec => []HugeShadowExact
<1>1. HugeInv => HugeShadowExact
  BY DEF HugeInv, HugeShadowExact
<1> QED BY HugeInitially, HugeSteps, <1>1, PTL DEF HugeSpec

LEMMA InsertKeeps ==
  ASSUME NEW S, NEW s \in Seq(S), NEW e \in S, NEW n \in 0..Len(s), NEW j \in 1..Len(s)
  PROVE  \E i \in DOMAIN InsertAt(s, n + 1, e) : InsertAt(s, n + 1, e)[i] = s[j]
<1> DEFINE r == InsertAt(s, n + 1, e)
<1>1. /\ r \in Seq(S) /\ Len(r) = Len(s) + 1
      /\ \A i \in 1..n : r[i] = s[i]
      /\ \A i \in (n + 2)..(Len(s) + 1) : r[i] = s[i - 1]
  <2>1. Inserted(S, s, n, e, InsertAfter(s, n, e))
    BY InsertProperties
  <2> QED BY <2>1 DEF Inserted, InsertAfter
<1> HIDE DEF r
<1>2. DOMAIN r = 1..(Len(s) + 1) /\ Len(s) \in Nat
  BY <1>1
<1>3. CASE j <= n
  BY <1>1, <1>2, <1>3 DEF r
<1>4. CASE j > n
  <2>1. j + 1 \in (n + 2)..(Len(s) + 1) /\ j + 1 \in DOMAIN r /\ (j + 1) - 1 = j
    BY <1>2, <1>4
  <2>2. r[j + 1] = s[j]
    BY <1>1, <2>1
  <2> QED BY <2>1, <2>2 DEF r
<1> QED BY <1>2, <1>3, <1>4

StayHere ==
    \A i \in DOMAIN hugeBlocks :
        ~hugeBlocks[i].dead \/ hugeBlocks[i].marked
        => \E j \in DOMAIN hugeBlocks' : hugeBlocks'[j].map = hugeBlocks[i].map

LEMMA StaySteps == HugeInv /\ [HugeNext]_hugeVars => StayHere
<1> SUFFICES ASSUME HugeInv, [HugeNext]_hugeVars,
                    NEW i \in DOMAIN hugeBlocks, ~hugeBlocks[i].dead \/ hugeBlocks[i].marked
             PROVE  \E j \in DOMAIN hugeBlocks' : hugeBlocks'[j].map = hugeBlocks[i].map
  BY DEF StayHere
<1>0. HugeTyped /\ InOrder /\ InBounds
  BY DEF HugeInv
<1>1. hugeBlocks \in Seq(Blocks) /\ DOMAIN hugeBlocks = 1 .. Len(hugeBlocks) /\ BlockOK(hugeBlocks[i])
  BY <1>0, TableFacts DEF HugeTyped
<1>2. CASE UNCHANGED hugeBlocks
  BY <1>2
<1>3. ASSUME NEW t \in Callers, HugePublish(t)
      PROVE  \E j \in DOMAIN hugeBlocks' : hugeBlocks'[j].map = hugeBlocks[i].map
  <2> DEFINE b == NewBlock(t)
             x == HugeIndex(b.map)
  <2>1. hugeBlocks' = InsertAt(hugeBlocks, x + 1, b) /\ mapping[t] # NoMap
    BY <1>3 DEF HugePublish
  <2>2. BlockOK(b)
    BY <1>0, <2>1, NewBlockOK DEF HugeTyped
  <2>3. b \in Blocks /\ b.map \in Nat
    BY <2>2, BlockFacts DEF BlockOK
  <2>4. x \in 0 .. Len(hugeBlocks)
    BY <1>0, <2>3, IndexExact
  <2> HIDE DEF b, x
  <2>5. \E j \in DOMAIN InsertAt(hugeBlocks, x + 1, b) :
           InsertAt(hugeBlocks, x + 1, b)[j] = hugeBlocks[i]
    BY <1>1, <2>3, <2>4, InsertKeeps, SMTT(60)
  <2> QED BY <2>1, <2>5
<1>4. ASSUME NEW c, NEW x \in DOMAIN hugeBlocks, hugeBlocks' = [hugeBlocks EXCEPT ![x] = c],
             c.map = hugeBlocks[x].map
      PROVE  \E j \in DOMAIN hugeBlocks' : hugeBlocks'[j].map = hugeBlocks[i].map
  <2>1. DOMAIN hugeBlocks' = DOMAIN hugeBlocks /\ hugeBlocks'[i].map = hugeBlocks[i].map
    BY <1>1, <1>4
  <2> QED BY <2>1
<1>5. ASSUME NEW g \in HugeGranules, HugeFree(g)
      PROVE  \E j \in DOMAIN hugeBlocks' : hugeBlocks'[j].map = hugeBlocks[i].map
  <2> DEFINE x == HugeIndex(g)
             c == [hugeBlocks[x] EXCEPT !.dead = TRUE]
  <2>1. x > 0 /\ hugeBlocks' = [hugeBlocks EXCEPT ![x] = c]
    BY <1>5 DEF HugeFree
  <2>2. x \in DOMAIN hugeBlocks
    BY <1>0, <1>1, <2>1, IndexExact, TableFacts, PagesOfMemory
  <2>3. c.map = hugeBlocks[x].map
    BY <1>0, <2>2, TableFacts, BlockTouched
  <2> QED BY <1>4, <2>1, <2>2, <2>3
<1>6. ASSUME NEW g \in HugeGranules, HugeMark(g)
      PROVE  \E j \in DOMAIN hugeBlocks' : hugeBlocks'[j].map = hugeBlocks[i].map
  <2> DEFINE x == HugeFind(g)
             c == [hugeBlocks[x] EXCEPT !.marked = TRUE]
  <2>1. x > 0 /\ hugeBlocks' = [hugeBlocks EXCEPT ![x] = c]
    BY <1>6 DEF HugeMark
  <2>2. x \in DOMAIN hugeBlocks
    <3>1. FoundExactly /\ x # 0
      BY <1>0, <2>1, FindExact
    <3> QED BY <3>1 DEF FoundExactly
  <2>3. c.map = hugeBlocks[x].map
    BY <1>0, <2>2, TableFacts, BlockTouched
  <2> QED BY <1>4, <2>1, <2>2, <2>3
<1>7. ASSUME NEW r \in BOOLEAN, HugeRecycle(r)
      PROVE  \E j \in DOMAIN hugeBlocks' : hugeBlocks'[j].map = hugeBlocks[i].map
  <2>1. hugeBlocks' = KeptUpTo(r)[Len(hugeBlocks)]
    BY <1>7 DEF HugeRecycle
  <2>2. KeptOK(hugeBlocks', r, Len(hugeBlocks))
    BY <1>0, <2>1, KeptTable
  <2>3. Stays(hugeBlocks[i], r)
    BY DEF Stays
  <2>4. PICK j \in 1 .. Len(hugeBlocks') : hugeBlocks'[j] = Unmarked(hugeBlocks[i])
    BY <1>1, <2>2, <2>3, Zenon DEF KeptOK
  <2>5. hugeBlocks' \in Seq(Blocks)
    BY <2>2 DEF KeptOK
  <2>6. j \in DOMAIN hugeBlocks'
    BY <2>5
  <2>7. Unmarked(hugeBlocks[i]).map = hugeBlocks[i].map
    BY <1>1, BlockTouched DEF Unmarked
  <2> QED BY <2>4, <2>6, <2>7
<1>8. CASE UNCHANGED hugeVars
  BY <1>2, <1>8 DEF hugeVars
<1>9. ASSUME NEW t \in Callers, NEW p, NEW n, NEW a, HugeMap(t, p, n, a) \/ HugeGrowFails(t)
      PROVE  UNCHANGED hugeBlocks
  BY <1>9 DEF HugeMap, HugeGrowFails
<1>10. ASSUME NEW q, ProgramMap(q) \/ ProgramUnmap(q) \/ OtherMap(q)
       PROVE  UNCHANGED hugeBlocks
  BY <1>10 DEF ProgramMap, ProgramUnmap, OtherMap
<1> QED BY <1>2, <1>3, <1>5, <1>6, <1>7, <1>8, <1>9, <1>10 DEF HugeNext

\* A block in use, or one a pointer to which was found, stays in the table and
\* at its address over every step: only a sweep that found no pointer to a
\* released block takes it out (recycle).
THEOREM BlocksStay == HugeSpec => HugeStays
<1>1. HugeInv /\ [HugeNext]_hugeVars => [StayHere]_hugeVars
  BY StaySteps
<1>2. HugeSpec => [][StayHere]_hugeVars
  BY HugeInitially, HugeSteps, <1>1, PTL DEF HugeSpec
<1> QED BY <1>2 DEF HugeStays, StayHere

-----------------------------------------------------------------------------
(***************************************************************************)
(* Library: the checked versions of library calls.                         *)
(***************************************************************************)

\* The last cell ends every string, whatever a call wrote; and what the last
\* call did is as the property says.
LibInv ==
  /\ cell \in [Row -> {Zero, Digit, Blank, Sign, Mark}] /\ cell[Cells - 1] = Zero
  /\ StoppedExactly

LEMMA LeastOf ==
  ASSUME NEW S \in SUBSET Nat, S # {}
  PROVE  Min(S) \in S /\ \A y \in S : Min(S) <= y
<1>1. OpToRel(<, Nat) = {s \in Nat \X Nat : s[1] < s[2]}
  BY DEF OpToRel
<1>2. \E x \in S : \A y \in S : ~(<<y, x>> \in OpToRel(<, Nat))
  BY NatLessThanWellFounded, WFMin, Zenon
<1>3. PICK x \in S : \A y \in S : ~(<<y, x>> \in {s \in Nat \X Nat : s[1] < s[2]})
  BY <1>1, <1>2, Zenon
<1>4. ASSUME NEW y \in S PROVE x <= y
  <2>1. /\ <<y, x>> \in Nat \X Nat /\ <<y, x>>[1] = y /\ <<y, x>>[2] = x
        /\ x \in Nat /\ y \in Nat
    OBVIOUS
  <2> QED BY <2>1, <1>3
<1> QED BY <1>4 DEF Min

LEMMA CellsFacts == Cells \in Nat /\ Cells >= 1 /\ Row = 0..(Cells - 1) /\ Element \in Nat
                    /\ Element > 0 /\ MaxLength \in Nat /\ Limit \in Nat
  BY LibraryAssumption DEF LibraryAssumption, Row

LEMMA InSpan ==
  ASSUME NEW a \in Int, NEW n \in Int, NEW x
  PROVE  x \in Span(a, n) <=> x \in Int /\ a <= x /\ x < a + n
<1>1. ASSUME x \in Int, a <= x, x < a + n PROVE x \in Span(a, n)
  <2>1. x - a \in 0..(n - 1) /\ a + (x - a) = x
    BY <1>1
  <2> QED BY <2>1 DEF Span
<1>2. ASSUME x \in Span(a, n) PROVE x \in Int /\ a <= x /\ x < a + n
  BY <1>2 DEF Span
<1> QED BY <1>1, <1>2

\* A string ends in the row.
LEMMA EndOf ==
  ASSUME LibInv, NEW s \in Row
  PROVE  End(s) \in Row /\ End(s) >= s
<1> DEFINE S == {i \in Row : i >= s /\ cell[i] = Zero}
<1>1. S \in SUBSET Nat
  BY CellsFacts
<1>2. Cells - 1 \in S
  BY CellsFacts DEF LibInv
<1>3. End(s) = Min(S)
  BY DEF End
<1> HIDE DEF S
<1>4. Min(S) \in S
  BY <1>1, <1>2, LeastOf
<1> QED BY <1>3, <1>4 DEF S

\* A call that checks exactly what it reads and writes.
LEMMA FinishExact ==
  ASSUME NEW ok \in BOOLEAN, NEW bad \in BOOLEAN, NEW scanned, NEW reads, NEW writes,
         NEW mem, Finish(ok, bad, scanned, reads, writes, mem), UNCHANGED usable,
         ok <=> scanned \cup reads \cup writes \subseteq usable
  PROVE  /\ StoppedExactly'
         /\ cell' = mem \/ cell' = cell
<1> DEFINE done == ok /\ ~bad
<1>1. /\ did'.reads = IF done THEN scanned \cup reads ELSE scanned
      /\ did'.ahead = {}
      /\ did'.writes = IF done THEN writes ELSE {}
      /\ did'.stopped = (~ok \/ bad) /\ did'.need = scanned \cup reads \cup writes
      /\ did'.broken = bad
      /\ cell' = IF done THEN mem ELSE cell
  BY DEF Finish, Nothing
<1>2. StoppedExactly'
  <2>1. CASE done
    BY <1>1, <2>1 DEF StoppedExactly, NoStrayWrite, StrayIsStopped, NoFalseStop
  <2>2. CASE ~done
    BY <1>1, <2>2 DEF StoppedExactly, NoStrayWrite, StrayIsStopped, NoFalseStop
  <2> QED BY <2>1, <2>2
<1> QED BY <1>1, <1>2

LEMMA ReadsExact ==
  ASSUME NEW ok \in BOOLEAN, NEW reads, Reads(ok, reads), UNCHANGED usable,
         ok <=> reads \subseteq usable
  PROVE  StoppedExactly' /\ cell' = cell
<1>1. /\ did'.reads = reads /\ did'.writes = {} /\ did'.stopped = ~ok
      /\ did'.need = reads /\ did'.ahead = {} /\ cell' = cell
  BY DEF Reads, Nothing
<1> QED BY <1>1 DEF StoppedExactly, NoStrayWrite, StrayIsStopped, NoFalseStop

\* The texts a call leaves keep the terminator of the row.
CellsOK(mem) == mem \in [Row -> {Zero, Digit, Blank, Sign, Mark}] /\ mem[Cells - 1] = Zero

LEMMA CopiedOK ==
  ASSUME LibInv, NEW d \in Row, NEW s \in Row, NEW n \in Nat, d + n < Cells,
         s + n <= Cells
  PROVE  CellsOK(Copied(d, s, n))
<1>1. \A i \in Row : i \in Span(d, n) => s + (i - d) \in Row /\ i # Cells - 1
  <2> SUFFICES ASSUME NEW i \in Row, i \in Span(d, n)
               PROVE  s + (i - d) \in Row /\ i # Cells - 1
    OBVIOUS
  <2>1. d \in Int /\ n \in Int
    BY CellsFacts
  <2>2. d <= i /\ i < d + n
    BY <2>1, InSpan
  <2> QED BY <2>2, CellsFacts
<1> QED BY <1>1, CellsFacts DEF CellsOK, Copied, LibInv

LEMMA FilledOK ==
  ASSUME LibInv, NEW d \in Row, NEW n \in Nat, d + n < Cells
  PROVE  CellsOK(Filled(d, n))
<1>1. Cells - 1 \notin Span(d, n)
  <2>1. d \in Int /\ n \in Int
    BY CellsFacts
  <2> QED BY <2>1, InSpan, CellsFacts
<1> QED BY <1>1, CellsFacts DEF CellsOK, Filled, LibInv

LEMMA StrcpyStep ==
  ASSUME LibInv, UNCHANGED usable, NEW d \in Row, NEW s \in Row, Strcpy(d, s)
  PROVE  StoppedExactly' /\ CellsOK(cell')
<1> DEFINE n == End(s) - s + 1
           ok == Passes(s, n) /\ Passes(d, n)
           bad == n > Limit \/ Overlap(d, s, n)
<1>1. n \in Nat /\ s + n <= Cells /\ d + n < Cells
  <2>1. d + n < Cells
    BY DEF Strcpy
  <2>2. End(s) \in Row /\ End(s) >= s
    BY EndOf
  <2> QED BY <2>1, <2>2, CellsFacts
<1>2. Finish(ok, bad, Span(s, n), Span(s, n), Span(d, n), Copied(d, s, n))
  BY DEF Strcpy
<1> HIDE DEF n
<1>3. ok <=> Span(s, n) \cup Span(s, n) \cup Span(d, n) \subseteq usable
  BY DEF Passes
<1>4. ok \in BOOLEAN /\ bad \in BOOLEAN
  OBVIOUS
<1> HIDE DEF ok, bad
<1>5. StoppedExactly' /\ (cell' = Copied(d, s, n) \/ cell' = cell)
  BY <1>2, <1>3, <1>4, FinishExact
<1> QED BY <1>1, <1>5, CopiedOK DEF CellsOK, LibInv

LEMMA StrcatStep ==
  ASSUME LibInv, UNCHANGED usable, NEW d \in Row, NEW s \in Row, Strcat(d, s)
  PROVE  StoppedExactly' /\ CellsOK(cell')
<1> DEFINE at == End(d) - d
           n == End(s) - s
           ok == Passes(d, at + 1) /\ Passes(s, n + 1) /\ Passes(d, at + n + 1)
           bad == at + n + 1 > Limit
           scan == Span(d, at + 1) \cup Span(s, n + 1)
<1>1. /\ n \in Nat /\ at \in Nat /\ n + 1 \in Nat
      /\ s + (n + 1) <= Cells /\ (d + at) + (n + 1) < Cells
      /\ d + at \in Row /\ d \in Int
  <2>1. d + at + n + 1 < Cells
    BY DEF Strcat
  <2>2. End(s) \in Row /\ End(s) >= s /\ End(d) \in Row /\ End(d) >= d
    BY EndOf
  <2>3. n \in Nat /\ at \in Nat /\ s + (n + 1) <= Cells
    BY <2>2, CellsFacts
  <2>4. d + at = End(d) /\ d \in Int
    BY <2>2, CellsFacts
  <2> HIDE DEF n, at
  <2> QED BY <2>1, <2>2, <2>3, <2>4, CellsFacts
<1>2. Finish(ok, bad, scan, {}, Span(d + at, n + 1), Copied(d + at, s, n + 1))
  BY DEF Strcat
<1> HIDE DEF n, at
<1>3. Span(d, at + 1) \cup Span(d + at, n + 1) = Span(d, at + n + 1)
  <2>1. \A x : /\ x \in Span(d, at + 1) <=> x \in Int /\ d <= x /\ x < d + (at + 1)
               /\ x \in Span(d + at, n + 1) <=> x \in Int /\ d + at <= x /\ x < (d + at) + (n + 1)
               /\ x \in Span(d, at + n + 1) <=> x \in Int /\ d <= x /\ x < d + (at + n + 1)
    <3>1. at + 1 \in Int /\ n + 1 \in Int /\ d + at \in Int /\ at + n + 1 \in Int
      BY <1>1
    <3> QED BY <1>1, <3>1, InSpan
  <2> QED BY <1>1, <2>1
<1>4. ok <=> scan \cup {} \cup Span(d + at, n + 1) \subseteq usable
  BY <1>3 DEF Passes
<1>5. ok \in BOOLEAN /\ bad \in BOOLEAN
  OBVIOUS
<1> HIDE DEF ok, bad, scan
<1>6. StoppedExactly' /\ (cell' = Copied(d + at, s, n + 1) \/ cell' = cell)
  BY <1>2, <1>4, <1>5, FinishExact
<1>7. CellsOK(Copied(d + at, s, n + 1))
  BY <1>1, CopiedOK
<1> QED BY <1>6, <1>7 DEF CellsOK, LibInv

\* A parser goes forward in the row, and stops at a cell it can read.
LEMMA AfterOf ==
  ASSUME LibInv, NEW i \in Row, NEW kind \in {Blank, Digit}
  PROVE  /\ After(i, kind) \in Row /\ After(i, kind) >= i
         /\ cell[After(i, kind)] # kind
<1> DEFINE S == {j \in Row : j >= i /\ cell[j] # kind}
<1>1. S \in SUBSET Nat
  BY CellsFacts
<1>2. Cells - 1 \in S
  BY CellsFacts DEF LibInv, Zero, Blank, Digit
<1>3. After(i, kind) = Min(S)
  BY DEF After
<1> HIDE DEF S
<1>4. Min(S) \in S
  BY <1>1, <1>2, LeastOf
<1> QED BY <1>3, <1>4 DEF S

LEMMA PastOf ==
  ASSUME LibInv, NEW i \in Row, NEW kind \in {Sign, Mark}
  PROVE  /\ Past(i, kind) \in Row
         /\ Past(i, kind) = i \/ Past(i, kind) = i + 1
         /\ cell[i] = kind => Past(i, kind) = i + 1
<1>1. cell[i] = kind => i # Cells - 1
  BY DEF LibInv, Zero, Sign, Mark
<1> QED BY <1>1, CellsFacts DEF Past

\* What parsed checks is what was read, but for what follows a mark that no
\* digit follows.
LEMMA ParseStep ==
  ASSUME LibInv, UNCHANGED usable, NEW a \in Row, Parse(a)
  PROVE  StoppedExactly' /\ CellsOK(cell')
<1> DEFINE blanks == After(a, Blank)
           first == Past(blanks, Sign)
           body == After(first, Digit)
           tail == IF cell[body] = Mark THEN Past(body + 1, Sign) ELSE body
           refused == After(tail, Digit)
           end == IF refused # tail THEN refused ELSE IF body # first THEN body ELSE a
           read == IF end # a THEN end - a + 1 ELSE first - a + 1
           all == Span(a, refused - a + 1)
           unfinished == cell[body] = Mark /\ refused = tail
           ahead == IF unfinished THEN (body + 1)..refused ELSE {}
<1>1. /\ did' = [Nothing EXCEPT !.reads = all, !.need = all,
                               !.stopped = ~Passes(a, read), !.ahead = ahead]
      /\ cell' = cell
  BY DEF Parse
<1>2. a \in Int /\ blanks \in Row /\ a <= blanks
  BY AfterOf, CellsFacts
<1> HIDE DEF blanks
<1>3. first \in Row /\ blanks <= first
  <2>1. first \in Row /\ (first = blanks \/ first = blanks + 1)
    BY <1>2, PastOf
  <2> HIDE DEF first
  <2> QED BY <1>2, <2>1, CellsFacts
<1> HIDE DEF first
<1>4. body \in Row /\ first <= body /\ cell[body] # Digit
  BY <1>3, AfterOf
<1> HIDE DEF body
<1>5. tail \in Row /\ body <= tail /\ (cell[body] = Mark => body + 1 <= tail)
      /\ (cell[body] # Mark => tail = body)
  <2>1. CASE cell[body] = Mark
    <3>1. body + 1 \in Row /\ body \in Int
      <4>1. body # Cells - 1
        BY <2>1 DEF LibInv, Zero, Mark
      <4> QED BY <1>4, <4>1, CellsFacts
    <3>2. Past(body + 1, Sign) \in Row /\ body + 1 <= Past(body + 1, Sign)
      <4> DEFINE p == Past(body + 1, Sign)
      <4>1. p \in Row /\ (p = body + 1 \/ p = (body + 1) + 1)
        BY <3>1, PastOf
      <4> HIDE DEF p
      <4>2. p \in Row /\ body + 1 <= p
        BY <3>1, <4>1
      <4> QED BY <4>2 DEF p
    <3> QED BY <1>4, <2>1, <3>2, CellsFacts
  <2>2. CASE cell[body] # Mark
    BY <1>4, <2>2, CellsFacts
  <2> QED BY <2>1, <2>2
<1> HIDE DEF tail
<1>6. refused \in Row /\ tail <= refused
  BY <1>5, AfterOf
<1>7. cell[body] # Mark => refused = tail
  <2>1. SUFFICES ASSUME cell[body] # Mark PROVE refused = tail
    OBVIOUS
  <2>2. tail = body /\ cell[tail] # Digit
    BY <1>4, <1>5, <2>1
  <2> DEFINE S == {j \in Row : j >= tail /\ cell[j] # Digit}
  <2>3. S \in SUBSET Nat /\ tail \in S /\ refused = Min(S)
    BY <1>5, <2>2, CellsFacts DEF After
  <2> HIDE DEF S
  <2>4. Min(S) <= tail
    BY <2>3, LeastOf
  <2> HIDE DEF refused
  <2> QED BY <1>5, <1>6, <2>3, <2>4, CellsFacts
<1> HIDE DEF refused
<1>8. /\ read \in Int /\ a + read <= refused + 1
      /\ unfinished => a + read = body + 1
      /\ ~unfinished => a + read = refused + 1
  BY <1>2, <1>3, <1>4, <1>5, <1>6, <1>7, CellsFacts
<1>9. \A x : /\ x \in all <=> x \in Int /\ a <= x /\ x < refused + 1
             /\ x \in Span(a, read) <=> x \in Int /\ a <= x /\ x < a + read
  <2>1. refused - a + 1 \in Int /\ a + (refused - a + 1) = refused + 1
    BY <1>2, <1>6, CellsFacts
  <2> HIDE DEF read
  <2> QED BY <1>2, <1>8, <2>1, InSpan
<1>10. Span(a, read) \subseteq all /\ all \ ahead \subseteq Span(a, read)
  <2>1. body \in Int /\ refused \in Int
    BY <1>4, <1>6, CellsFacts
  <2>2. \A x : x \in ahead <=> unfinished /\ x \in Int /\ body + 1 <= x /\ x <= refused
    BY <2>1
  <2> HIDE DEF read, all, ahead, unfinished
  <2>3. Span(a, read) \subseteq all
    BY <1>8, <1>9, <2>1
  <2>4. CASE unfinished
    BY <1>8, <1>9, <2>1, <2>2, <2>4
  <2>5. CASE ~unfinished
    BY <1>8, <1>9, <2>1, <2>2, <2>5
  <2> QED BY <2>3, <2>4, <2>5
<1> HIDE DEF read, all, ahead
<1>11. /\ did'.reads = all /\ did'.writes = {} /\ did'.need = all
       /\ did'.ahead = ahead /\ did'.stopped = ~(Span(a, read) \subseteq usable)
  BY <1>1 DEF Nothing, Passes
<1>12. StoppedExactly'
  BY <1>10, <1>11 DEF StoppedExactly, NoStrayWrite, StrayIsStopped, NoFalseStop
<1> QED BY <1>1, <1>12 DEF CellsOK, LibInv

LEMMA ReadSteps ==
  ASSUME LibInv, UNCHANGED usable, NEW a \in Row,
         \/ \E b \in Row, n \in {2, Cells} : Compare(a, b, n)
         \/ Parse(a)
         \/ \E max \in {Unbounded, 2} : Strlen(a, max)
  PROVE  StoppedExactly' /\ CellsOK(cell')
<1>1. CASE \E b \in Row, n \in {2, Cells} : Compare(a, b, n)
  <2>1. PICK b \in Row, n \in {2, Cells} : Compare(a, b, n)
    BY <1>1
  <2> DEFINE i == Compared(a, b, n)
             ok == Passes(a, i) /\ Passes(b, i)
             reads == Span(a, i) \cup Span(b, i)
  <2>2. Reads(ok, reads)
    BY <2>1 DEF Compare
  <2>3. ok <=> reads \subseteq usable
    BY DEF Passes
  <2>4. ok \in BOOLEAN
    OBVIOUS
  <2> HIDE DEF ok, reads
  <2> QED BY <2>2, <2>3, <2>4, ReadsExact DEF LibInv, CellsOK
<1>2. CASE Parse(a)
  BY <1>2, ParseStep
<1>3. CASE \E max \in {Unbounded, 2} : Strlen(a, max)
  <2>1. PICK max \in {Unbounded, 2} : Strlen(a, max)
    BY <1>3
  <2> DEFINE ok == Passes(a, Scanned(a, max))
             reads == Span(a, Scanned(a, max))
  <2>2. Reads(ok, reads)
    BY <2>1 DEF Strlen
  <2>3. (ok <=> reads \subseteq usable) /\ ok \in BOOLEAN
    BY DEF Passes
  <2> HIDE DEF ok, reads
  <2> QED BY <2>2, <2>3, ReadsExact DEF LibInv, CellsOK
<1> QED BY <1>1, <1>2, <1>3

LEMMA PairLeast ==
  ASSUME NEW a \in Nat, NEW b \in Nat
  PROVE  Min({a, b}) \in Nat /\ Min({a, b}) <= a /\ Min({a, b}) <= b
         /\ (Min({a, b}) = a \/ Min({a, b}) = b)
<1>1. {a, b} \in SUBSET Nat /\ {a, b} # {}
  OBVIOUS
<1>2. Min({a, b}) \in {a, b} /\ \A y \in {a, b} : Min({a, b}) <= y
  BY <1>1, LeastOf
<1> QED BY <1>2

LEMMA PrintSteps ==
  ASSUME LibInv, UNCHANGED usable, NEW d \in Row, NEW length \in Nat,
         Sprintf(d, length) \/ Snprintf(d, 2, length)
  PROVE  StoppedExactly' /\ CellsOK(cell')
<1>0. d \in Int /\ length + 1 \in Nat
  BY CellsFacts
<1>1. CASE Sprintf(d, length)
  <2> DEFINE ok == Passes(d, length + 1)
             bad == length + 1 > Limit
  <2>1. /\ Finish(ok, bad, {}, {}, Span(d, length + 1), Filled(d, length))
        /\ d + length < Cells
    BY <1>1, CellsFacts DEF Sprintf
  <2>2. /\ ok <=> {} \cup {} \cup Span(d, length + 1) \subseteq usable
        /\ ok \in BOOLEAN /\ bad \in BOOLEAN
    BY DEF Passes
  <2> HIDE DEF ok, bad
  <2>3. StoppedExactly' /\ (cell' = Filled(d, length) \/ cell' = cell)
    BY <2>1, <2>2, FinishExact
  <2> QED BY <2>1, <2>3, FilledOK DEF CellsOK, LibInv
<1>2. CASE Snprintf(d, 2, length)
  <2> DEFINE written == Min({length + 1, 2})
             ok == (Passes(d, 2) /\ 2 <= Limit) \/ Passes(d, written)
             bad == written > Limit
  <2>1. /\ Finish(ok, bad, {}, {}, Span(d, written), Filled(d, written - 1))
        /\ d + written < Cells
    BY <1>2 DEF Snprintf
  <2>2. written \in Nat /\ written <= 2 /\ written >= 1
    BY <1>0, PairLeast
  <2> HIDE DEF written
  <2>3. Span(d, written) \subseteq Span(d, 2)
    <3>1. 2 \in Int /\ written \in Int
      BY <2>2
    <3> QED BY <1>0, <2>2, <3>1, InSpan
  <2>4. /\ ok <=> {} \cup {} \cup Span(d, written) \subseteq usable
        /\ ok \in BOOLEAN /\ bad \in BOOLEAN
    BY <2>3 DEF Passes
  <2> HIDE DEF ok, bad
  <2>5. StoppedExactly' /\ (cell' = Filled(d, written - 1) \/ cell' = cell)
    BY <2>1, <2>4, FinishExact
  <2>6. written - 1 \in Nat /\ d + (written - 1) < Cells
    BY <2>1, <2>2, CellsFacts
  <2> QED BY <2>5, <2>6, FilledOK DEF CellsOK, LibInv
<1> QED BY <1>1, <1>2

LEMMA ScanfStep ==
  ASSUME LibInv, UNCHANGED usable, NEW d \in Row, NEW length \in Nat, Scanf(d, length)
  PROVE  StoppedExactly' /\ CellsOK(cell')
<1>1. /\ did'.writes = Span(d, length + 1) /\ did'.need = Span(d, length + 1)
      /\ did'.late /\ did'.reads = {} /\ did'.stopped = ~Passes(d, length + 1)
      /\ cell' = Filled(d, length) /\ d + length < Cells
  BY CellsFacts DEF Scanf, Nothing
<1>2. StoppedExactly'
  BY <1>1 DEF StoppedExactly, NoStrayWrite, StrayIsStopped, NoFalseStop, Passes
<1> QED BY <1>1, <1>2, FilledOK

LEMMA VectorsStep ==
  ASSUME LibInv, UNCHANGED usable, NEW V, Vectors(V)
  PROVE  StoppedExactly' /\ CellsOK(cell')
<1> DEFINE ok == \A v \in V : Passes(v[1], v[2])
           all == UNION {Span(v[1], v[2]) : v \in V}
<1>1. Finish(ok, FALSE, {}, {}, all, cell)
  BY DEF Vectors
<1>2. ok <=> {} \cup {} \cup all \subseteq usable
  <2> DEFINE T == {Span(v[1], v[2]) : v \in V}
  <2>1. ok <=> \A t \in T : t \subseteq usable
    BY DEF Passes
  <2> HIDE DEF T
  <2>2. (UNION T) \subseteq usable <=> \A t \in T : t \subseteq usable
    OBVIOUS
  <2> QED BY <2>1, <2>2 DEF T
<1>3. ok \in BOOLEAN
  OBVIOUS
<1> HIDE DEF ok, all
<1> QED BY <1>1, <1>2, <1>3, FinishExact DEF CellsOK, LibInv

\* gets writes cell by cell: those it may are the first ones of the text.
LEMMA GetsStep ==
  ASSUME LibInv, UNCHANGED usable, NEW d \in Row, NEW length \in Nat, Gets(d, length)
  PROVE  StoppedExactly' /\ CellsOK(cell')
<1> DEFINE room == {i \in 0..length : Passes(d, i + 1) /\ i + 1 <= Limit}
           n == Cardinality(room)
           over == {i \in 0..(length + 1) : i \notin room}
           m == Min(over)
<1>0. d \in Int /\ length + 1 \in Nat
  BY CellsFacts
<1>1. \A i \in Nat : \A x : x \in Span(d, i) <=> x \in Int /\ d <= x /\ x < d + i
  <2> SUFFICES ASSUME NEW i \in Nat, NEW x
               PROVE  x \in Span(d, i) <=> x \in Int /\ d <= x /\ x < d + i
    OBVIOUS
  <2>1. i \in Int
    OBVIOUS
  <2> QED BY <1>0, <2>1, InSpan
<1>2. m \in over /\ \A y \in over : m <= y
  <2>1. over \in SUBSET Nat /\ length + 1 \in over
    BY <1>0
  <2> HIDE DEF over
  <2> QED BY <2>1, LeastOf
<1>3. m \in 0..(length + 1)
  BY <1>2
<1>4. \A i \in 0..length : i < m => i \in room
  <2> HIDE DEF m, room
  <2> QED BY <1>2, <1>3
<1>5. \A i \in 0..length : i >= m => i \notin room
  <2> SUFFICES ASSUME NEW i \in 0..length, i >= m, i \in room PROVE FALSE
    OBVIOUS
  <2>1. m \notin room
    BY <1>2
  <2>2. m \in Nat /\ m \in 0..length /\ m + 1 \in Nat /\ i + 1 \in Nat
    <3> HIDE DEF m
    <3> QED BY <1>3
  <2>3. Span(d, m + 1) \subseteq Span(d, i + 1)
    <3> HIDE DEF m
    <3> QED BY <1>0, <1>1, <2>2
  <2>4. m + 1 <= Limit
    <3> HIDE DEF m
    <3> QED BY <2>2, CellsFacts
  <2> HIDE DEF m
  <2> QED BY <2>1, <2>2, <2>3, <2>4 DEF Passes
<1> HIDE DEF over
<1>6. room = 0..(m - 1)
  <2>1. room \subseteq 0..length
    OBVIOUS
  <2> HIDE DEF m, room
  <2>2. ASSUME NEW i \in room PROVE i \in 0..(m - 1)
    <3>1. i \in 0..length /\ ~(i >= m)
      BY <1>5, <2>1, <2>2
    <3> QED BY <1>3, <3>1
  <2>3. ASSUME NEW i \in 0..(m - 1) PROVE i \in room
    BY <1>3, <1>4, <2>3
  <2> QED BY <2>2, <2>3
<1>7. n = m
  <2>1. 0 \in Int /\ m - 1 \in Int
    <3> HIDE DEF m
    <3> QED BY <1>3
  <2>2. Cardinality(0..(m - 1)) = IF 0 > m - 1 THEN 0 ELSE (m - 1) - 0 + 1
    <3> HIDE DEF m
    <3> QED BY <2>1, FS_Interval
  <2> HIDE DEF m, room
  <2> QED BY <1>3, <1>6, <2>2
<1>8. /\ did'.writes = Span(d, n) /\ did'.stopped = (n # length + 1)
      /\ did'.need = Span(d, length + 1) /\ did'.broken = (length + 1 > Limit)
      /\ did'.reads = {}
      /\ d + length + 1 < Cells
      /\ cell' = IF n = length + 1 THEN Filled(d, length)
                 ELSE [i \in Row |-> IF i \in Span(d, n) THEN Digit ELSE cell[i]]
  BY DEF Gets, Nothing
<1>9. Span(d, n) \subseteq usable
  <2>1. CASE m = 0
    <3> HIDE DEF m, n
    <3> QED BY <1>0, <1>1, <1>7, <2>1
  <2>2. CASE m # 0
    <3>1. m - 1 \in room
      <4> HIDE DEF m, room
      <4> QED BY <1>3, <1>6, <2>2
    <3>2. (m - 1) + 1 = m
      <4> HIDE DEF m
      <4> QED BY <1>3
    <3> HIDE DEF m, n
    <3> QED BY <1>7, <3>1, <3>2 DEF Passes
  <2> QED BY <2>1, <2>2
<1>10. n # length + 1 => length + 1 > Limit \/ ~(Span(d, length + 1) \subseteq usable)
  <2> SUFFICES ASSUME n # length + 1, length + 1 <= Limit, Passes(d, length + 1)
               PROVE  FALSE
    <3> HIDE DEF n
    <3> QED BY <1>0, CellsFacts DEF Passes
  <2>1. length \in room
    OBVIOUS
  <2> HIDE DEF m, n, room
  <2> QED BY <1>3, <1>6, <1>7, <2>1
<1> HIDE DEF n, m, room
<1>11. StoppedExactly'
  BY <1>8, <1>9, <1>10 DEF StoppedExactly, NoStrayWrite, StrayIsStopped, NoFalseStop
<1>12. CellsOK(cell')
  <2>1. CASE n = length + 1
    BY <1>8, <2>1, FilledOK, CellsFacts
  <2>2. CASE n # length + 1
    <3>1. Cells - 1 \notin Span(d, n)
      BY <1>0, <1>1, <1>3, <1>7, <1>8, CellsFacts
    <3> QED BY <1>8, <2>2, <3>1, CellsFacts DEF CellsOK, LibInv
  <2> QED BY <2>1, <2>2
<1> QED BY <1>11, <1>12

\* Elements of a wide string, one after the other, are its cells.
LEMMA ElementOf ==
  ASSUME NEW off \in Nat
  PROVE  \E k \in Nat : Element * k <= off /\ off < Element * k + Element
<1> DEFINE S == {k \in Nat : off < Element * k + Element}
<1>1. off \in S
  <2>1. Element * off >= off
    BY CellsFacts
  <2> QED BY <2>1, CellsFacts
<1>2. S \in SUBSET Nat
  OBVIOUS
<1> DEFINE k == Min(S)
<1>3. k \in S /\ \A y \in S : k <= y
  <2> HIDE DEF S
  <2> QED BY <1>1, <1>2, LeastOf
<1>4. k \in Nat /\ off < Element * k + Element
  BY <1>3
<1>5. Element * k <= off
  <2> SUFFICES ASSUME Element * k > off PROVE FALSE
    <3> HIDE DEF k
    <3> QED BY <1>4, CellsFacts
  <2>1. k # 0
    <3> HIDE DEF k
    <3> QED BY CellsFacts
  <2>2. k - 1 \in Nat /\ Element * (k - 1) + Element = Element * k
    <3> HIDE DEF k
    <3> QED BY <1>4, <2>1, CellsFacts
  <2>3. k - 1 \in S
    <3> HIDE DEF k
    <3> QED BY <2>2
  <2>4. k <= k - 1
    BY <1>3, <2>3
  <2> HIDE DEF k
  <2> QED BY <1>4, <2>4
<1> HIDE DEF k
<1> QED BY <1>4, <1>5

LEMMA ElementIn ==
  ASSUME NEW i \in Nat, NEW last \in Nat, i < last
  PROVE  Element * i + Element <= Element * last
<1>1. PICK j \in Nat : last = (i + 1) + j
  <2>1. last - (i + 1) \in Nat /\ last = (i + 1) + (last - (i + 1))
    OBVIOUS
  <2> QED BY <2>1
<1>2. Element * j >= 0
  BY CellsFacts
<1>3. Element * ((i + 1) + j) = Element * i + Element + Element * j
  BY CellsFacts
<1>4. Element * i \in Nat /\ Element * j \in Nat
  BY CellsFacts
<1> QED BY <1>1, <1>2, <1>3, <1>4, CellsFacts

LEMMA WcslenStep ==
  ASSUME LibInv, UNCHANGED usable, NEW s \in Row, Wcslen(s, 2)
  PROVE  StoppedExactly' /\ CellsOK(cell')
<1> DEFINE ends == {i \in 0..1 : s + i * Element >= Cells - Element
                                 \/ cell[s + i * Element] = Zero}
           last == IF ends = {} THEN 2 ELSE Min(ends) + 1
           bad == {i \in 0..(last - 1) : ~Passes(s + i * Element, Element)}
           upto == IF bad = {} THEN last ELSE Min(bad)
<1>1. last \in Nat
  <2>1. ends # {} => Min(ends) \in ends
    <3>1. ends \in SUBSET Nat
      OBVIOUS
    <3> HIDE DEF ends
    <3> QED BY <3>1, LeastOf
  <2>2. \A i \in ends : i \in Nat
    OBVIOUS
  <2> HIDE DEF ends
  <2> QED BY <2>1, <2>2
<1>2. /\ did'.need = Span(s, Element * last) /\ did'.stopped = (bad # {})
      /\ did'.reads = Span(s, Element * upto) /\ did'.writes = {} /\ cell' = cell
  <2>1. 2 - 1 = 1
    OBVIOUS
  <2> QED BY <2>1 DEF Wcslen, Nothing
<1> HIDE DEF last
<1>3. s \in Nat /\ s \in Int /\ Element * last \in Int
  BY <1>1, CellsFacts
<1>4. bad = {} => Span(s, Element * last) \subseteq usable
  <2> SUFFICES ASSUME bad = {}, NEW x \in Span(s, Element * last) PROVE x \in usable
    OBVIOUS
  <2>1. x \in Int /\ s <= x /\ x < s + Element * last
    BY <1>3, InSpan
  <2>2. PICK k \in Nat : Element * k <= x - s /\ x - s < Element * k + Element
    <3>1. x - s \in Nat
      BY <1>3, <2>1
    <3> QED BY <3>1, ElementOf
  <2>3. k < last
    <3> SUFFICES ASSUME last <= k PROVE FALSE
      BY <1>1
    <3>1. Element * last <= Element * k
      <4>1. CASE last = k
        BY <1>1, <4>1, CellsFacts
      <4>2. CASE last # k
        <5>1. last < k
          BY <1>1, <4>2
        <5>2. Element * last + Element <= Element * k
          BY <1>1, <5>1, ElementIn
        <5> QED BY <1>3, <5>2, CellsFacts
      <4> QED BY <4>1, <4>2
    <3>2. Element * k \in Int
      BY CellsFacts
    <3> QED BY <1>3, <2>1, <2>2, <3>1, <3>2
  <2>4. k * Element = Element * k /\ Element * k \in Nat
    BY CellsFacts
  <2>5. k \in 0..(last - 1)
    BY <1>1, <2>3
  <2>6. Span(s + k * Element, Element) \subseteq usable
    BY <2>5 DEF Passes
  <2>7. x \in Span(s + k * Element, Element)
    <3>1. /\ s + k * Element \in Int /\ Element \in Int
          /\ s + k * Element <= x /\ x < (s + k * Element) + Element
      BY <1>3, <2>1, <2>2, <2>4, CellsFacts
    <3> QED BY <2>1, <3>1, InSpan
  <2> QED BY <2>6, <2>7
<1>5. bad # {} => ~(Span(s, Element * last) \subseteq usable)
  <2> SUFFICES ASSUME NEW i \in bad PROVE ~(Span(s, Element * last) \subseteq usable)
    OBVIOUS
  <2>1. i \in Nat /\ i < last /\ ~(Span(s + i * Element, Element) \subseteq usable)
    BY <1>1 DEF Passes
  <2>2. Element * i + Element <= Element * last /\ i * Element = Element * i
        /\ Element * i \in Nat
    BY <1>1, <2>1, ElementIn, CellsFacts
  <2>3. Span(s + i * Element, Element) \subseteq Span(s, Element * last)
    <3> SUFFICES ASSUME NEW x \in Span(s + i * Element, Element)
                 PROVE  x \in Span(s, Element * last)
      OBVIOUS
    <3>1. s + i * Element \in Int /\ Element \in Int
      BY <1>3, <2>2, CellsFacts
    <3>2. x \in Int /\ s + i * Element <= x /\ x < (s + i * Element) + Element
      BY <3>1, InSpan
    <3>3. s <= x /\ x < s + Element * last
      BY <1>3, <2>2, <3>2, CellsFacts
    <3> QED BY <1>3, <3>2, <3>3, InSpan
  <2> QED BY <2>1, <2>3
<1>6. bad = {} => upto = last
  OBVIOUS
<1> HIDE DEF bad, upto
<1>7. StoppedExactly'
  BY <1>2, <1>4, <1>5, <1>6 DEF StoppedExactly, NoStrayWrite, StrayIsStopped, NoFalseStop
<1> QED BY <1>2, <1>7 DEF CellsOK, LibInv

LEMMA LibInitInv == LibInit => LibInv
<1> SUFFICES ASSUME LibInit PROVE LibInv
  OBVIOUS
<1>1. StoppedExactly
  BY DEF LibInit, Nothing, StoppedExactly, NoStrayWrite, StrayIsStopped, NoFalseStop
<1> QED BY <1>1, LibraryAssumption, CellsFacts
        DEF LibInit, LibInv, LibraryAssumption, Zero, Digit, Blank, Sign, Mark

LEMMA LibCallStep ==
  ASSUME LibInv, LibCall PROVE LibInv'
<1>1. UNCHANGED usable /\ Call
  BY DEF LibCall
<1>2. StoppedExactly' /\ CellsOK(cell')
  <2>1. CASE \E a, b \in Row : Strcpy(a, b) \/ Strcat(a, b)
    BY <1>1, <2>1, StrcpyStep, StrcatStep
  <2>2. CASE \E a, b \in Row : \E n \in {2, Cells} : Compare(a, b, n)
    BY <1>1, <2>2, ReadSteps
  <2>3. CASE \E a \in Row : Parse(a) \/ \E max \in {Unbounded, 2} : Strlen(a, max)
    BY <1>1, <2>3, ReadSteps
  <2>4. CASE \E a \in Row, n \in 0..MaxLength :
               \/ Sprintf(a, n) \/ Gets(a, n) \/ Scanf(a, n)
               \/ Snprintf(a, 2, n) \/ Vectors({<<a, n>>, <<0, 1>>})
    <3>1. PICK a \in Row, n \in 0..MaxLength :
               \/ Sprintf(a, n) \/ Gets(a, n) \/ Scanf(a, n)
               \/ Snprintf(a, 2, n) \/ Vectors({<<a, n>>, <<0, 1>>})
      BY <2>4
    <3>2. n \in Nat
      BY CellsFacts
    <3> QED BY <1>1, <3>1, <3>2, PrintSteps, GetsStep, ScanfStep, VectorsStep
  <2>5. CASE \E a \in Row : Wcslen(a, 2)
    BY <1>1, <2>5, WcslenStep
  <2> QED BY <1>1, <2>1, <2>2, <2>3, <2>4, <2>5 DEF Call
<1> QED BY <1>2 DEF LibInv, CellsOK

\* For any memory and any number of cells: a checked call is stopped when it
\* leaves the objects, before it writes, and only then, but for what a number
\* parser reads after a mark that no digit follows (the wrappers of
\* weavec_libc.c over checkRange).
THEOREM CheckedCallsExact == LibSpec => []StoppedExactly
<1>1. LibInv /\ [LibCall \/ LibFormat]_libVars => LibInv'
  <2> SUFFICES ASSUME LibInv, [LibCall \/ LibFormat]_libVars PROVE LibInv'
    OBVIOUS
  <2>1. CASE LibCall
    BY <2>1, LibCallStep
  <2>2. CASE UNCHANGED <<cell, usable, did>>
    BY <2>2 DEF LibInv, StoppedExactly, NoStrayWrite, StrayIsStopped, NoFalseStop
  <2> QED BY <2>1, <2>2 DEF LibFormat, libVars
<1>2. LibInv => StoppedExactly
  BY DEF LibInv
<1> QED BY <1>1, <1>2, LibInitInv, PTL DEF LibSpec

-----------------------------------------------------------------------------
(* Granules.  Addresses that granules begin at are multiples of G; what    *)
(* needs a product is proved here once.                                    *)
(***************************************************************************)
Aligned(x) == x \in Nat /\ x % G = 0

LEMMA ShadowConstants ==
  /\ G \in Nat \ {0} /\ G <= 16 /\ Chunk \in Nat \ {0} /\ Window \in Nat /\ SlotBytes \in Nat \ {0}
  /\ RegionBytes \in Nat \ {0} /\ TailLimit \in Nat \ {0} /\ EntryBytes \in Nat \ {0}
  /\ StackLow \in Nat \ {0} /\ StackTop \in Nat /\ StackLow < StackTop /\ StackTop <= Window
  /\ UserBytes \subseteq Nat \ {0} /\ Sizes \subseteq Nat /\ RegionBases \subseteq Nat
  /\ GlobalAt \in Nat /\ GlobalSize \in Nat /\ GlobalPadded \in Nat \ {0} /\ GlobalSize <= GlobalPadded
  /\ GlobalAt + GlobalPadded <= Window /\ \A n \in Sizes : n < SlotBytes
  BY ShadowAssumption, PlacesAssumption DEF ShadowAssumption, PlacesAssumption

LEMMA AlignedConstants ==
  /\ \A x \in {Window, SlotBytes, RegionBytes, GlobalAt, GlobalPadded, StackLow, StackTop,
               TailLimit, EntryBytes} : Aligned(x)
  /\ \A r \in RegionBases : Aligned(r)
  BY ShadowAssumption, ShadowConstants DEF ShadowAssumption, Aligned

LEMMA AlignedIs ==
  ASSUME NEW x
  PROVE  Aligned(x) <=> \E k \in Nat : x = G * k
<1>1. ASSUME Aligned(x) PROVE \E k \in Nat : x = G * k
  <2>1. x \div G \in Nat /\ x = G * (x \div G) + (x % G) /\ x % G = 0
    BY <1>1, ShadowConstants DEF Aligned
  <2> DEFINE k == x \div G
  <2>2. k \in Nat /\ x = G * k + 0 /\ G * k \in Nat
    BY <2>1, ShadowConstants
  <2> HIDE DEF k
  <2>3. x = G * k
    BY <2>2
  <2> QED BY <2>2, <2>3
<1>2. ASSUME NEW k \in Nat, x = G * k PROVE Aligned(x)
  <2>1. G * k \in Nat /\ (G * k) % G = 0
    BY ShadowConstants
  <2> QED BY <1>2, <2>1 DEF Aligned
<1> QED BY <1>1, <1>2

LEMMA AlignedSums ==
  ASSUME NEW x, NEW y, Aligned(x), Aligned(y)
  PROVE  Aligned(x + y) /\ (x >= y => Aligned(x - y)) /\ (x < y => x + G <= y)
<1>1. PICK i \in Nat : x = G * i
  BY AlignedIs
<1>2. PICK j \in Nat : y = G * j
  BY AlignedIs
<1>3. Aligned(x + y)
  <2>1. x + y = G * (i + j) /\ i + j \in Nat
    BY <1>1, <1>2, ShadowConstants
  <2> QED BY <2>1, AlignedIs
<1>4. ASSUME x >= y PROVE Aligned(x - y)
  <2>1. i >= j
    <3>1. ASSUME i < j PROVE FALSE
      <4>1. i + 1 <= j /\ j - (i + 1) \in Nat
        BY <3>1
      <4>2. G * j = G * (i + 1) + G * (j - (i + 1)) /\ G * (j - (i + 1)) \in Nat
        BY <4>1, ShadowConstants
      <4>3. G * (i + 1) = G * i + G /\ G * i \in Nat
        BY ShadowConstants
      <4> QED BY <1>1, <1>2, <1>4, <4>2, <4>3, ShadowConstants
    <3> QED BY <3>1
  <2>2. x - y = G * (i - j) /\ i - j \in Nat
    BY <1>1, <1>2, <2>1, ShadowConstants
  <2> QED BY <2>2, AlignedIs
<1>5. ASSUME x < y PROVE x + G <= y
  <2>1. i < j
    <3>1. ASSUME j <= i PROVE FALSE
      <4>1. i - j \in Nat /\ G * i = G * j + G * (i - j) /\ G * (i - j) \in Nat /\ G * j \in Nat
        BY <3>1, ShadowConstants
      <4> QED BY <1>1, <1>2, <1>5, <4>1
    <3> QED BY <3>1
  <2>2. j - (i + 1) \in Nat /\ G * j = G * (i + 1) + G * (j - (i + 1)) /\ G * (j - (i + 1)) \in Nat
    BY <2>1, ShadowConstants
  <2>3. G * (i + 1) = G * i + G /\ G * i \in Nat
    BY ShadowConstants
  <2> QED BY <1>1, <1>2, <2>2, <2>3, ShadowConstants
<1> QED BY <1>3, <1>4, <1>5

LEMMA FloorFacts ==
  ASSUME NEW x \in Nat
  PROVE  /\ Aligned(Floor(x)) /\ Floor(x) \in Nat /\ Floor(x) <= x /\ x < Floor(x) + G
         /\ x % G = x - Floor(x) /\ (Aligned(x) => Floor(x) = x)
<1> DEFINE k == x \div G
<1>1. k \in Nat /\ x % G \in 0..(G - 1) /\ x = G * k + (x % G)
  BY ShadowConstants
<1>2. Floor(x) = G * k
  BY <1>1, ShadowConstants DEF Floor
<1> HIDE DEF k
<1>3. Aligned(Floor(x))
  BY <1>1, <1>2, AlignedIs
<1>4. Floor(x) \in Nat
  BY <1>3 DEF Aligned
<1>5. Floor(x) <= x /\ x < Floor(x) + G /\ x % G = x - Floor(x)
  BY <1>1, <1>2, <1>4, ShadowConstants
<1>6. Aligned(x) => Floor(x) = x
  BY <1>4, <1>5 DEF Aligned
<1> QED BY <1>3, <1>4, <1>5, <1>6

\* A granule holds the bytes from its start to the next.
LEMMA FloorIs ==
  ASSUME NEW x \in Nat, NEW g, Aligned(g)
  PROVE  /\ (g <= x <=> g <= Floor(x)) /\ (x < g <=> Floor(x) < g)
         /\ (g <= x /\ x < g + G => Floor(x) = g)
<1> DEFINE f == Floor(x)
<1>1. Aligned(f) /\ f \in Nat /\ f <= x /\ x < f + G /\ g \in Nat
  BY FloorFacts DEF Aligned
<1> HIDE DEF f
<1>2. (f < g => f + G <= g) /\ (g < f => g + G <= f)
  BY <1>1, AlignedSums
<1>3. g <= x <=> g <= f
  BY <1>1, <1>2, ShadowConstants
<1>4. x < g <=> f < g
  BY <1>1, <1>2, <1>3, ShadowConstants
<1>5. g <= x /\ x < g + G => f = g
  BY <1>1, <1>2, <1>3, ShadowConstants
<1> QED BY <1>3, <1>4, <1>5 DEF f

LEMMA CeilFacts ==
  ASSUME NEW n \in Nat
  PROVE  Aligned(Ceil(n)) /\ Ceil(n) \in Nat /\ n <= Ceil(n) /\ Ceil(n) < n + G
         /\ Ceil(n) = (IF n % G = 0 THEN Floor(n) ELSE Floor(n) + G)
<1> DEFINE m == n + G - 1
<1>1. m \in Nat /\ m = n + G - 1
  BY ShadowConstants
<1> HIDE DEF m
<1>2. Ceil(n) = Floor(m)
  BY <1>1 DEF Ceil
<1>3. Aligned(Floor(m)) /\ Floor(m) \in Nat /\ Floor(m) <= m /\ m < Floor(m) + G
  BY <1>1, FloorFacts
<1>4. Aligned(Floor(n)) /\ Floor(n) \in Nat /\ Floor(n) <= n /\ n < Floor(n) + G /\ n % G = n - Floor(n)
  BY FloorFacts
<1>5. Aligned(Floor(n) + G)
  BY <1>4, AlignedSums, ShadowConstants DEF Aligned
<1>6. n % G = 0 => Floor(m) = Floor(n)
  BY <1>1, <1>4, FloorIs, ShadowConstants
<1>7. n % G # 0 => Floor(m) = Floor(n) + G
  BY <1>1, <1>4, <1>5, FloorIs, ShadowConstants
<1> QED BY <1>1, <1>2, <1>3, <1>6, <1>7, ShadowConstants

LEMMA GranulesAre ==
  ASSUME NEW g
  PROVE  g \in Granules <=> Aligned(g) /\ g < Window
  BY ShadowConstants DEF Granules, Aligned

LEMMA InWindowFloor ==
  ASSUME NEW x \in Nat, x < Window
  PROVE  Floor(x) \in Granules /\ Floor(x) \in Nat
<1>1. Floor(x) \in Nat /\ Floor(x) <= x /\ Aligned(Floor(x))
  BY FloorFacts
<1>2. Floor(x) < Window
  BY <1>1, ShadowConstants
<1> QED BY <1>1, <1>2, GranulesAre

-----------------------------------------------------------------------------
(* Where the objects are *)

LEMMA LesserIs ==
  ASSUME NEW x \in Nat, NEW y \in Nat
  PROVE  Min({x, y}) = IF x <= y THEN x ELSE y
<1>1. \E z \in {x, y} : \A t \in {x, y} : z <= t
  <2>1. CASE x <= y
    BY <2>1
  <2>2. CASE y <= x
    BY <2>2
  <2> QED BY <2>1, <2>2
<1>2. Min({x, y}) \in {x, y} /\ \A t \in {x, y} : Min({x, y}) <= t
  BY <1>1 DEF Min
<1> QED BY <1>2

LEMMA BytesAre ==
  ASSUME NEW p \in Int, NEW q \in Int, NEW x \in Int
  PROVE  x \in Bytes(p, q - p) <=> p <= x /\ x < q
  BY DEF Bytes

LEMMA BytesApart ==
  ASSUME NEW p \in Int, NEW m \in Nat \ {0}, NEW q \in Int, NEW n \in Nat \ {0},
         Bytes(p, m) \cap Bytes(q, n) = {}
  PROVE  p + m <= q \/ q + n <= p
<1>1. CASE p <= q
  <2>1. q \in Bytes(q, n) /\ (q < p + m => q \in Bytes(p, m))
    BY <1>1 DEF Bytes
  <2> QED BY <2>1
<1>2. CASE q <= p
  <2>1. p \in Bytes(p, m) /\ (p < q + n => p \in Bytes(q, n))
    BY <1>2 DEF Bytes
  <2> QED BY <2>1
<1> QED BY <1>1, <1>2

LEMMA CapacityFits ==
  Capacity \in Nat /\ Capacity * SlotBytes \in Nat /\ Capacity * SlotBytes <= RegionBytes
<1>1. RegionBytes \div SlotBytes \in Nat /\ RegionBytes % SlotBytes \in 0..(SlotBytes - 1)
      /\ RegionBytes = SlotBytes * (RegionBytes \div SlotBytes) + (RegionBytes % SlotBytes)
  BY ShadowConstants
<1>2. Capacity \in Nat /\ Capacity * SlotBytes = SlotBytes * Capacity /\ Capacity * SlotBytes \in Nat
  BY <1>1, ShadowConstants DEF Capacity
<1> QED BY <1>1, <1>2, ShadowConstants DEF Capacity

LEMMA AlignedProduct ==
  ASSUME NEW i \in Nat
  PROVE  Aligned(i * SlotBytes)
<1>1. PICK k \in Nat : SlotBytes = G * k
  BY AlignedConstants, AlignedIs
<1>2. i * k \in Nat /\ i * SlotBytes = G * (i * k)
  <2>1. i * k \in Nat
    OBVIOUS
  <2>2. i * (G * k) = G * (i * k)
    BY ShadowConstants
  <2> QED BY <1>1, <2>1, <2>2
<1> QED BY <1>2, AlignedIs

LEMMA SlotFacts ==
  ASSUME NEW r \in RegionBases, NEW b \in SlotsOf(r)
  PROVE  /\ b \in Nat /\ Aligned(b) /\ b \in Slots
         /\ r <= b /\ b + SlotBytes <= r + Capacity * SlotBytes
         /\ b + SlotBytes <= r + RegionBytes /\ SlotBytes <= RegionBytes
<1>1. PICK i \in 0..(Capacity - 1) : b = r + i * SlotBytes
  BY DEF SlotsOf
<1>2. r \in Nat /\ Aligned(r) /\ i \in Nat /\ i + 1 <= Capacity
  BY <1>1, ShadowConstants, AlignedConstants, CapacityFits
<1>3. Aligned(i * SlotBytes)
  BY <1>2, AlignedProduct
<1>4. i * SlotBytes \in Nat
  BY <1>3 DEF Aligned
<1>5. Aligned(b)
  BY <1>1, <1>2, <1>3, AlignedSums
<1>6. i * SlotBytes + SlotBytes <= Capacity * SlotBytes
  <2>1. (Capacity - (i + 1)) \in Nat
    BY <1>2, CapacityFits
  <2>2. (Capacity - (i + 1)) * SlotBytes \in Nat
    BY <2>1, ShadowConstants
  <2>3. Capacity * SlotBytes = i * SlotBytes + SlotBytes + (Capacity - (i + 1)) * SlotBytes
    BY <1>2, CapacityFits, ShadowConstants
  <2> QED BY <1>4, <2>2, <2>3, ShadowConstants
<1>7. b \in Slots
  BY DEF Slots
<1> QED BY <1>1, <1>2, <1>4, <1>5, <1>6, <1>7, CapacityFits, ShadowConstants DEF Aligned

LEMMA SlotsIn ==
  ASSUME NEW b \in Slots
  PROVE  \E r \in RegionBases : b \in SlotsOf(r)
  BY DEF Slots

\* A region, with the granule before it, is apart from the global and the
\* stack, and without it from the slots of other regions.
LEMMA RegionsApart ==
  ASSUME NEW r \in RegionBases
  PROVE  /\ r \in Nat /\ Aligned(r) /\ Aligned(r - G) /\ G <= r /\ r + RegionBytes <= Window
         /\ (r + RegionBytes <= GlobalAt \/ GlobalAt + GlobalPadded <= r - G)
         /\ (r + RegionBytes <= StackLow \/ StackTop <= r - G)
         /\ \A q \in RegionBases \ {r} : \A b \in SlotsOf(q) :
               r + RegionBytes <= b \/ b + SlotBytes <= r
<1>1. /\ r >= G /\ r + RegionBytes <= Window
      /\ Bytes(r - G, G + RegionBytes) \cap Bytes(GlobalAt, GlobalPadded) = {}
      /\ Bytes(r - G, G + RegionBytes) \cap Bytes(StackLow, StackTop - StackLow) = {}
      /\ \A q \in RegionBases \ {r} :
            Bytes(r, RegionBytes) \cap Bytes(q, RegionBytes) = {}
  BY PlacesAssumption DEF PlacesAssumption
<1>2. r \in Nat /\ Aligned(r) /\ r - G \in Int /\ G + RegionBytes \in Nat \ {0} /\ G \in Nat
  BY ShadowConstants, AlignedConstants
<1>3. Aligned(r - G)
  <2>1. Aligned(G)
    BY ShadowConstants, AlignedIs, 1 \in Nat, G = G * 1
  <2> QED BY <1>1, <1>2, <2>1, AlignedSums
<1>4. r - G + (G + RegionBytes) = r + RegionBytes
  BY <1>2, ShadowConstants
<1>5. r + RegionBytes <= GlobalAt \/ GlobalAt + GlobalPadded <= r - G
  BY <1>1, <1>2, <1>4, BytesApart, ShadowConstants
<1>6. r + RegionBytes <= StackLow \/ StackTop <= r - G
  <2>1. StackTop - StackLow \in Nat \ {0} /\ StackLow + (StackTop - StackLow) = StackTop
    BY ShadowConstants
  <2> QED BY <1>1, <1>2, <1>4, <2>1, BytesApart, ShadowConstants
<1>7. ASSUME NEW q \in RegionBases \ {r}, NEW b \in SlotsOf(q)
      PROVE  r + RegionBytes <= b \/ b + SlotBytes <= r
  <2>1. b \in Nat /\ q <= b /\ b + SlotBytes <= q + RegionBytes /\ q \in Nat
    BY <1>7, SlotFacts, ShadowConstants
  <2>2. Bytes(r, RegionBytes) \cap Bytes(q, RegionBytes) = {}
    BY <1>1, <1>7
  <2>3. r + RegionBytes <= q \/ q + RegionBytes <= r
    BY <1>2, <2>1, <2>2, BytesApart, ShadowConstants
  <2> QED BY <1>2, <2>1, <2>3, ShadowConstants
<1> QED BY <1>1, <1>2, <1>3, <1>5, <1>6, <1>7

LEMMA SlotPlace ==
  ASSUME NEW b \in Slots
  PROVE  /\ b \in Nat /\ Aligned(b) /\ b + SlotBytes <= Window
         /\ (b + SlotBytes <= GlobalAt \/ GlobalAt + GlobalPadded <= b)
         /\ (b + SlotBytes <= StackLow \/ StackTop <= b)
<1>1. PICK r \in RegionBases : b \in SlotsOf(r)
  BY SlotsIn
<1>2. b \in Nat /\ Aligned(b) /\ r <= b /\ b + SlotBytes <= r + RegionBytes
  BY <1>1, SlotFacts
<1>3. /\ r \in Nat /\ r + RegionBytes <= Window /\ G <= r
      /\ (r + RegionBytes <= GlobalAt \/ GlobalAt + GlobalPadded <= r - G)
      /\ (r + RegionBytes <= StackLow \/ StackTop <= r - G)
  BY RegionsApart
<1> QED BY <1>2, <1>3, ShadowConstants

LEMMA SlotsApart ==
  ASSUME NEW b \in Slots, NEW c \in Slots, b # c
  PROVE  b + SlotBytes <= c \/ c + SlotBytes <= b
<1>1. PICK r \in RegionBases : b \in SlotsOf(r)
  BY SlotsIn
<1>2. PICK q \in RegionBases : c \in SlotsOf(q)
  BY SlotsIn
<1>3. CASE r = q
  <2>1. PICK i \in 0..(Capacity - 1) : b = r + i * SlotBytes
    BY <1>1 DEF SlotsOf
  <2>2. PICK j \in 0..(Capacity - 1) : c = r + j * SlotBytes
    BY <1>2, <1>3 DEF SlotsOf
  <2>3. i \in Nat /\ j \in Nat /\ r \in Nat /\ i # j
    BY <2>1, <2>2, CapacityFits, ShadowConstants
  <2>4. i * SlotBytes \in Nat /\ j * SlotBytes \in Nat
    BY <2>3, ShadowConstants
  <2>5. \A k, l \in Nat : k < l => k * SlotBytes + SlotBytes <= l * SlotBytes
    <3>1. SUFFICES ASSUME NEW k \in Nat, NEW l \in Nat, k < l
                   PROVE  k * SlotBytes + SlotBytes <= l * SlotBytes
      OBVIOUS
    <3>2. l - (k + 1) \in Nat
      BY <3>1
    <3>3. (l - (k + 1)) * SlotBytes \in Nat /\ k * SlotBytes \in Nat
      BY <3>2, ShadowConstants
    <3>4. l * SlotBytes = k * SlotBytes + SlotBytes + (l - (k + 1)) * SlotBytes
      BY ShadowConstants
    <3> QED BY <3>3, <3>4, ShadowConstants
  <2>6. i * SlotBytes + SlotBytes <= j * SlotBytes \/ j * SlotBytes + SlotBytes <= i * SlotBytes
    BY <2>3, <2>5
  <2> QED BY <2>1, <2>2, <2>3, <2>4, <2>6, ShadowConstants
<1>4. CASE r # q
  <2>1. r + RegionBytes <= c \/ c + SlotBytes <= r
    BY <1>2, <1>4, RegionsApart
  <2>2. b \in Nat /\ r <= b /\ b + SlotBytes <= r + RegionBytes /\ r \in Nat
    BY <1>1, SlotFacts, ShadowConstants
  <2>3. c \in Nat
    BY SlotPlace
  <2> QED BY <2>1, <2>2, <2>3, ShadowConstants
<1> QED BY <1>3, <1>4

-----------------------------------------------------------------------------
(* Shadow values, and what a write of an object and its redzone leaves *)

LEMMA PoisonFails ==
  ASSUME NEW v \in {HeapTail, HeapFreed, Returned, StackDynamic, StackRight, UserPoison, GlobalPoison},
         NEW k
  PROVE  v \in Nat /\ ShadowPoison(v) /\ ~LastSpanned(v, k)
  BY DEF HeapTail, HeapFreed, Returned, StackDynamic, StackRight, UserPoison, GlobalPoison,
         ShadowPoison, ShadowFull, LastSpanned

LEMMA FullPasses ==
  ASSUME NEW v \in Nat, v < 128, NEW k
  PROVE  ShadowFull(v) /\ LastSpanned(v, k) /\ v # Returned
  BY DEF LastSpanned, ShadowFull, Returned

IsColor(c) == c \in Nat /\ c < 128 /\ c % 8 <= 6

LEMMA ColorIs ==
  ASSUME NEW n \in Nat
  PROVE  IsColor(Color(n))
<1> DEFINE m == (n % 111) + 1
<1>1. m \in 1..111
  OBVIOUS
<1> HIDE DEF m
<1>2. PICK q \in Nat : q = m \div 7
  BY <1>1
<1>3. PICK t \in 0..6 : t = m % 7
  BY <1>1
<1>4. m = 7 * q + t
  BY <1>1, <1>2, <1>3
<1>5. q <= 15
  BY <1>1, <1>3, <1>4
<1>6. Color(n) = q * 8 + t
  BY <1>2, <1>3 DEF Color, m
<1>7. q * 8 + t \in Nat /\ q * 8 + t < 128 /\ (q * 8 + t) % 8 = t
  BY <1>3, <1>5
<1> QED BY <1>3, <1>6, <1>7 DEF IsColor

LEMMA ZeroIsColor == IsColor(0)
  BY DEF IsColor

LEMMA HeapColorIs ==
  ASSUME NEW a \in Nat
  PROVE  IsColor(ColorOfHeap(a))
<1>1. CASE ~InArena(a)
  BY <1>1, ZeroIsColor DEF ColorOfHeap
<1>2. CASE InArena(a)
  <2> DEFINE r == CHOOSE q \in RegionAt(a) : TRUE
  <2>1. r \in RegionAt(a)
    BY <1>2 DEF InArena
  <2>2. r \in Nat /\ r <= a
    BY <2>1, ShadowConstants DEF RegionAt
  <2>3. ColorOfHeap(a) = Color((a - r) \div SlotBytes + 41 * RegionIndex(r))
    BY <1>2 DEF ColorOfHeap
  <2> HIDE DEF r
  <2>4. a - r \in Nat /\ (a - r) \div SlotBytes \in Nat
    BY <2>2, ShadowConstants
  <2>5. RegionIndex(r) \in Nat
    <3>1. IsFiniteSet(RegionBases)
      BY ShadowAssumption DEF ShadowAssumption
    <3>2. IsFiniteSet({q \in RegionBases : q < r})
      BY <3>1, FS_Subset
    <3> QED BY <3>2, FS_CardinalityType DEF RegionIndex
  <2>6. (a - r) \div SlotBytes + 41 * RegionIndex(r) \in Nat
    BY <2>4, <2>5
  <2> QED BY <2>3, <2>6, ColorIs
<1> QED BY <1>1, <1>2

LEMMA PartialIs ==
  ASSUME NEW c, IsColor(c), NEW k \in Nat, k < G
  PROVE  /\ PartialOf(c, k) \in Nat /\ ~ShadowFull(PartialOf(c, k)) /\ ~ShadowPoison(PartialOf(c, k))
         /\ ShadowBytes(PartialOf(c, k)) = k /\ PartialOf(c, k) # Returned
         /\ \A i \in Nat : LastSpanned(PartialOf(c, k), i) <=> i < k
<1> DEFINE t == c % 8
<1>1. t \in 0..6
  BY DEF IsColor
<1>2. PartialOf(c, k) = 128 + t * 16 + k
  BY DEF PartialOf
<1> HIDE DEF t
<1>3. k < 16
  BY ShadowConstants
<1> DEFINE p == 128 + t * 16 + k
<1>4. p \in Nat /\ p >= 128 /\ p < 240 /\ p % 16 = k
  BY <1>1, <1>3
<1> HIDE DEF p
<1>5. PartialOf(c, k) = p
  BY <1>2 DEF p
<1> QED BY <1>4, <1>5 DEF ShadowFull, ShadowPoison, ShadowBytes, LastSpanned, Returned

\* The value is one the encoding defines.
IsKind(v) == v \in Nat /\ (ShadowFull(v) \/ ShadowPoison(v) \/ ShadowBytes(v) < G)

\* An object of n bytes at base, and `pad` bytes of poison after its granules.
Laid(s, base, n, pad, tail, color) ==
  ShadowSet(ShadowObject(s, base, n, tail, color), base + Ceil(n), pad, tail)

Layout(base, n, pad, tail, color) ==
  /\ Aligned(base) /\ n \in Nat /\ Aligned(pad) /\ Ceil(n) + pad > 0 /\ IsColor(color)
  /\ tail \in {HeapTail, StackDynamic, StackRight, GlobalPoison}

LEMMA LaidGranule ==
  ASSUME NEW s, NEW base, NEW n, NEW pad, NEW tail, NEW color, NEW g \in Granules,
         Layout(base, n, pad, tail, color)
  PROVE  LET w == Laid(s, base, n, pad, tail, color) IN
         /\ g >= base + Ceil(n) /\ g < base + Ceil(n) + pad => w[g] = tail
         /\ g >= base /\ g + G <= base + n => w[g] = color
         /\ g >= base /\ g < base + n /\ base + n < g + G
              => w[g] = PartialOf(color, base + n - g) /\ base + n - g \in Nat /\ base + n - g < G
         /\ g < base \/ g >= base + Ceil(n) + pad => w[g] = s[g]
<1> DEFINE whole == n \div G
           rest == n % G
           last == base + whole * G
           o == ShadowObject(s, base, n, tail, color)
           w == Laid(s, base, n, pad, tail, color)
           c == Ceil(n)
<1>1. Aligned(base) /\ base \in Nat /\ n \in Nat /\ Aligned(pad) /\ pad \in Nat /\ c + pad > 0
  BY DEF Layout, Aligned
<1>2. Aligned(g) /\ g \in Nat
  BY GranulesAre DEF Aligned
<1>3. last = base + Floor(n)
  BY DEF Floor
<1>4. /\ Floor(n) \in Nat /\ Aligned(Floor(n)) /\ Floor(n) <= n /\ n < Floor(n) + G /\ rest = n - Floor(n)
  BY <1>1, FloorFacts
<1>5. c \in Nat /\ Aligned(c) /\ c = (IF rest = 0 THEN Floor(n) ELSE Floor(n) + G)
  BY <1>1, CeilFacts
<1>6. o[g] = CASE g >= base /\ g < last -> color
              [] g = last /\ rest # 0 -> PartialOf(color, rest)
              [] g = base /\ n = 0 -> tail
              [] OTHER -> s[g]
  BY DEF ShadowObject
<1>7. w[g] = IF g >= base + c /\ g < base + c + pad THEN tail ELSE o[g]
  BY DEF Laid, ShadowSet
<1> HIDE DEF w, o, last, rest, whole, c
<1>8. Aligned(base + c) /\ Aligned(last) /\ last \in Nat
  BY <1>1, <1>3, <1>4, <1>5, AlignedSums DEF Aligned
<1>9. (g < last => g + G <= last) /\ (last < g => last + G <= g)
  BY <1>2, <1>8, AlignedSums
<1>10. pad > 0 => G <= pad
  <2>1. Aligned(0) /\ 0 \in Nat
    BY ShadowConstants DEF Aligned
  <2>2. 0 < pad => 0 + G <= pad
    BY <1>1, <2>1, AlignedSums
  <2> QED BY <1>1, <2>2, ShadowConstants
<1>11. ASSUME g >= base, g + G <= base + n PROVE w[g] = color
  <2>1. g < last
    BY <1>1, <1>2, <1>3, <1>4, <1>9, <1>11, ShadowConstants
  <2>2. ~(g >= base + c)
    BY <1>1, <1>2, <1>3, <1>4, <1>5, <2>1, ShadowConstants
  <2>3. g # last /\ ~(g = base /\ n = 0)
    BY <1>1, <1>2, <1>8, <1>11, <2>1, ShadowConstants
  <2>4. o[g] = color
    BY <1>6, <1>11, <2>1, <2>3
  <2> QED BY <1>7, <2>2, <2>4
<1>12. ASSUME g >= base, g < base + n, base + n < g + G
       PROVE  w[g] = PartialOf(color, base + n - g) /\ base + n - g \in Nat /\ base + n - g < G
  <2>1. ~(g < last)
    BY <1>1, <1>2, <1>3, <1>4, <1>9, <1>12, ShadowConstants
  <2>2. g = last
    BY <1>1, <1>2, <1>3, <1>4, <1>8, <1>9, <1>12, <2>1, ShadowConstants
  <2>3. rest # 0 /\ rest = base + n - g
    BY <1>1, <1>2, <1>3, <1>4, <1>12, <2>2, ShadowConstants
  <2>4. ~(g >= base + c)
    BY <1>1, <1>2, <1>3, <1>4, <1>5, <2>2, <2>3, ShadowConstants
  <2> QED BY <1>6, <1>7, <1>12, <1>1, <1>2, <2>1, <2>2, <2>3, <2>4, ShadowConstants
<1>13. ASSUME g < base \/ g >= base + c + pad PROVE w[g] = s[g]
  <2>1. ~(g >= base + c /\ g < base + c + pad)
    BY <1>1, <1>2, <1>5, <1>13
  <2>2. ~(g >= base /\ g < last) /\ ~(g = last /\ rest # 0)
    BY <1>1, <1>2, <1>3, <1>4, <1>5, <1>13, ShadowConstants
  <2>3. ~(g = base /\ n = 0)
    BY <1>1, <1>2, <1>4, <1>5, <1>13, ShadowConstants
  <2> QED BY <1>6, <1>7, <2>1, <2>2, <2>3
<1>14. ASSUME g >= base + c, g < base + c + pad PROVE w[g] = tail
  BY <1>7, <1>14
<1> QED BY <1>11, <1>12, <1>13, <1>14 DEF w, c

\* The same byte by byte.
LEMMA LaidByte ==
  ASSUME NEW s, NEW base, NEW n, NEW pad, NEW tail, NEW color, NEW x \in Nat, x < Window,
         Layout(base, n, pad, tail, color)
  PROVE  LET v == Laid(s, base, n, pad, tail, color)[Floor(x)] IN
         /\ base <= x /\ x < base + n => LastSpanned(v, x % G) /\ v # Returned
         /\ base + n <= x /\ x < base + Ceil(n) + pad => ~LastSpanned(v, x % G) /\ v # Returned
         /\ x < base \/ x >= base + Ceil(n) + pad => v = s[Floor(x)]
<1> DEFINE g == Floor(x)
           c == Ceil(n)
           w == Laid(s, base, n, pad, tail, color)
<1>1. g \in Granules /\ g \in Nat /\ Aligned(g) /\ g <= x /\ x < g + G /\ x % G = x - g
  BY InWindowFloor, FloorFacts
<1>2. Aligned(base) /\ base \in Nat /\ n \in Nat /\ Aligned(pad) /\ pad \in Nat /\ c + pad > 0 /\ IsColor(color)
  BY DEF Layout, Aligned
<1>3. c \in Nat /\ Aligned(c) /\ n <= c /\ c < n + G
  BY <1>2, CeilFacts
<1>4. /\ g >= base + c /\ g < base + c + pad => w[g] = tail
      /\ g >= base /\ g + G <= base + n => w[g] = color
      /\ g >= base /\ g < base + n /\ base + n < g + G
              => w[g] = PartialOf(color, base + n - g) /\ base + n - g \in Nat /\ base + n - g < G
      /\ g < base \/ g >= base + c + pad => w[g] = s[g]
  BY <1>1, LaidGranule
<1>5. Aligned(base + c) /\ Aligned(base + c + pad)
  BY <1>2, <1>3, AlignedSums
<1>6. /\ (base <= x <=> base <= g) /\ (x < base <=> g < base)
      /\ (base + c <= x <=> base + c <= g) /\ (x < base + c <=> g < base + c)
      /\ (base + c + pad <= x <=> base + c + pad <= g) /\ (x < base + c + pad <=> g < base + c + pad)
  BY <1>2, <1>5, FloorIs
<1>7. color \in Nat /\ color < 128
  BY <1>2 DEF IsColor
<1>8. tail \in {HeapTail, HeapFreed, Returned, StackDynamic, StackRight, UserPoison, GlobalPoison} /\ tail # Returned
  BY DEF Layout, HeapTail, StackDynamic, StackRight, GlobalPoison, Returned
<1>9. ~LastSpanned(tail, x % G)
  BY <1>8, PoisonFails
<1> HIDE DEF g, w, c
<1>10. x % G \in Nat
  BY <1>1
<1>11. ASSUME base <= x, x < base + n PROVE LastSpanned(w[g], x % G) /\ w[g] # Returned
  <2>1. CASE g + G <= base + n
    BY <1>4, <1>6, <1>7, <1>11, <2>1, FullPasses
  <2>2. CASE base + n < g + G
    <3>1. g < base + n
      BY <1>1, <1>2, <1>11
    <3>2. w[g] = PartialOf(color, base + n - g) /\ base + n - g \in Nat /\ base + n - g < G
      BY <1>4, <1>6, <1>11, <2>2, <3>1
    <3>3. x % G < base + n - g
      BY <1>1, <1>2, <1>11
    <3> QED BY <1>2, <1>10, <3>2, <3>3, PartialIs
  <2> QED BY <1>1, <1>2, <2>1, <2>2, ShadowConstants
<1>12. ASSUME base + n <= x, x < base + c + pad PROVE ~LastSpanned(w[g], x % G) /\ w[g] # Returned
  <2>1. CASE g >= base + c
    BY <1>4, <1>6, <1>8, <1>9, <1>12, <2>1
  <2>2. CASE g < base + c
    <3>1. g + G <= base + c
      BY <1>1, <1>5, <2>2, AlignedSums
    <3>2. g < base + n /\ base <= x
      BY <1>1, <1>2, <1>3, <1>12, <3>1, ShadowConstants
    <3>3. base + n < g + G
      BY <1>1, <1>2, <1>12, ShadowConstants
    <3>4. w[g] = PartialOf(color, base + n - g) /\ base + n - g \in Nat /\ base + n - g < G
      BY <1>4, <1>6, <3>2, <3>3
    <3>5. ~(x % G < base + n - g)
      BY <1>1, <1>2, <1>12
    <3> QED BY <1>2, <1>10, <3>4, <3>5, PartialIs
  <2> QED BY <1>1, <1>2, <1>3, <2>1, <2>2
<1>13. ASSUME x < base \/ x >= base + c + pad PROVE w[g] = s[g]
  BY <1>1, <1>2, <1>3, <1>4, <1>6, <1>13
<1> QED BY <1>11, <1>12, <1>13 DEF g, w, c

LEMMA LaidKinds ==
  ASSUME NEW s, NEW base, NEW n, NEW pad, NEW tail, NEW color, NEW g \in Granules,
         Layout(base, n, pad, tail, color), IsKind(s[g])
  PROVE  IsKind(Laid(s, base, n, pad, tail, color)[g])
<1> DEFINE whole == n \div G
           rest == n % G
           last == base + whole * G
           o == ShadowObject(s, base, n, tail, color)
           w == Laid(s, base, n, pad, tail, color)
<1>1. o[g] = CASE g >= base /\ g < last -> color
              [] g = last /\ rest # 0 -> PartialOf(color, rest)
              [] g = base /\ n = 0 -> tail
              [] OTHER -> s[g]
  BY DEF ShadowObject
<1>2. w[g] = IF g >= base + Ceil(n) /\ g < base + Ceil(n) + pad THEN tail ELSE o[g]
  BY DEF Laid, ShadowSet
<1>3. rest \in Nat /\ rest < G /\ IsColor(color) /\ color \in Nat /\ color < 128
  BY ShadowConstants DEF Layout, IsColor
<1>4. IsKind(color)
  BY <1>3, FullPasses DEF IsKind
<1>5. IsKind(PartialOf(color, rest))
  BY <1>3, PartialIs DEF IsKind
<1>6. IsKind(tail)
  <2>1. tail \in {HeapTail, HeapFreed, Returned, StackDynamic, StackRight, UserPoison, GlobalPoison}
    BY DEF Layout
  <2> QED BY <2>1, PoisonFails DEF IsKind
<1> HIDE DEF o, w, rest, last, whole
<1>7. IsKind(o[g])
  BY <1>1, <1>4, <1>5, <1>6
<1>8. IsKind(w[g])
  BY <1>2, <1>6, <1>7
<1> QED BY <1>8 DEF w

-----------------------------------------------------------------------------
(* The invariant *)

FrameRecords ==
  [low : Nat, high : Nat, obj : Nat, tracked : BOOLEAN, dynamic : BOOLEAN]

\* The shadow byte alone says that x may be accessed.
GranulePasses(x) == LastSpanned(shadow[Floor(x)], x % G)

ShadowKinds ==
  /\ DOMAIN shadow = Granules
  /\ \A g \in Granules : IsKind(shadow[g])

SizesKept ==
  /\ size \in [Slots -> {Never, Dead} \cup Sizes]
  /\ committed \subseteq RegionBases /\ registered \in BOOLEAN
  /\ \A r \in RegionBases \ committed : \A b \in SlotsOf(r) : size[b] = Never

\* Where the tracked local of frame f begins.
Static(f) == f.high - Ceil(f.obj) - G

FrameFits(f) ==
  /\ Aligned(f.low) /\ Aligned(f.high)
  /\ StackLow + EntryBytes <= f.low /\ f.low < f.high /\ f.high <= StackTop
  /\ f.tracked => f.low <= Static(f) /\ (~f.dynamic => f.low = Static(f))

FramesStacked ==
  /\ frames \in Seq(FrameRecords)
  /\ \A k \in 1..Len(frames) :
        /\ FrameFits(frames[k])
        /\ frames[k].high = IF k = 1 THEN StackTop ELSE frames[k - 1].low
        /\ \A j \in 1..Len(frames) : k < j => frames[j].high <= frames[k].low

\* Stack no tracked frame has.
Quiet(g) ==
  \/ g >= StackLow /\ g < Sp
  \/ \E k \in 1..Len(frames) : ~frames[k].tracked /\ g >= frames[k].low /\ g < frames[k].high

StackClean == \A g \in Granules : Quiet(g) => shadow[g] \in {0, Returned}

Owned(x) ==
  \/ \E b \in Slots : size[b] >= 0 /\ b <= x /\ x < b + size[b]
  \/ registered /\ GlobalAt <= x /\ x < GlobalAt + GlobalSize
  \/ Sp <= x /\ x < StackTop

AllowedPass ==
  \A x \in allowed :
     /\ x \in Nat /\ x < Window /\ Owned(x)
     /\ GranulePasses(x) \/ shadow[Floor(x)] = Returned \/ x \in spoiled

DeniedFail ==
  \A x \in denied :
     /\ x \in Nat /\ x < Window /\ ~GranulePasses(x)
     /\ shadow[Floor(x)] = Returned => StackLow <= x /\ x < Sp

\* No byte is both.
Disjoint == allowed \cap denied = {}

ShadowInv ==
  ShadowKinds /\ SizesKept /\ FramesStacked /\ StackClean /\ AllowedPass /\ DeniedFail

LEMMA StackPointer ==
  ASSUME FramesStacked
  PROVE  /\ Sp \in Nat /\ Aligned(Sp) /\ StackLow <= Sp /\ Sp <= StackTop
         /\ (frames # <<>> => StackLow + EntryBytes <= Sp)
         /\ Here \in Int /\ Here = Sp - EntryBytes
         /\ Len(frames) \in Nat /\ (frames = <<>> <=> Len(frames) = 0)
         /\ \A k \in 1..Len(frames) : Sp <= frames[k].low
<1>1. frames \in Seq(FrameRecords) /\ Len(frames) \in Nat /\ (frames = <<>> <=> Len(frames) = 0)
  BY EmptySeq, LenProperties DEF FramesStacked
<1>2. ASSUME NEW k \in 1..Len(frames)
      PROVE  /\ frames[k].low \in Nat /\ frames[k].high \in Nat /\ Aligned(frames[k].low)
             /\ StackLow + EntryBytes <= frames[k].low /\ frames[k].low < frames[k].high
             /\ frames[k].high <= StackTop
             /\ \A j \in 1..Len(frames) : k < j => frames[j].high <= frames[k].low
  BY DEF FramesStacked, FrameFits, Aligned
<1>3. CASE frames = <<>>
  <2>1. Sp = StackTop
    BY <1>3 DEF Sp
  <2> QED BY <1>1, <1>3, <2>1, ShadowConstants, AlignedConstants DEF Here
<1>4. CASE frames # <<>>
  <2> DEFINE n == Len(frames)
  <2>1. n \in 1..Len(frames) /\ Sp = frames[n].low
    BY <1>1, <1>4 DEF Sp
  <2>2. ASSUME NEW k \in 1..Len(frames) PROVE Sp <= frames[k].low
    <3>1. CASE k = n
      BY <1>2, <2>1, <3>1
    <3>2. CASE k < n
      <4>1. frames[n].high <= frames[k].low
        BY <1>2, <2>1, <3>2
      <4> QED BY <1>2, <2>1, <4>1
    <3> QED BY <1>1, <2>2, <3>1, <3>2
  <2>3. /\ frames[n].low \in Nat /\ frames[n].high \in Nat /\ Aligned(frames[n].low)
        /\ StackLow + EntryBytes <= frames[n].low /\ frames[n].low < frames[n].high
        /\ frames[n].high <= StackTop
    BY <1>2, <2>1
  <2> QED BY <1>1, <1>4, <2>1, <2>2, <2>3, ShadowConstants DEF Here
<1> QED BY <1>3, <1>4

LEMMA QuietInStack ==
  ASSUME FramesStacked, NEW g \in Granules, Quiet(g)
  PROVE  g \in Nat /\ StackLow <= g /\ g < StackTop
<1>1. g \in Nat
  BY GranulesAre DEF Aligned
<1>2. CASE g >= StackLow /\ g < Sp
  BY <1>1, <1>2, StackPointer, ShadowConstants
<1>3. CASE \E k \in 1..Len(frames) : ~frames[k].tracked /\ g >= frames[k].low /\ g < frames[k].high
  <2>1. PICK k \in 1..Len(frames) : g >= frames[k].low /\ g < frames[k].high
    BY <1>3
  <2>2. /\ frames[k].low \in Nat /\ frames[k].high \in Nat
        /\ StackLow + EntryBytes <= frames[k].low /\ frames[k].high <= StackTop
    BY DEF FramesStacked, FrameFits, Aligned
  <2> QED BY <1>1, <2>1, <2>2, ShadowConstants
<1> QED BY <1>2, <1>3 DEF Quiet

\* A step that leaves the stack alone.
LEMMA StackKept ==
  ASSUME FramesStacked, StackClean, UNCHANGED frames,
         \A g \in Granules : StackLow <= g /\ g < StackTop
            => shadow'[g] \in {shadow[g], 0}
  PROVE  FramesStacked' /\ StackClean' /\ Sp' = Sp
<1>1. FramesStacked' /\ Sp' = Sp /\ \A g : Quiet(g)' <=> Quiet(g)
  BY DEF FramesStacked, Sp, Quiet
<1>2. ASSUME NEW g \in Granules, Quiet(g)' PROVE shadow'[g] \in {0, Returned}
  <2>1. Quiet(g) /\ shadow[g] \in {0, Returned}
    BY <1>1, <1>2 DEF StackClean
  <2>2. StackLow <= g /\ g < StackTop
    BY <2>1, QuietInStack
  <2> QED BY <2>1, <2>2
<1> QED BY <1>1, <1>2 DEF StackClean

LEMMA LiveSize ==
  ASSUME SizesKept, NEW c \in Slots, size[c] >= 0
  PROVE  size[c] \in Nat /\ size[c] < SlotBytes /\ c \in Nat
<1>1. size[c] \in {Never, Dead} \cup Sizes
  BY DEF SizesKept
<1>2. size[c] # Never /\ size[c] # Dead
  BY DEF Never, Dead
<1>3. size[c] \in Sizes
  BY <1>1, <1>2
<1> QED BY <1>3, ShadowConstants, SlotPlace

\* A byte of a slot is no byte of another, of the global or of the stack.
LEMMA OwnedElsewhere ==
  ASSUME FramesStacked, SizesKept, NEW x \in Nat, Owned(x), NEW b \in Slots, ~(size[b] >= 0)
  PROVE  x < b \/ b + SlotBytes <= x
<1>1. /\ b \in Nat /\ b + SlotBytes <= Window
      /\ (b + SlotBytes <= GlobalAt \/ GlobalAt + GlobalPadded <= b)
      /\ (b + SlotBytes <= StackLow \/ StackTop <= b)
  BY SlotPlace
<1>2. CASE \E c \in Slots : size[c] >= 0 /\ c <= x /\ x < c + size[c]
  <2>1. PICK c \in Slots : size[c] >= 0 /\ c <= x /\ x < c + size[c]
    BY <1>2
  <2>2. size[c] \in Nat /\ size[c] < SlotBytes /\ c \in Nat
    BY <2>1, LiveSize
  <2>3. b + SlotBytes <= c \/ c + SlotBytes <= b
    BY <2>1, SlotsApart
  <2> QED BY <1>1, <2>1, <2>2, <2>3, ShadowConstants
<1>3. CASE registered /\ GlobalAt <= x /\ x < GlobalAt + GlobalSize
  BY <1>1, <1>3, ShadowConstants
<1>4. CASE Sp <= x /\ x < StackTop
  BY <1>1, <1>4, StackPointer, ShadowConstants
<1> QED BY <1>2, <1>3, <1>4 DEF Owned

LEMMA OwnedOutside ==
  ASSUME FramesStacked, SizesKept, NEW x \in Nat, Owned(x), NEW r \in RegionBases \ committed
  PROVE  x < r \/ r + RegionBytes <= x
<1>1. /\ r \in Nat /\ G <= r /\ r + RegionBytes <= Window
      /\ (r + RegionBytes <= GlobalAt \/ GlobalAt + GlobalPadded <= r - G)
      /\ (r + RegionBytes <= StackLow \/ StackTop <= r - G)
      /\ \A q \in RegionBases \ {r} : \A b \in SlotsOf(q) :
            r + RegionBytes <= b \/ b + SlotBytes <= r
  BY RegionsApart
<1>2. CASE \E c \in Slots : size[c] >= 0 /\ c <= x /\ x < c + size[c]
  <2>1. PICK c \in Slots : size[c] >= 0 /\ c <= x /\ x < c + size[c]
    BY <1>2
  <2>2. size[c] \in Nat /\ size[c] < SlotBytes /\ c \in Nat
    BY <2>1, LiveSize
  <2>3. PICK q \in RegionBases : c \in SlotsOf(q)
    BY SlotsIn
  <2>4. q # r
    BY <2>1, <2>3 DEF SizesKept, Never
  <2>5. r + RegionBytes <= c \/ c + SlotBytes <= r
    BY <1>1, <2>3, <2>4
  <2> QED BY <1>1, <2>1, <2>2, <2>5, ShadowConstants
<1>3. CASE registered /\ GlobalAt <= x /\ x < GlobalAt + GlobalSize
  BY <1>1, <1>3, ShadowConstants
<1>4. CASE Sp <= x /\ x < StackTop
  BY <1>1, <1>4, StackPointer, ShadowConstants
<1> QED BY <1>2, <1>3, <1>4 DEF Owned

-----------------------------------------------------------------------------
(* The heap's steps *)

\* t is s but for the bytes from low to high, whose shadow is v.
SetTo(t, s, low, high, v, x) ==
  t[Floor(x)] = IF low <= x /\ x < high THEN v ELSE s[Floor(x)]

LEMMA SetByte ==
  ASSUME NEW s, NEW base, Aligned(base), NEW n, Aligned(n), NEW v, NEW x \in Nat, x < Window
  PROVE  SetTo(ShadowSet(s, base, n, v), s, base, base + n, v, x)
<1>1. Floor(x) \in Granules
  BY InWindowFloor
<1>2. base \in Nat /\ n \in Nat /\ Aligned(base + n)
  BY AlignedSums DEF Aligned
<1>3. (base <= x <=> base <= Floor(x)) /\ (x < base + n <=> Floor(x) < base + n)
  BY <1>2, FloorIs
<1> QED BY <1>1, <1>2, <1>3, FloorFacts DEF ShadowSet, SetTo

LEMMA GranuleByte ==
  ASSUME NEW g \in Granules
  PROVE  g \in Nat /\ g < Window /\ Floor(g) = g
  BY GranulesAre, FloorFacts DEF Aligned

LEMMA PlainG == Aligned(G) /\ G \in Nat
  BY ShadowConstants, AlignedIs, 1 \in Nat, G = G * 1

LEMMA CommitByte ==
  ASSUME NEW s, NEW r \in RegionBases, NEW b \in SlotsOf(r), NEW x \in Nat, x < Window
  PROVE  /\ Commit(s, r)[Floor(x)] \in {s[Floor(x)], HeapTail}
         /\ x < r - G \/ r + RegionBytes <= x => Commit(s, r)[Floor(x)] = s[Floor(x)]
<1> DEFINE n == IF SlotBytes <= TailLimit THEN RegionBytes ELSE TailLimit
           t == ShadowSet(s, r, n, HeapTail)
<1>1. SlotBytes <= RegionBytes
  BY SlotFacts
<1>2. n \in Nat /\ Aligned(n) /\ n <= RegionBytes
  BY <1>1, ShadowConstants, AlignedConstants
<1>3. r \in Nat /\ Aligned(r) /\ Aligned(r - G) /\ G <= r
  BY RegionsApart
<1>4. SetTo(t, s, r, r + n, HeapTail, x)
  BY <1>2, <1>3, SetByte
<1>5. Commit(s, r) = ShadowSet(t, r - G, G, HeapTail)
  BY DEF Commit
<1> HIDE DEF t, n
<1>6. SetTo(Commit(s, r), t, r - G, r - G + G, HeapTail, x)
  BY <1>3, <1>5, PlainG, SetByte
<1> QED BY <1>2, <1>3, <1>4, <1>6, ShadowConstants DEF SetTo

LEMMA MallocLayout ==
  ASSUME NEW b \in Slots, NEW n \in Sizes
  PROVE  /\ Layout(b, n, Min({SlotBytes - Ceil(n), TailLimit}), HeapTail, ColorOfHeap(b))
         /\ Ceil(n) \in Nat /\ n <= Ceil(n) /\ Ceil(n) <= SlotBytes /\ n \in Nat /\ n < SlotBytes
         /\ Min({SlotBytes - Ceil(n), TailLimit}) \in Nat
         /\ Min({SlotBytes - Ceil(n), TailLimit}) <= SlotBytes - Ceil(n)
         /\ Min({SlotBytes - n, Ceil(n) - n + TailLimit}) \in Nat
         /\ b + n + Min({SlotBytes - n, Ceil(n) - n + TailLimit})
              = b + Ceil(n) + Min({SlotBytes - Ceil(n), TailLimit})
<1> DEFINE c == Ceil(n)
<1>1. n \in Nat /\ n < SlotBytes /\ Aligned(c) /\ c \in Nat /\ n <= c /\ c < n + G
      /\ SlotBytes \in Nat /\ TailLimit \in Nat \ {0} /\ G \in Nat
  BY ShadowConstants, CeilFacts
<1> HIDE DEF c
<1>2. c <= SlotBytes
  <2>1. SlotBytes < c => SlotBytes + G <= c
    BY <1>1, AlignedConstants, AlignedSums
  <2> QED BY <1>1, <2>1
<1>3. Min({SlotBytes - c, TailLimit}) = IF SlotBytes - c <= TailLimit THEN SlotBytes - c ELSE TailLimit
  BY <1>1, <1>2, LesserIs
<1>4. Min({SlotBytes - n, c - n + TailLimit})
        = IF SlotBytes - n <= c - n + TailLimit THEN SlotBytes - n ELSE c - n + TailLimit
  BY <1>1, LesserIs
<1>5. Aligned(SlotBytes - c) /\ Aligned(TailLimit)
  BY <1>1, <1>2, AlignedConstants, AlignedSums
<1> DEFINE p == Min({SlotBytes - c, TailLimit})
<1>6. p \in Nat /\ Aligned(p) /\ p <= SlotBytes - c /\ c + p > 0
  BY <1>1, <1>2, <1>3, <1>5
<1>7. b \in Nat /\ Aligned(b)
  BY SlotPlace
<1>8. /\ Min({SlotBytes - n, c - n + TailLimit}) \in Nat
      /\ b + n + Min({SlotBytes - n, c - n + TailLimit}) = b + c + p
  BY <1>1, <1>2, <1>3, <1>4, <1>7
<1>9. IsColor(ColorOfHeap(b))
  BY <1>7, HeapColorIs
<1> QED BY <1>1, <1>2, <1>6, <1>7, <1>8, <1>9 DEF Layout, c

LEMMA MallocInv ==
  ASSUME ShadowInv, NEW r \in RegionBases, NEW b \in Slots, NEW n \in Sizes, Malloc(r, b, n)
  PROVE  ShadowInv'
<1> DEFINE s == IF r \in committed THEN shadow ELSE Commit(shadow, r)
           c == Ceil(n)
           p == Min({SlotBytes - c, TailLimit})
           w == Laid(s, b, n, p, HeapTail, ColorOfHeap(b))
<1>1. /\ ShadowKinds /\ SizesKept /\ FramesStacked /\ StackClean /\ AllowedPass /\ DeniedFail
  BY DEF ShadowInv
<1>sp. \A x \in spoiled : shadow'[Floor(x)] = shadow[Floor(x)] => x \in spoiled'
  BY DEF Malloc, Spoil
<1>2. /\ b \in SlotsOf(r) /\ size[b] \in {Never, Dead} /\ shadow' = w
      /\ committed' = committed \cup {r} /\ size' = [size EXCEPT ![b] = n]
      /\ UNCHANGED <<registered, frames>>
  BY DEF Malloc, ShadowLive, Laid
<1> DEFINE now == Bytes(b, n)
           not == Bytes(b + n, Min({SlotBytes - n, c - n + TailLimit}))
<1>3. allowed' = (allowed \ not) \cup now /\ denied' = (denied \ now) \cup not
  BY DEF Malloc, Allow
<1>4. /\ Layout(b, n, p, HeapTail, ColorOfHeap(b))
      /\ c \in Nat /\ n <= c /\ c <= SlotBytes /\ n \in Nat /\ n < SlotBytes /\ p \in Nat /\ p <= SlotBytes - c
      /\ Min({SlotBytes - n, c - n + TailLimit}) \in Nat
      /\ b + n + Min({SlotBytes - n, c - n + TailLimit}) = b + c + p
  BY MallocLayout
<1>5. /\ b \in Nat /\ Aligned(b) /\ b + SlotBytes <= Window
      /\ (b + SlotBytes <= GlobalAt \/ GlobalAt + GlobalPadded <= b)
      /\ (b + SlotBytes <= StackLow \/ StackTop <= b)
  BY SlotPlace
<1>6. /\ r \in Nat /\ G <= r /\ (r + RegionBytes <= StackLow \/ StackTop <= r - G)
      /\ r <= b /\ b + SlotBytes <= r + RegionBytes
  BY <1>2, RegionsApart, SlotFacts
<1>7. \A x \in Int : (x \in now <=> b <= x /\ x < b + n) /\ (x \in not <=> b + n <= x /\ x < b + c + p)
  <2> DEFINE m == Min({SlotBytes - n, c - n + TailLimit})
  <2>1. m \in Nat /\ b + n + m = b + c + p
    BY <1>4
  <2> HIDE DEF m
  <2>2. not = (b + n)..(b + n + m - 1)
    BY DEF Bytes, m
  <2> HIDE DEF not
  <2> QED BY <1>4, <1>5, <2>1, <2>2 DEF Bytes
<1>8. now \subseteq Int /\ not \subseteq Int
  BY DEF Bytes
<1>9. \A x \in Nat : x < Window =>
         /\ s[Floor(x)] \in {shadow[Floor(x)], HeapTail}
         /\ r \in committed \/ x < r - G \/ r + RegionBytes <= x => s[Floor(x)] = shadow[Floor(x)]
  BY <1>2, CommitByte
<1>10. \A x \in Nat : x < Window =>
         /\ b <= x /\ x < b + n => LastSpanned(w[Floor(x)], x % G) /\ w[Floor(x)] # Returned
         /\ b + n <= x /\ x < b + c + p => ~LastSpanned(w[Floor(x)], x % G) /\ w[Floor(x)] # Returned
         /\ x < b \/ x >= b + c + p => w[Floor(x)] = s[Floor(x)]
  BY <1>4, LaidByte
<1>11. ~(size[b] >= 0)
  BY <1>2 DEF Never, Dead
<1> HIDE DEF s, c, p, w, now, not
<1>12. ASSUME NEW g \in Granules PROVE IsKind(w[g])
  <2>1. g \in Nat /\ g < Window /\ Floor(g) = g
    BY GranuleByte
  <2>2. IsKind(shadow[g]) /\ s[g] \in {shadow[g], HeapTail}
    BY <1>1, <1>9, <2>1 DEF ShadowKinds
  <2>3. IsKind(s[g])
    BY <2>2, PoisonFails DEF IsKind
  <2> QED BY <1>4, <2>3, LaidKinds DEF w
<1>13. ShadowKinds'
  <2>1. DOMAIN w = Granules
    BY DEF w, Laid, ShadowSet
  <2> QED BY <1>2, <1>12, <2>1 DEF ShadowKinds
<1>14. SizesKept'
  <2>1. size' \in [Slots -> {Never, Dead} \cup Sizes] /\ \A d \in Slots : d # b => size'[d] = size[d]
    BY <1>1, <1>2 DEF SizesKept
  <2>2. ASSUME NEW q \in RegionBases \ committed', NEW d \in SlotsOf(q) PROVE size'[d] = Never
    <3>1. q \in RegionBases \ committed /\ q # r /\ size[d] = Never
      BY <1>1, <1>2, <2>2 DEF SizesKept
    <3>2. d \in Slots /\ d \in Nat
      BY <2>2, SlotFacts
    <3>3. d # b
      <4>1. q + RegionBytes <= b \/ b + SlotBytes <= q
        BY <1>2, <3>1, RegionsApart
      <4>2. q <= d /\ d + SlotBytes <= q + RegionBytes /\ q \in Nat
        BY <2>2, SlotFacts, ShadowConstants
      <4> QED BY <1>5, <3>2, <4>1, <4>2, ShadowConstants
    <3> QED BY <2>1, <3>1, <3>2, <3>3
  <2> QED BY <1>1, <1>2, <2>1, <2>2 DEF SizesKept
<1>15. \A g \in Granules : StackLow <= g /\ g < StackTop => shadow'[g] = shadow[g]
  <2>1. SUFFICES ASSUME NEW g \in Granules, StackLow <= g, g < StackTop PROVE w[g] = shadow[g]
    BY <1>2
  <2>2. g \in Nat /\ g < Window /\ Floor(g) = g
    BY GranuleByte
  <2>3. w[g] = s[g]
    <3>1. g < b \/ g >= b + c + p
      BY <1>4, <1>5, <2>1, <2>2, ShadowConstants
    <3> QED BY <1>10, <2>2, <3>1
  <2>4. g < r - G \/ r + RegionBytes <= g
    BY <1>6, <2>1, <2>2, ShadowConstants
  <2> QED BY <1>9, <2>2, <2>3, <2>4
<1>16. FramesStacked' /\ StackClean' /\ Sp' = Sp
  BY <1>1, <1>2, <1>15, StackKept
<1>17. ASSUME NEW x \in Nat, Owned(x) PROVE Owned(x)'
  <2>1. \A d \in Slots : size[d] >= 0 => size'[d] = size[d]
    BY <1>1, <1>2, <1>11 DEF SizesKept
  <2> QED BY <1>2, <1>16, <1>17, <2>1 DEF Owned
<1>18. AllowedPass'
  <2>1. SUFFICES ASSUME NEW x \in allowed'
                 PROVE  x \in Nat /\ x < Window /\ Owned(x)' /\ (LastSpanned(w[Floor(x)], x % G) \/ w[Floor(x)] = Returned \/ x \in spoiled')
    BY <1>2 DEF AllowedPass, GranulePasses
  <2>2. CASE x \in now
    <3>1. x \in Int /\ b <= x /\ x < b + n
      BY <1>7, <1>8, <2>2
    <3>2. x \in Nat /\ x < Window
      BY <1>4, <1>5, <3>1, ShadowConstants
    <3>3. size'[b] = n
      BY <1>1, <1>2 DEF SizesKept
    <3>4. Owned(x)'
      BY <1>4, <3>1, <3>3 DEF Owned
    <3> QED BY <1>10, <3>1, <3>2, <3>4
  <2>3. CASE x \in allowed
    <3>1. x \in Nat /\ x < Window /\ Owned(x) /\ (GranulePasses(x) \/ shadow[Floor(x)] = Returned \/ x \in spoiled)
      BY <1>1, <2>3 DEF AllowedPass
    <3>2. x < b \/ b + SlotBytes <= x
      BY <1>1, <1>11, <3>1, OwnedElsewhere
    <3>3. w[Floor(x)] = s[Floor(x)]
      BY <1>4, <1>5, <1>10, <3>1, <3>2, ShadowConstants
    <3>4. CASE ~(r \in committed) /\ r - G <= x /\ x < r
      <4>1. x \in Bytes(r - G, G)
        BY <1>6, <3>1, <3>4, ShadowConstants DEF Bytes
      <4>2. x \in spoiled'
        BY <2>3, <3>4, <4>1 DEF Malloc, Spoil
      <4> QED BY <1>17, <3>1, <4>2
    <3>5. CASE r \in committed \/ ~(r - G <= x /\ x < r)
      <4>1. r \in committed \/ x < r - G \/ r + RegionBytes <= x
        BY <1>1, <1>6, <3>1, <3>5, OwnedOutside, ShadowConstants
      <4>2. s[Floor(x)] = shadow[Floor(x)]
        BY <1>9, <3>1, <4>1
      <4> QED BY <1>sp, <1>2, <1>17, <3>1, <3>3, <4>2 DEF GranulePasses
    <3> QED BY <3>4, <3>5
  <2> QED BY <1>3, <2>1, <2>2, <2>3
<1>19. DeniedFail'
  <2>1. SUFFICES ASSUME NEW x \in denied'
                 PROVE  /\ x \in Nat /\ x < Window /\ ~LastSpanned(w[Floor(x)], x % G)
                        /\ w[Floor(x)] = Returned => StackLow <= x /\ x < Sp
    BY <1>2, <1>16 DEF DeniedFail, GranulePasses
  <2>2. CASE x \in not
    <3>1. x \in Int /\ b + n <= x /\ x < b + c + p
      BY <1>7, <1>8, <2>2
    <3>2. x \in Nat /\ x < Window
      BY <1>4, <1>5, <3>1, ShadowConstants
    <3> QED BY <1>10, <3>1, <3>2
  <2>3. CASE x \in denied /\ x \notin now /\ x \notin not
    <3>1. /\ x \in Nat /\ x < Window /\ ~GranulePasses(x)
          /\ shadow[Floor(x)] = Returned => StackLow <= x /\ x < Sp
      BY <1>1, <2>3 DEF DeniedFail
    <3>2. x < b \/ x >= b + c + p
      BY <1>4, <1>5, <1>7, <2>3, <3>1
    <3>3. w[Floor(x)] = s[Floor(x)] /\ s[Floor(x)] \in {shadow[Floor(x)], HeapTail}
      BY <1>9, <1>10, <3>1, <3>2
    <3>4. ~LastSpanned(HeapTail, x % G) /\ HeapTail # Returned
      BY PoisonFails DEF HeapTail, Returned
    <3> QED BY <3>1, <3>3, <3>4 DEF GranulePasses
  <2> QED BY <1>3, <2>1, <2>2, <2>3
<1> QED BY <1>13, <1>14, <1>16, <1>18, <1>19 DEF ShadowInv

LEMMA SetKinds ==
  ASSUME NEW s, NEW base, NEW n, NEW v, IsKind(v), NEW g \in Granules, IsKind(s[g])
  PROVE  IsKind(ShadowSet(s, base, n, v)[g])
  BY DEF ShadowSet

LEMMA FreeSlotInv ==
  ASSUME ShadowInv, NEW b \in Slots, FreeSlot(b)
  PROVE  ShadowInv'
<1> DEFINE w == ShadowSet(shadow, b, SlotBytes, HeapFreed)
<1>1. /\ ShadowKinds /\ SizesKept /\ FramesStacked /\ StackClean /\ AllowedPass /\ DeniedFail
  BY DEF ShadowInv
<1>sp. \A x \in spoiled : shadow'[Floor(x)] = shadow[Floor(x)] => x \in spoiled'
  BY DEF FreeSlot, Spoil
<1>2. /\ size[b] >= 0 /\ shadow' = w /\ size' = [size EXCEPT ![b] = Dead]
      /\ UNCHANGED <<committed, registered, frames>>
  BY DEF FreeSlot, ShadowDead
<1>3. allowed' = allowed \ Bytes(b, SlotBytes) /\ denied' = denied \cup Bytes(b, SlotBytes)
  BY DEF FreeSlot, Allow
<1>4. /\ b \in Nat /\ Aligned(b) /\ b + SlotBytes <= Window
      /\ (b + SlotBytes <= StackLow \/ StackTop <= b)
  BY SlotPlace
<1>5. \A x \in Int : x \in Bytes(b, SlotBytes) <=> b <= x /\ x < b + SlotBytes
  BY <1>4, ShadowConstants DEF Bytes
<1>6. \A x \in Nat : x < Window =>
         w[Floor(x)] = IF b <= x /\ x < b + SlotBytes THEN HeapFreed ELSE shadow[Floor(x)]
  <2>1. Aligned(SlotBytes)
    BY AlignedConstants
  <2>2. SUFFICES ASSUME NEW x \in Nat, x < Window
                 PROVE  SetTo(w, shadow, b, b + SlotBytes, HeapFreed, x)
    BY DEF SetTo
  <2>3. Aligned(b)
    BY <1>4
  <2> QED BY <2>1, <2>2, <2>3, SetByte
<1>7. \A k : ~LastSpanned(HeapFreed, k) /\ HeapFreed # Returned /\ IsKind(HeapFreed)
  BY PoisonFails DEF HeapFreed, Returned, IsKind
<1>8. ShadowKinds'
  <2>1. DOMAIN w = Granules /\ \A g \in Granules : IsKind(w[g])
    BY <1>1, <1>7, SetKinds DEF ShadowKinds, ShadowSet
  <2> QED BY <1>2, <2>1 DEF ShadowKinds
<1> HIDE DEF w
<1>9. SizesKept'
  <2>1. size' \in [Slots -> {Never, Dead} \cup Sizes] /\ \A d \in Slots : d # b => size'[d] = size[d]
    BY <1>1, <1>2 DEF SizesKept
  <2>2. ASSUME NEW q \in RegionBases \ committed, NEW d \in SlotsOf(q) PROVE size'[d] = Never
    <3>1. size[d] = Never /\ d \in Slots
      BY <1>1, <2>2, SlotFacts DEF SizesKept
    <3>2. d # b
      BY <1>2, <3>1 DEF Never
    <3> QED BY <2>1, <3>1, <3>2
  <2> QED BY <1>1, <1>2, <2>1, <2>2 DEF SizesKept
<1>10. \A g \in Granules : StackLow <= g /\ g < StackTop => shadow'[g] = shadow[g]
  <2>1. SUFFICES ASSUME NEW g \in Granules, StackLow <= g, g < StackTop PROVE w[g] = shadow[g]
    BY <1>2
  <2>2. g \in Nat /\ g < Window /\ Floor(g) = g
    BY GranuleByte
  <2> QED BY <1>4, <1>6, <2>1, <2>2, ShadowConstants
<1>11. FramesStacked' /\ StackClean' /\ Sp' = Sp
  BY <1>1, <1>2, <1>10, StackKept
<1>12. AllowedPass'
  <2>1. SUFFICES ASSUME NEW x \in allowed'
                 PROVE  x \in Nat /\ x < Window /\ Owned(x)' /\ (LastSpanned(w[Floor(x)], x % G) \/ w[Floor(x)] = Returned \/ x \in spoiled')
    BY <1>2 DEF AllowedPass, GranulePasses
  <2>2. x \in Nat /\ x < Window /\ Owned(x) /\ (GranulePasses(x) \/ shadow[Floor(x)] = Returned \/ x \in spoiled)
    BY <1>1, <1>3 DEF AllowedPass
  <2>3. ~(b <= x /\ x < b + SlotBytes)
    BY <1>3, <1>5, <2>2
  <2>4. w[Floor(x)] = shadow[Floor(x)]
    BY <1>6, <2>2, <2>3
  <2>5. Owned(x)'
    <3>1. CASE \E d \in Slots : size[d] >= 0 /\ d <= x /\ x < d + size[d]
      <4>1. PICK d \in Slots : size[d] >= 0 /\ d <= x /\ x < d + size[d]
        BY <3>1
      <4>2. size[d] \in Nat /\ size[d] < SlotBytes /\ d \in Nat
        BY <1>1, <4>1, LiveSize
      <4>3. d # b
        BY <1>4, <2>2, <2>3, <4>1, <4>2, ShadowConstants
      <4>4. size'[d] = size[d]
        BY <1>1, <1>2, <4>3 DEF SizesKept
      <4> QED BY <4>1, <4>4 DEF Owned
    <3>2. CASE registered /\ GlobalAt <= x /\ x < GlobalAt + GlobalSize
      BY <1>2, <3>2 DEF Owned
    <3>3. CASE Sp <= x /\ x < StackTop
      BY <1>11, <3>3 DEF Owned
    <3> QED BY <2>2, <3>1, <3>2, <3>3 DEF Owned
  <2> QED BY <1>sp, <1>2, <2>2, <2>4, <2>5 DEF GranulePasses
<1>13. DeniedFail'
  <2>1. SUFFICES ASSUME NEW x \in denied'
                 PROVE  /\ x \in Nat /\ x < Window /\ ~LastSpanned(w[Floor(x)], x % G)
                        /\ w[Floor(x)] = Returned => StackLow <= x /\ x < Sp
    BY <1>2, <1>11 DEF DeniedFail, GranulePasses
  <2>2. CASE x \in Bytes(b, SlotBytes)
    <3>1. x \in Int
      BY <2>2 DEF Bytes
    <3>2. b <= x /\ x < b + SlotBytes
      BY <1>5, <2>2, <3>1
    <3>3. x \in Nat /\ x < Window
      BY <1>4, <3>1, <3>2, ShadowConstants
    <3> QED BY <1>6, <1>7, <3>2, <3>3
  <2>3. CASE x \in denied
    <3>1. /\ x \in Nat /\ x < Window /\ ~GranulePasses(x)
          /\ shadow[Floor(x)] = Returned => StackLow <= x /\ x < Sp
      BY <1>1, <2>3 DEF DeniedFail
    <3> QED BY <1>6, <1>7, <3>1 DEF GranulePasses
  <2> QED BY <1>3, <2>1, <2>2, <2>3
<1> QED BY <1>8, <1>9, <1>11, <1>12, <1>13 DEF ShadowInv

LEMMA ReturnOnBlockInv ==
  ASSUME ShadowInv, Disjoint, NEW b \in Slots, ReturnOnBlock(b)
  PROVE  ShadowInv'
<1> DEFINE w == ShadowSet(shadow, b, G, Returned)
<1>1. /\ ShadowKinds /\ SizesKept /\ FramesStacked /\ StackClean /\ AllowedPass /\ DeniedFail
  BY DEF ShadowInv
<1>sp. \A x \in spoiled : shadow'[Floor(x)] = shadow[Floor(x)] => x \in spoiled'
  BY DEF ReturnOnBlock, Spoil
<1>2. /\ size[b] >= G /\ Bytes(b, G) \subseteq allowed /\ shadow' = w
      /\ UNCHANGED <<size, committed, registered, frames, allowed, denied>>
  BY DEF ReturnOnBlock
<1>3. /\ b \in Nat /\ Aligned(b) /\ b + SlotBytes <= Window
      /\ (b + SlotBytes <= StackLow \/ StackTop <= b)
  BY SlotPlace
<1>4. G < SlotBytes
  <2>1. size[b] \in {Never, Dead} \cup Sizes
    BY <1>1 DEF SizesKept
  <2>2. size[b] \in Sizes
    BY <1>2, <2>1, ShadowConstants DEF Never, Dead
  <2>3. size[b] \in Nat /\ size[b] < SlotBytes
    BY <2>2, ShadowConstants
  <2> QED BY <1>2, <2>3, ShadowConstants
<1>5. \A x \in Nat : x < Window =>
         w[Floor(x)] = IF b <= x /\ x < b + G THEN Returned ELSE shadow[Floor(x)]
  <2>1. SUFFICES ASSUME NEW x \in Nat, x < Window
                 PROVE  SetTo(w, shadow, b, b + G, Returned, x)
    BY DEF SetTo
  <2>2. Aligned(b)
    BY <1>3
  <2>3. Aligned(G)
    BY PlainG
  <2> QED BY <2>1, <2>2, <2>3, SetByte
<1>6. \A k : ~LastSpanned(Returned, k) /\ IsKind(Returned)
  BY PoisonFails DEF IsKind
<1>7. ShadowKinds'
  <2>1. DOMAIN w = Granules /\ \A g \in Granules : IsKind(w[g])
    BY <1>1, <1>6, SetKinds DEF ShadowKinds, ShadowSet
  <2> QED BY <1>2, <2>1 DEF ShadowKinds
<1> HIDE DEF w
<1>8. SizesKept'
  BY <1>1, <1>2 DEF SizesKept
<1>9. \A g \in Granules : StackLow <= g /\ g < StackTop => shadow'[g] = shadow[g]
  <2>1. SUFFICES ASSUME NEW g \in Granules, StackLow <= g, g < StackTop PROVE w[g] = shadow[g]
    BY <1>2
  <2>2. g \in Nat /\ g < Window /\ Floor(g) = g
    BY GranuleByte
  <2> QED BY <1>3, <1>4, <1>5, <2>1, <2>2, ShadowConstants
<1>10. FramesStacked' /\ StackClean' /\ Sp' = Sp
  BY <1>1, <1>2, <1>9, StackKept
<1>11. AllowedPass'
  <2>1. SUFFICES ASSUME NEW x \in allowed
                 PROVE  x \in Nat /\ x < Window /\ Owned(x)' /\ (LastSpanned(w[Floor(x)], x % G) \/ w[Floor(x)] = Returned \/ x \in spoiled')
    BY <1>2 DEF AllowedPass, GranulePasses
  <2>2. x \in Nat /\ x < Window /\ Owned(x) /\ (GranulePasses(x) \/ shadow[Floor(x)] = Returned \/ x \in spoiled)
    BY <1>1 DEF AllowedPass
  <2>3. Owned(x)'
    BY <1>2, <1>10, <2>2 DEF Owned
  <2> QED BY <1>sp, <1>2, <1>5, <2>2, <2>3 DEF GranulePasses
<1>12. DeniedFail'
  <2>1. SUFFICES ASSUME NEW x \in denied
                 PROVE  /\ x \in Nat /\ x < Window /\ ~LastSpanned(w[Floor(x)], x % G)
                        /\ w[Floor(x)] = Returned => StackLow <= x /\ x < Sp
    BY <1>2, <1>10 DEF DeniedFail, GranulePasses
  <2>2. /\ x \in Nat /\ x < Window /\ ~GranulePasses(x)
        /\ shadow[Floor(x)] = Returned => StackLow <= x /\ x < Sp
    BY <1>1 DEF DeniedFail
  <2>3. ~(b <= x /\ x < b + G)
    <3>1. SUFFICES ASSUME b <= x, x < b + G PROVE FALSE
      OBVIOUS
    <3>2. x \in allowed
      BY <1>2, <1>3, <2>2, <3>1, ShadowConstants DEF Bytes
    <3> QED BY <2>1, <3>2 DEF Disjoint
  <2> QED BY <1>5, <2>2, <2>3 DEF GranulePasses
<1> QED BY <1>7, <1>8, <1>10, <1>11, <1>12 DEF ShadowInv

-----------------------------------------------------------------------------
(* The global *)

LEMMA ClearByte ==
  ASSUME NEW s, NEW low, Aligned(low), NEW high, Aligned(high), NEW x \in Nat, x < Window
  PROVE  SetTo(ShadowClear(s, low, high), s, low, high, 0, x)
<1>1. Floor(x) \in Granules /\ Floor(x) \in Nat
  BY InWindowFloor
<1>2. low \in Nat /\ high \in Nat /\ Floor(low) = low
  BY FloorFacts DEF Aligned
<1>3. (low <= x <=> low <= Floor(x)) /\ (x < high <=> Floor(x) < high)
  BY FloorIs
<1> QED BY <1>1, <1>2, <1>3 DEF ShadowClear, SetTo

LEMMA ClearKinds ==
  ASSUME NEW s, NEW low, NEW high, NEW g \in Granules, IsKind(s[g])
  PROVE  IsKind(ShadowClear(s, low, high)[g])
<1>1. IsKind(0)
  BY FullPasses DEF IsKind
<1> QED BY <1>1 DEF ShadowClear

LEMMA GlobalFacts ==
  /\ Layout(GlobalAt, GlobalSize, GlobalPadded - Ceil(GlobalSize), GlobalPoison, Color(0))
  /\ Ceil(GlobalSize) \in Nat /\ GlobalSize <= Ceil(GlobalSize) /\ Ceil(GlobalSize) <= GlobalPadded
  /\ (GlobalAt + GlobalPadded <= StackLow \/ StackTop <= GlobalAt)
<1> DEFINE c == Ceil(GlobalSize)
<1>1. Aligned(c) /\ c \in Nat /\ GlobalSize <= c /\ c < GlobalSize + G
  BY ShadowConstants, CeilFacts
<1> HIDE DEF c
<1>2. c <= GlobalPadded
  <2>1. GlobalPadded < c => GlobalPadded + G <= c
    BY <1>1, AlignedConstants, AlignedSums
  <2> QED BY <1>1, <2>1, ShadowConstants
<1>3. Aligned(GlobalPadded - c) /\ c + (GlobalPadded - c) > 0
  <2>1. Aligned(GlobalPadded)
    BY AlignedConstants
  <2>2. Aligned(GlobalPadded - c)
    BY <1>1, <1>2, <2>1, AlignedSums
  <2> QED BY <1>1, <1>2, <2>2, ShadowConstants
<1>4. GlobalAt + GlobalPadded <= StackLow \/ StackTop <= GlobalAt
  <2>1. StackTop - StackLow \in Nat \ {0} /\ StackLow + (StackTop - StackLow) = StackTop
    BY ShadowConstants
  <2>2. Bytes(GlobalAt, GlobalPadded) \cap Bytes(StackLow, StackTop - StackLow) = {}
    BY PlacesAssumption DEF PlacesAssumption
  <2> QED BY <2>1, <2>2, BytesApart, ShadowConstants
<1> QED BY <1>1, <1>2, <1>3, <1>4, ColorIs, AlignedConstants, ShadowConstants DEF Layout, c

\* A byte of a slot or of the stack is none of the global.
LEMMA OwnedNotGlobal ==
  ASSUME FramesStacked, SizesKept, NEW x \in Nat, Owned(x), ~registered
  PROVE  x < GlobalAt \/ GlobalAt + GlobalPadded <= x
<1>1. CASE \E c \in Slots : size[c] >= 0 /\ c <= x /\ x < c + size[c]
  <2>1. PICK c \in Slots : size[c] >= 0 /\ c <= x /\ x < c + size[c]
    BY <1>1
  <2>2. size[c] \in Nat /\ size[c] < SlotBytes /\ c \in Nat
    BY <2>1, LiveSize
  <2>3. c + SlotBytes <= GlobalAt \/ GlobalAt + GlobalPadded <= c
    BY SlotPlace
  <2> QED BY <2>1, <2>2, <2>3, ShadowConstants
<1>2. CASE Sp <= x /\ x < StackTop
  BY <1>2, GlobalFacts, StackPointer, ShadowConstants
<1> QED BY <1>1, <1>2 DEF Owned

LEMMA RegisterInv ==
  ASSUME ShadowInv, GlobalsRegister
  PROVE  ShadowInv'
<1> DEFINE c == Ceil(GlobalSize)
           p == GlobalPadded - c
           w == Laid(shadow, GlobalAt, GlobalSize, p, GlobalPoison, Color(0))
           now == Bytes(GlobalAt, GlobalSize)
           not == Bytes(GlobalAt + GlobalSize, GlobalPadded - GlobalSize)
<1>1. /\ ShadowKinds /\ SizesKept /\ FramesStacked /\ StackClean /\ AllowedPass /\ DeniedFail
  BY DEF ShadowInv
<1>sp. \A x \in spoiled : shadow'[Floor(x)] = shadow[Floor(x)] => x \in spoiled'
  BY DEF GlobalsRegister, Spoil
<1>2. /\ ~registered /\ shadow' = w /\ registered' = TRUE
      /\ UNCHANGED <<size, committed, frames>>
  BY DEF GlobalsRegister, Laid
<1>3. allowed' = (allowed \ not) \cup now /\ denied' = (denied \ now) \cup not
  BY DEF GlobalsRegister, Allow
<1>4. /\ Layout(GlobalAt, GlobalSize, p, GlobalPoison, Color(0))
      /\ c \in Nat /\ GlobalSize <= c /\ c <= GlobalPadded
      /\ (GlobalAt + GlobalPadded <= StackLow \/ StackTop <= GlobalAt)
  BY GlobalFacts
<1>5. \A x \in Int : /\ (x \in now <=> GlobalAt <= x /\ x < GlobalAt + GlobalSize)
                     /\ (x \in not <=> GlobalAt + GlobalSize <= x /\ x < GlobalAt + GlobalPadded)
  BY ShadowConstants DEF Bytes
<1>6. now \subseteq Int /\ not \subseteq Int
  BY DEF Bytes
<1>7. GlobalAt + c + p = GlobalAt + GlobalPadded
  BY <1>4, ShadowConstants
<1>8. \A x \in Nat : x < Window =>
         /\ GlobalAt <= x /\ x < GlobalAt + GlobalSize => LastSpanned(w[Floor(x)], x % G) /\ w[Floor(x)] # Returned
         /\ GlobalAt + GlobalSize <= x /\ x < GlobalAt + c + p => ~LastSpanned(w[Floor(x)], x % G) /\ w[Floor(x)] # Returned
         /\ x < GlobalAt \/ x >= GlobalAt + c + p => w[Floor(x)] = shadow[Floor(x)]
  BY <1>4, LaidByte
<1>9. ShadowKinds'
  <2>1. DOMAIN w = Granules
    BY DEF Laid, ShadowSet
  <2>2. \A g \in Granules : IsKind(w[g])
    BY <1>1, <1>4, LaidKinds DEF ShadowKinds
  <2> HIDE DEF w
  <2> QED BY <1>2, <2>1, <2>2 DEF ShadowKinds
<1> HIDE DEF c, p, w, now, not
<1>10. SizesKept'
  BY <1>1, <1>2 DEF SizesKept
<1>11. \A g \in Granules : StackLow <= g /\ g < StackTop => shadow'[g] = shadow[g]
  <2>1. SUFFICES ASSUME NEW g \in Granules, StackLow <= g, g < StackTop PROVE w[g] = shadow[g]
    BY <1>2
  <2>2. g \in Nat /\ g < Window /\ Floor(g) = g
    BY GranuleByte
  <2>3. g < GlobalAt \/ g >= GlobalAt + c + p
    BY <1>4, <1>7, <2>1, <2>2, ShadowConstants
  <2> QED BY <1>8, <2>2, <2>3
<1>12. FramesStacked' /\ StackClean' /\ Sp' = Sp
  BY <1>1, <1>2, <1>11, StackKept
<1>13. AllowedPass'
  <2>1. SUFFICES ASSUME NEW x \in allowed'
                 PROVE  x \in Nat /\ x < Window /\ Owned(x)' /\ (LastSpanned(w[Floor(x)], x % G) \/ w[Floor(x)] = Returned \/ x \in spoiled')
    BY <1>2 DEF AllowedPass, GranulePasses
  <2>2. CASE x \in now
    <3>1. x \in Int /\ GlobalAt <= x /\ x < GlobalAt + GlobalSize
      BY <1>5, <1>6, <2>2
    <3>2. x \in Nat /\ x < Window
      BY <3>1, ShadowConstants
    <3>3. Owned(x)'
      BY <1>2, <3>1 DEF Owned
    <3> QED BY <1>8, <3>1, <3>2, <3>3
  <2>3. CASE x \in allowed
    <3>1. x \in Nat /\ x < Window /\ Owned(x) /\ (GranulePasses(x) \/ shadow[Floor(x)] = Returned \/ x \in spoiled)
      BY <1>1, <2>3 DEF AllowedPass
    <3>2. x < GlobalAt \/ GlobalAt + GlobalPadded <= x
      BY <1>1, <1>2, <3>1, OwnedNotGlobal
    <3>3. w[Floor(x)] = shadow[Floor(x)]
      BY <1>7, <1>8, <3>1, <3>2, ShadowConstants
    <3>4. Owned(x)'
      BY <1>2, <1>12, <3>1 DEF Owned
    <3> QED BY <1>sp, <1>2, <3>1, <3>3, <3>4 DEF GranulePasses
  <2> QED BY <1>3, <2>1, <2>2, <2>3
<1>14. DeniedFail'
  <2>1. SUFFICES ASSUME NEW x \in denied'
                 PROVE  /\ x \in Nat /\ x < Window /\ ~LastSpanned(w[Floor(x)], x % G)
                        /\ w[Floor(x)] = Returned => StackLow <= x /\ x < Sp
    BY <1>2, <1>12 DEF DeniedFail, GranulePasses
  <2>2. CASE x \in not
    <3>1. x \in Int /\ GlobalAt + GlobalSize <= x /\ x < GlobalAt + c + p
      BY <1>5, <1>6, <1>7, <2>2
    <3>2. x \in Nat /\ x < Window
      BY <1>7, <3>1, ShadowConstants
    <3> QED BY <1>8, <3>1, <3>2
  <2>3. CASE x \in denied /\ x \notin now /\ x \notin not
    <3>1. /\ x \in Nat /\ x < Window /\ ~GranulePasses(x)
          /\ shadow[Floor(x)] = Returned => StackLow <= x /\ x < Sp
      BY <1>1, <2>3 DEF DeniedFail
    <3>2. x < GlobalAt \/ x >= GlobalAt + c + p
      BY <1>5, <1>7, <2>3, <3>1, ShadowConstants
    <3> QED BY <1>8, <3>1, <3>2 DEF GranulePasses
  <2> QED BY <1>3, <2>1, <2>2, <2>3
<1> QED BY <1>9, <1>10, <1>12, <1>13, <1>14 DEF ShadowInv

LEMMA UnregisterInv ==
  ASSUME ShadowInv, GlobalsUnregister
  PROVE  ShadowInv'
<1> DEFINE h == GlobalAt + GlobalPadded
           w == ShadowClear(shadow, GlobalAt, h)
<1>1. /\ ShadowKinds /\ SizesKept /\ FramesStacked /\ StackClean /\ AllowedPass /\ DeniedFail
  BY DEF ShadowInv
<1>sp. \A x \in spoiled : shadow'[Floor(x)] = shadow[Floor(x)] => x \in spoiled'
  BY DEF GlobalsUnregister, Spoil
<1>2. /\ shadow' = w /\ registered' = FALSE
      /\ UNCHANGED <<size, committed, frames>>
      /\ allowed' = allowed \ Bytes(GlobalAt, GlobalPadded)
      /\ denied' = denied \ Bytes(GlobalAt, GlobalPadded)
  BY DEF GlobalsUnregister
<1>3. \A x \in Int : x \in Bytes(GlobalAt, GlobalPadded) <=> GlobalAt <= x /\ x < h
  BY ShadowConstants DEF Bytes
<1>4. Aligned(GlobalAt) /\ Aligned(h) /\ h \in Nat
  <2>1. Aligned(GlobalAt) /\ Aligned(GlobalPadded)
    BY AlignedConstants
  <2>2. Aligned(GlobalAt + GlobalPadded)
    BY <2>1, AlignedSums
  <2> QED BY <2>1, <2>2, ShadowConstants
<1>5. \A x \in Nat : x < Window => w[Floor(x)] = IF GlobalAt <= x /\ x < h THEN 0 ELSE shadow[Floor(x)]
  <2>1. SUFFICES ASSUME NEW x \in Nat, x < Window
                 PROVE  SetTo(w, shadow, GlobalAt, h, 0, x)
    BY DEF SetTo
  <2> HIDE DEF h
  <2> QED BY <1>4, <2>1, ClearByte
<1>6. ShadowKinds'
  <2>1. DOMAIN w = Granules
    BY DEF ShadowClear
  <2>2. \A g \in Granules : IsKind(w[g])
    BY <1>1, ClearKinds DEF ShadowKinds
  <2> HIDE DEF w
  <2> QED BY <1>2, <2>1, <2>2 DEF ShadowKinds
<1> HIDE DEF w
<1>7. SizesKept'
  BY <1>1, <1>2 DEF SizesKept
<1>8. \A g \in Granules : StackLow <= g /\ g < StackTop => shadow'[g] = shadow[g]
  <2>1. SUFFICES ASSUME NEW g \in Granules, StackLow <= g, g < StackTop PROVE w[g] = shadow[g]
    BY <1>2
  <2>2. g \in Nat /\ g < Window /\ Floor(g) = g
    BY GranuleByte
  <2> QED BY <1>5, <2>1, <2>2, GlobalFacts, ShadowConstants
<1>9. FramesStacked' /\ StackClean' /\ Sp' = Sp
  BY <1>1, <1>2, <1>8, StackKept
<1>10. AllowedPass'
  <2>1. SUFFICES ASSUME NEW x \in allowed'
                 PROVE  x \in Nat /\ x < Window /\ Owned(x)' /\ (LastSpanned(w[Floor(x)], x % G) \/ w[Floor(x)] = Returned \/ x \in spoiled')
    BY <1>2 DEF AllowedPass, GranulePasses
  <2>2. x \in Nat /\ x < Window /\ Owned(x) /\ (GranulePasses(x) \/ shadow[Floor(x)] = Returned \/ x \in spoiled)
    BY <1>1, <1>2 DEF AllowedPass
  <2>3. ~(GlobalAt <= x /\ x < h)
    BY <1>2, <1>3, <2>2
  <2>4. ~(GlobalAt <= x /\ x < GlobalAt + GlobalSize)
    BY <2>2, <2>3, ShadowConstants
  <2>5. Owned(x)'
    BY <1>2, <1>9, <2>2, <2>4 DEF Owned
  <2> QED BY <1>sp, <1>2, <1>5, <2>2, <2>3, <2>5 DEF GranulePasses
<1>11. DeniedFail'
  <2>1. SUFFICES ASSUME NEW x \in denied'
                 PROVE  /\ x \in Nat /\ x < Window /\ ~LastSpanned(w[Floor(x)], x % G)
                        /\ w[Floor(x)] = Returned => StackLow <= x /\ x < Sp
    BY <1>2, <1>9 DEF DeniedFail, GranulePasses
  <2>2. /\ x \in Nat /\ x < Window /\ ~GranulePasses(x)
        /\ shadow[Floor(x)] = Returned => StackLow <= x /\ x < Sp
    BY <1>1, <1>2 DEF DeniedFail
  <2>3. ~(GlobalAt <= x /\ x < h)
    BY <1>2, <1>3, <2>2
  <2> QED BY <1>5, <2>2, <2>3 DEF GranulePasses
<1> QED BY <1>6, <1>7, <1>9, <1>10, <1>11 DEF ShadowInv

-----------------------------------------------------------------------------
(* The stack's steps *)

\* What a step that lowers the stack pointer to low leaves quiet.
Lowered(low) ==
  /\ FramesStacked' /\ Sp' = low
  /\ \A g \in Granules : Quiet(g)' => Quiet(g) /\ (g < low \/ Sp <= g \/ ~frames'[Len(frames')].tracked)

LEMMA PushFrame ==
  ASSUME FramesStacked, NEW f \in FrameRecords, FrameFits(f), f.high = Sp,
         frames' = Append(frames, f)
  PROVE  Lowered(f.low) /\ frames'[Len(frames')] = f
<1> DEFINE n == Len(frames)
<1>1. /\ Sp \in Nat /\ n \in Nat /\ (frames = <<>> <=> n = 0) /\ Sp <= StackTop
      /\ \A k \in 1..n : Sp <= frames[k].low
  BY StackPointer
<1>2. frames \in Seq(FrameRecords)
  BY DEF FramesStacked
<1>3. /\ frames' \in Seq(FrameRecords) /\ Len(frames') = n + 1 /\ frames'[n + 1] = f
      /\ \A i \in 1..n : frames'[i] = frames[i]
  BY <1>2, AppendProperties
<1>4. Sp' = f.low
  BY <1>1, <1>3 DEF Sp
<1>5. f.low \in Nat /\ f.high \in Nat /\ StackLow + EntryBytes <= f.low /\ f.low < f.high
  BY DEF FrameRecords, FrameFits
<1>6. ASSUME NEW k \in 1..Len(frames')
      PROVE  /\ FrameFits(frames'[k])
             /\ frames'[k].high = IF k = 1 THEN StackTop ELSE frames'[k - 1].low
             /\ \A j \in 1..Len(frames') : k < j => frames'[j].high <= frames'[k].low
  <2>1. CASE k = n + 1
    <3>1. FrameFits(frames'[k]) /\ frames'[k].high = Sp
      BY <1>3, <2>1
    <3>2. CASE n = 0
      BY <1>1, <1>3, <2>1, <3>1, <3>2 DEF Sp
    <3>3. CASE n # 0
      <4>1. n \in 1..n /\ k - 1 = n /\ k # 1
        BY <1>1, <2>1, <3>3
      <4>2. Sp = frames[n].low /\ frames'[n] = frames[n]
        BY <1>1, <1>3, <3>3, <4>1 DEF Sp
      <4> QED BY <1>1, <1>3, <2>1, <3>1, <4>1, <4>2
    <3> QED BY <3>2, <3>3
  <2>2. CASE k \in 1..n
    <3>1. /\ FrameFits(frames[k])
          /\ frames[k].high = IF k = 1 THEN StackTop ELSE frames[k - 1].low
          /\ \A j \in 1..n : k < j => frames[j].high <= frames[k].low
      BY <2>2 DEF FramesStacked
    <3>2. frames'[k] = frames[k] /\ (k # 1 => frames'[k - 1] = frames[k - 1])
      BY <1>1, <1>3, <2>2
    <3>3. ASSUME NEW j \in 1..Len(frames'), k < j PROVE frames'[j].high <= frames'[k].low
      <4>1. CASE j = n + 1
        BY <1>1, <1>3, <2>2, <3>2, <4>1
      <4>2. CASE j \in 1..n
        BY <1>3, <3>1, <3>2, <3>3, <4>2
      <4> QED BY <1>1, <1>3, <4>1, <4>2
    <3> QED BY <3>1, <3>2, <3>3
  <2> QED BY <1>1, <1>3, <2>1, <2>2
<1>7. FramesStacked'
  BY <1>3, <1>6 DEF FramesStacked
<1>8. ASSUME NEW g \in Granules, Quiet(g)'
      PROVE  Quiet(g) /\ (g < f.low \/ Sp <= g \/ ~f.tracked)
  <2>1. g \in Nat
    BY GranulesAre DEF Aligned
  <2>2. CASE g >= StackLow /\ g < Sp'
    BY <1>1, <1>4, <1>5, <2>1, <2>2 DEF Quiet
  <2>3. CASE \E k \in 1..Len(frames') : ~frames'[k].tracked /\ g >= frames'[k].low /\ g < frames'[k].high
    <3>1. PICK k \in 1..Len(frames') : ~frames'[k].tracked /\ g >= frames'[k].low /\ g < frames'[k].high
      BY <2>3
    <3>2. CASE k = n + 1
      <4>1. ~f.tracked /\ g >= f.low /\ g < Sp
        BY <1>3, <3>1, <3>2
      <4> QED BY <1>5, <2>1, <4>1, ShadowConstants DEF Quiet
    <3>3. CASE k \in 1..n
      <4>1. frames[k] \in FrameRecords
        BY <1>2, <3>3
      <4>2. frames'[k] = frames[k] /\ Sp <= frames[k].low /\ frames[k].low \in Nat
        BY <1>1, <1>3, <3>3, <4>1 DEF FrameRecords
      <4> QED BY <1>1, <2>1, <3>1, <3>3, <4>2 DEF Quiet
    <3> QED BY <1>1, <1>3, <3>2, <3>3
  <2> QED BY <1>8, <2>2, <2>3 DEF Quiet
<1>9. frames'[Len(frames')] = f
  BY <1>3
<1> QED BY <1>4, <1>7, <1>8, <1>9 DEF Lowered

\* An object laid out at the new end of the stack.
LEMMA StackLaid ==
  ASSUME ShadowInv, NEW low \in Nat, NEW n, NEW pad, NEW tail, NEW color,
         Layout(low, n, pad, tail, color), StackLow <= low, low + Ceil(n) + pad = Sp,
         Lowered(low), frames'[Len(frames')].tracked,
         shadow' = Laid(shadow, low, n, pad, tail, color),
         allowed' = (allowed \ Bytes(low + n, Sp - low - n)) \cup Bytes(low, n),
         denied' = (denied \ Bytes(low, n)) \cup Bytes(low + n, Sp - low - n),
         Spoil({}), UNCHANGED <<size, committed, registered>>
  PROVE  ShadowInv'
<1> DEFINE w == Laid(shadow, low, n, pad, tail, color)
           now == Bytes(low, n)
           not == Bytes(low + n, Sp - low - n)
<1>1. /\ ShadowKinds /\ SizesKept /\ FramesStacked /\ StackClean /\ AllowedPass /\ DeniedFail
  BY DEF ShadowInv
<1>sp. \A x \in spoiled : shadow'[Floor(x)] = shadow[Floor(x)] => x \in spoiled'
  BY DEF Spoil
<1>2. n \in Nat /\ pad \in Nat /\ Ceil(n) \in Nat /\ n <= Ceil(n) /\ Sp \in Nat /\ Sp <= StackTop
  BY <1>1, StackPointer, CeilFacts DEF Layout, Aligned
<1>3. /\ FramesStacked' /\ Sp' = low
      /\ \A g \in Granules : Quiet(g)' => Quiet(g) /\ (g < low \/ Sp <= g)
  BY DEF Lowered
<1>4. \A x \in Int : (x \in now <=> low <= x /\ x < low + n) /\ (x \in not <=> low + n <= x /\ x < Sp)
  BY <1>2 DEF Bytes
<1>5. now \subseteq Int /\ not \subseteq Int
  BY DEF Bytes
<1>6. \A x \in Nat : x < Window =>
         /\ low <= x /\ x < low + n => LastSpanned(w[Floor(x)], x % G) /\ w[Floor(x)] # Returned
         /\ low + n <= x /\ x < Sp => ~LastSpanned(w[Floor(x)], x % G) /\ w[Floor(x)] # Returned
         /\ x < low \/ x >= Sp => w[Floor(x)] = shadow[Floor(x)]
  <2>1. SUFFICES ASSUME NEW x \in Nat, x < Window
                 PROVE  /\ low <= x /\ x < low + n => LastSpanned(w[Floor(x)], x % G) /\ w[Floor(x)] # Returned
                        /\ low + n <= x /\ x < low + Ceil(n) + pad
                             => ~LastSpanned(w[Floor(x)], x % G) /\ w[Floor(x)] # Returned
                        /\ x < low \/ x >= low + Ceil(n) + pad => w[Floor(x)] = shadow[Floor(x)]
    OBVIOUS
  <2> QED BY <2>1, LaidByte
<1>7. ShadowKinds'
  <2>1. DOMAIN w = Granules
    BY DEF Laid, ShadowSet
  <2>2. \A g \in Granules : IsKind(w[g])
    BY <1>1, LaidKinds DEF ShadowKinds
  <2> HIDE DEF w
  <2> QED BY <2>1, <2>2 DEF ShadowKinds, w
<1>8. shadow' = w /\ allowed' = (allowed \ not) \cup now /\ denied' = (denied \ now) \cup not
  OBVIOUS
<1> HIDE DEF w, now, not
<1>9. SizesKept'
  BY <1>1 DEF SizesKept
<1>10. StackClean'
  <2>1. SUFFICES ASSUME NEW g \in Granules, Quiet(g)' PROVE w[g] \in {0, Returned}
    BY <1>8 DEF StackClean
  <2>2. g \in Nat /\ g < Window /\ Floor(g) = g
    BY GranuleByte
  <2>3. w[g] = shadow[g]
    BY <1>2, <1>3, <1>6, <2>1, <2>2
  <2> QED BY <1>1, <1>3, <2>1, <2>3 DEF StackClean
<1>11. AllowedPass'
  <2>1. SUFFICES ASSUME NEW x \in allowed'
                 PROVE  x \in Nat /\ x < Window /\ Owned(x)' /\ (LastSpanned(w[Floor(x)], x % G) \/ w[Floor(x)] = Returned \/ x \in spoiled')
    BY <1>8 DEF AllowedPass, GranulePasses
  <2>2. CASE x \in now
    <3>1. x \in Int /\ low <= x /\ x < low + n
      BY <1>4, <1>5, <2>2
    <3>2. x \in Nat /\ x < Window /\ x < StackTop
      BY <1>2, <3>1, ShadowConstants
    <3>3. Owned(x)'
      BY <1>3, <3>1, <3>2 DEF Owned
    <3> QED BY <1>6, <3>1, <3>2, <3>3
  <2>3. CASE x \in allowed /\ x \notin now /\ x \notin not
    <3>1. x \in Nat /\ x < Window /\ Owned(x) /\ (GranulePasses(x) \/ shadow[Floor(x)] = Returned \/ x \in spoiled)
      BY <1>1, <2>3 DEF AllowedPass
    <3>2. x < low \/ x >= Sp
      BY <1>2, <1>4, <2>3, <3>1
    <3>3. w[Floor(x)] = shadow[Floor(x)]
      BY <1>6, <3>1, <3>2
    <3>4. Owned(x)'
      <4>1. Sp <= x => low <= x
        BY <1>2, <3>1
      <4> QED BY <1>3, <3>1, <4>1 DEF Owned
    <3>5. x \in spoiled => x \in spoiled'
      BY <1>sp, <1>8, <3>3
    <3> QED BY <3>1, <3>3, <3>4, <3>5 DEF GranulePasses
  <2> QED BY <1>8, <2>1, <2>2, <2>3
<1>12. DeniedFail'
  <2>1. SUFFICES ASSUME NEW x \in denied'
                 PROVE  /\ x \in Nat /\ x < Window /\ ~LastSpanned(w[Floor(x)], x % G)
                        /\ w[Floor(x)] = Returned => StackLow <= x /\ x < low
    BY <1>3, <1>8 DEF DeniedFail, GranulePasses
  <2>2. CASE x \in not
    <3>1. x \in Int /\ low + n <= x /\ x < Sp
      BY <1>4, <1>5, <2>2
    <3>2. x \in Nat /\ x < Window
      BY <1>2, <3>1, ShadowConstants
    <3> QED BY <1>6, <3>1, <3>2
  <2>3. CASE x \in denied /\ x \notin now /\ x \notin not
    <3>1. /\ x \in Nat /\ x < Window /\ ~GranulePasses(x)
          /\ shadow[Floor(x)] = Returned => StackLow <= x /\ x < Sp
      BY <1>1, <2>3 DEF DeniedFail
    <3>2. x < low \/ x >= Sp
      BY <1>2, <1>4, <2>3, <3>1
    <3>3. w[Floor(x)] = shadow[Floor(x)]
      BY <1>6, <3>1, <3>2
    <3> QED BY <1>2, <3>1, <3>2, <3>3 DEF GranulePasses
  <2> QED BY <1>8, <2>1, <2>2, <2>3
<1> QED BY <1>3, <1>7, <1>9, <1>10, <1>11, <1>12 DEF ShadowInv

LEMMA EnterTrackedInv ==
  ASSUME ShadowInv, NEW m \in Sizes, EnterTracked(m)
  PROVE  ShadowInv'
<1> DEFINE c == Ceil(m)
           low == Sp - c - G
           f == [low |-> low, high |-> Sp, obj |-> m, tracked |-> TRUE, dynamic |-> FALSE]
<1>1. FramesStacked
  BY DEF ShadowInv
<1>2. Sp \in Nat /\ Aligned(Sp) /\ Sp <= StackTop /\ StackLow <= Sp /\ Len(frames) \in Nat
  BY <1>1, StackPointer
<1>3. m \in Nat /\ Aligned(c) /\ c \in Nat /\ m <= c
  BY ShadowConstants, CeilFacts
<1>4. /\ low - EntryBytes >= StackLow /\ m > 0
      /\ shadow' = Laid(shadow, low, m, G, StackRight, FrameColor(Len(frames)))
      /\ frames' = Append(frames, f)
      /\ allowed' = (allowed \ Bytes(low + m, Sp - low - m)) \cup Bytes(low, m)
      /\ denied' = (denied \ Bytes(low, m)) \cup Bytes(low + m, Sp - low - m)
      /\ Spoil({}) /\ UNCHANGED <<size, committed, registered>>
  BY DEF EnterTracked, Allow, Laid
<1> HIDE DEF c
<1>5. low \in Nat /\ low < Sp /\ StackLow + EntryBytes <= low /\ low + c + G = Sp
  BY <1>2, <1>3, <1>4, ShadowConstants
<1>6. Aligned(low)
  <2>1. Aligned(c + G) /\ c + G <= Sp
    BY <1>2, <1>3, <1>5, PlainG, AlignedSums, ShadowConstants
  <2>2. Aligned(Sp - (c + G))
    BY <1>2, <1>3, <2>1, AlignedSums, ShadowConstants
  <2>3. low = Sp - (c + G)
    BY <1>2, <1>3, ShadowConstants
  <2> QED BY <2>2, <2>3
<1> HIDE DEF low
<1>7. f \in FrameRecords /\ f.low = low /\ f.high = Sp /\ f.obj = m /\ f.tracked
  BY <1>2, <1>3, <1>5 DEF FrameRecords
<1>8. FrameFits(f)
  <2>1. Static(f) = low
    BY <1>7 DEF Static, low, c
  <2> HIDE DEF f
  <2> QED BY <1>2, <1>5, <1>6, <1>7, <2>1, ShadowConstants DEF FrameFits
<1> HIDE DEF f
<1>9. Lowered(low) /\ frames'[Len(frames')].tracked
  BY <1>1, <1>4, <1>7, <1>8, PushFrame
<1>10. Layout(low, m, G, StackRight, FrameColor(Len(frames)))
  <2>1. IsColor(FrameColor(Len(frames)))
    BY <1>2, ColorIs DEF FrameColor
  <2>2. Ceil(m) + G > 0
    BY <1>3, ShadowConstants DEF c
  <2> QED BY <1>3, <1>6, <2>1, <2>2, PlainG DEF Layout
<1>11. low + Ceil(m) + G = Sp /\ StackLow <= low
  BY <1>5, ShadowConstants DEF c
<1> QED BY <1>4, <1>5, <1>9, <1>10, <1>11, StackLaid

LEMMA EnterUntrackedInv ==
  ASSUME ShadowInv, EnterUntracked
  PROVE  ShadowInv'
<1> DEFINE low == Sp - 2 * G
           f == [low |-> low, high |-> Sp, obj |-> 0, tracked |-> FALSE, dynamic |-> FALSE]
<1>1. /\ ShadowKinds /\ SizesKept /\ FramesStacked /\ StackClean /\ AllowedPass /\ DeniedFail
  BY DEF ShadowInv
<1>sp. \A x \in spoiled : shadow'[Floor(x)] = shadow[Floor(x)] => x \in spoiled'
  BY DEF EnterUntracked, Spoil
<1>2. Sp \in Nat /\ Aligned(Sp) /\ Sp <= StackTop /\ StackLow <= Sp
  BY <1>1, StackPointer
<1>3. /\ low - EntryBytes >= StackLow
      /\ frames' = Append(frames, f)
      /\ allowed' = (allowed \ {}) \cup Bytes(low, 2 * G)
      /\ denied' = (denied \ Bytes(low, 2 * G)) \cup {}
      /\ UNCHANGED <<shadow, size, committed, registered, spoiled>>
  BY DEF EnterUntracked, Allow
<1>4. low \in Nat /\ low < Sp /\ StackLow + EntryBytes <= low
  BY <1>2, <1>3, ShadowConstants
<1>5. Aligned(low)
  <2>1. Aligned(G + G) /\ G + G <= Sp
    BY <1>2, <1>4, PlainG, AlignedSums, ShadowConstants
  <2>2. Aligned(Sp - (G + G))
    BY <1>2, <2>1, AlignedSums
  <2>3. low = Sp - (G + G)
    BY <1>2, ShadowConstants
  <2> QED BY <2>2, <2>3
<1>6. \A x \in Int : x \in Bytes(low, 2 * G) <=> low <= x /\ x < Sp
  BY <1>2, ShadowConstants DEF Bytes
<1>7. Bytes(low, 2 * G) \subseteq Int
  BY DEF Bytes
<1> HIDE DEF low
<1>8. f \in FrameRecords /\ f.low = low /\ f.high = Sp /\ ~f.tracked
  BY <1>2, <1>4 DEF FrameRecords
<1>9. FrameFits(f)
  <2> HIDE DEF f
  <2> QED BY <1>2, <1>4, <1>5, <1>8 DEF FrameFits
<1> HIDE DEF f
<1>10. FramesStacked' /\ Sp' = low /\ \A g \in Granules : Quiet(g)' => Quiet(g)
  BY <1>1, <1>3, <1>8, <1>9, PushFrame DEF Lowered
<1>11. ShadowKinds' /\ SizesKept' /\ StackClean'
  BY <1>1, <1>3, <1>10 DEF ShadowKinds, SizesKept, StackClean
<1>12. AllowedPass'
  <2>1. SUFFICES ASSUME NEW x \in allowed'
                 PROVE  x \in Nat /\ x < Window /\ Owned(x)' /\ (GranulePasses(x) \/ shadow[Floor(x)] = Returned \/ x \in spoiled')
    BY <1>3 DEF AllowedPass, GranulePasses
  <2>2. CASE x \in Bytes(low, 2 * G)
    <3>1. x \in Int /\ low <= x /\ x < Sp
      BY <1>6, <1>7, <2>2
    <3>2. x \in Nat /\ x < Window /\ x < StackTop
      BY <1>2, <1>4, <3>1, ShadowConstants
    <3>3. Owned(x)'
      BY <1>10, <3>1, <3>2 DEF Owned
    <3>4. Quiet(Floor(x)) /\ Floor(x) \in Granules
      <4>1. low <= Floor(x) /\ Floor(x) < Sp /\ Floor(x) \in Nat
        BY <1>2, <1>5, <3>1, <3>2, FloorIs, FloorFacts
      <4>2. Floor(x) >= StackLow
        BY <1>4, <4>1, ShadowConstants
      <4> QED BY <3>2, <4>1, <4>2, InWindowFloor DEF Quiet
    <3>5. shadow[Floor(x)] \in {0, Returned}
      BY <1>1, <3>4 DEF StackClean
    <3>6. LastSpanned(0, x % G)
      BY FullPasses
    <3> QED BY <1>sp, <1>2, <3>2, <3>3, <3>5, <3>6 DEF GranulePasses
  <2>3. CASE x \in allowed
    <3>1. x \in Nat /\ x < Window /\ Owned(x) /\ (GranulePasses(x) \/ shadow[Floor(x)] = Returned \/ x \in spoiled)
      BY <1>1, <2>3 DEF AllowedPass
    <3>2. Sp <= x => low <= x
      BY <1>2, <1>4, <3>1
    <3>3. Owned(x)'
      BY <1>3, <1>10, <3>1, <3>2 DEF Owned
    <3> QED BY <1>3, <3>1, <3>3 DEF GranulePasses
  <2> QED BY <1>3, <2>1, <2>2, <2>3
<1>13. DeniedFail'
  <2>1. SUFFICES ASSUME NEW x \in denied'
                 PROVE  /\ x \in Nat /\ x < Window /\ ~GranulePasses(x)
                        /\ shadow[Floor(x)] = Returned => StackLow <= x /\ x < low
    BY <1>3, <1>10 DEF DeniedFail, GranulePasses
  <2>2. /\ x \in Nat /\ x < Window /\ ~GranulePasses(x)
        /\ shadow[Floor(x)] = Returned => StackLow <= x /\ x < Sp
    BY <1>1, <1>3 DEF DeniedFail
  <2>3. ~(low <= x /\ x < Sp)
    BY <1>3, <1>6, <2>2
  <2> QED BY <1>4, <2>2, <2>3
<1> QED BY <1>10, <1>11, <1>12, <1>13 DEF ShadowInv

LEMMA AllocaBytes ==
  ASSUME NEW m \in Nat
  PROVE  LET padded == (2 * G) * ((m + 2 * G - 1) \div (2 * G)) + 2 * G
         IN  padded \in Nat /\ Aligned(padded) /\ m + 2 * G <= padded
<1> DEFINE e == 2 * G
           t == m + e - 1
           q == t \div e
<1>1. e \in Nat \ {0} /\ t \in Nat /\ t = m + e - 1
  BY ShadowConstants
<1> HIDE DEF e, t
<1>2. q \in Nat /\ t % e \in 0..(e - 1) /\ t = e * q + (t % e)
  BY <1>1
<1> HIDE DEF q
<1>3. e * q \in Nat
  BY <1>1, <1>2
<1>4. e * q >= m
  BY <1>1, <1>2, <1>3
<1>5. e * q + e = G * (2 * q + 2) /\ 2 * q + 2 \in Nat
  BY <1>2, ShadowConstants DEF e
<1>6. Aligned(e * q + e)
  BY <1>5, AlignedIs
<1>7. e * q + e \in Nat /\ m + e <= e * q + e
  BY <1>1, <1>3, <1>4
<1> QED BY <1>6, <1>7 DEF e, t, q

LEMMA AllocaInv ==
  ASSUME ShadowInv, NEW m \in Sizes, AllocaPoison(m)
  PROVE  ShadowInv'
<1> DEFINE c == Ceil(m)
           padded == (2 * G) * ((m + 2 * G - 1) \div (2 * G)) + 2 * G
           low == Sp - padded
           k == Len(frames)
<1>1. FramesStacked
  BY DEF ShadowInv
<1>2. /\ Sp \in Nat /\ Aligned(Sp) /\ Sp <= StackTop /\ StackLow <= Sp
      /\ k \in Nat /\ (frames = <<>> <=> k = 0)
      /\ \A i \in 1..k : Sp <= frames[i].low
  BY <1>1, StackPointer
<1>3. m \in Nat /\ Aligned(c) /\ c \in Nat /\ m <= c /\ c < m + G
  BY ShadowConstants, CeilFacts
<1>4. padded \in Nat /\ Aligned(padded) /\ m + 2 * G <= padded
  BY <1>3, AllocaBytes
<1>5. /\ frames # <<>> /\ frames[k].tracked /\ ~frames[k].dynamic /\ low - EntryBytes >= StackLow
      /\ shadow' = Laid(shadow, low, m, padded - c, StackDynamic, 0)
      /\ frames' = [frames EXCEPT ![k].low = low, ![k].dynamic = TRUE]
      /\ allowed' = (allowed \ Bytes(low + m, padded - m)) \cup Bytes(low, m)
      /\ denied' = (denied \ Bytes(low, m)) \cup Bytes(low + m, padded - m)
      /\ Spoil({}) /\ UNCHANGED <<size, committed, registered>>
  BY DEF AllocaPoison, Allow, Laid
<1> HIDE DEF padded, c
<1>6. low \in Nat /\ low < Sp /\ StackLow + EntryBytes <= low /\ low + c + (padded - c) = Sp
      /\ padded - m = Sp - low - m /\ StackLow <= low
  <2>0. padded > 0
    BY <1>3, <1>4, ShadowConstants
  <2>1. low = Sp - padded /\ low - EntryBytes >= StackLow /\ padded > 0
    BY <1>5, <2>0
  <2> HIDE DEF low
  <2>2. low \in Int /\ low + EntryBytes >= StackLow
    BY <1>2, <1>4, <2>1, ShadowConstants
  <2>3. low >= StackLow + EntryBytes
    BY <1>2, <1>4, <2>1, <2>2, ShadowConstants
  <2>4. low \in Nat /\ StackLow + EntryBytes <= low /\ StackLow <= low
    BY <2>2, <2>3, ShadowConstants
  <2>5. low < Sp /\ low + c + (padded - c) = Sp /\ padded - m = Sp - low - m
    BY <1>2, <1>3, <1>4, <2>1
  <2> QED BY <2>4, <2>5
<1>7. Aligned(low) /\ Aligned(padded - c) /\ c + (padded - c) > 0
  <2>1. padded <= Sp /\ c <= padded
    BY <1>2, <1>3, <1>4, <1>6, ShadowConstants
  <2>2. Aligned(Sp - padded) /\ Aligned(padded - c)
    BY <1>2, <1>3, <1>4, <2>1, AlignedSums
  <2> QED BY <1>3, <1>4, <2>2, ShadowConstants
<1> HIDE DEF low
<1>8. k \in 1..k /\ Sp = frames[k].low /\ frames \in Seq(FrameRecords)
  BY <1>1, <1>2, <1>5 DEF Sp, FramesStacked
<1> HIDE DEF k
<1>9. frames[k] \in FrameRecords /\ FrameFits(frames[k])
  BY <1>1, <1>8 DEF FramesStacked, k
<1> DEFINE f == [frames[k] EXCEPT !.low = low, !.dynamic = TRUE]
<1>10. /\ f \in FrameRecords /\ f.low = low /\ f.high = frames[k].high /\ f.obj = frames[k].obj
       /\ f.tracked /\ f.dynamic
  BY <1>5, <1>6, <1>9 DEF FrameRecords
<1>11. frames' = [frames EXCEPT ![k] = f]
  BY <1>5, <1>8
<1> HIDE DEF f
<1>12. /\ frames' \in Seq(FrameRecords) /\ Len(frames') = k /\ frames'[k] = f
       /\ \A i \in 1..k : i # k => frames'[i] = frames[i]
  BY <1>8, <1>10, <1>11 DEF k
<1>13. Sp' = low
  <2>1. frames' # <<>>
    BY <1>2, <1>8, <1>12 DEF k
  <2> QED BY <1>10, <1>12, <2>1 DEF Sp
<1>14. FrameFits(f)
  <2>1. /\ Aligned(frames[k].high) /\ frames[k].low < frames[k].high /\ frames[k].high <= StackTop
        /\ frames[k].low <= Static(frames[k]) /\ frames[k].high \in Nat
    BY <1>5, <1>9 DEF FrameFits, Aligned
  <2>2. Static(f) = Static(frames[k])
    BY <1>10 DEF Static
  <2>3. Static(frames[k]) \in Int
    <3>1. frames[k].obj \in Nat
      BY <1>9 DEF FrameRecords
    <3> QED BY <2>1, <3>1, CeilFacts, ShadowConstants DEF Static
  <2>4. low < f.high /\ low <= Static(f)
    BY <1>2, <1>6, <1>8, <1>10, <2>1, <2>2, <2>3
  <2> QED BY <1>6, <1>7, <1>10, <2>1, <2>4 DEF FrameFits
<1>15. ASSUME NEW i \in 1..k
       PROVE  /\ FrameFits(frames'[i])
              /\ frames'[i].high = IF i = 1 THEN StackTop ELSE frames'[i - 1].low
              /\ \A j \in 1..k : i < j => frames'[j].high <= frames'[i].low
  <2>1. /\ FrameFits(frames[i])
        /\ frames[i].high = IF i = 1 THEN StackTop ELSE frames[i - 1].low
        /\ \A j \in 1..k : i < j => frames[j].high <= frames[i].low
    BY <1>1, <1>15 DEF FramesStacked, k
  <2>2. \A j \in 1..k : frames'[j].high = frames[j].high
    BY <1>10, <1>12
  <2>3. i # 1 => frames'[i - 1] = frames[i - 1]
    BY <1>2, <1>8, <1>12, <1>15
  <2>4. CASE i = k
    BY <1>2, <1>8, <1>12, <1>14, <2>1, <2>2, <2>3, <2>4
  <2>5. CASE i # k
    BY <1>12, <1>15, <2>1, <2>2, <2>3, <2>5
  <2> QED BY <2>4, <2>5
<1>16. FramesStacked'
  BY <1>12, <1>15 DEF FramesStacked
<1>17. ASSUME NEW g \in Granules, Quiet(g)' PROVE Quiet(g) /\ (g < low \/ Sp <= g)
  <2>1. g \in Nat
    BY GranulesAre DEF Aligned
  <2>2. CASE g >= StackLow /\ g < Sp'
    BY <1>2, <1>6, <1>13, <2>1, <2>2 DEF Quiet
  <2>3. CASE \E i \in 1..Len(frames') : ~frames'[i].tracked /\ g >= frames'[i].low /\ g < frames'[i].high
    <3>1. PICK i \in 1..k : ~frames'[i].tracked /\ g >= frames'[i].low /\ g < frames'[i].high
      BY <1>12, <2>3
    <3>2. i # k /\ frames'[i] = frames[i]
      BY <1>10, <1>12, <3>1
    <3>3. frames[i] \in FrameRecords /\ Sp <= frames[i].low
      BY <1>2, <1>8, <3>1 DEF k
    <3>4. frames[i].low \in Nat
      BY <3>3 DEF FrameRecords
    <3> QED BY <1>2, <2>1, <3>1, <3>2, <3>3, <3>4 DEF Quiet, k
  <2> QED BY <1>17, <2>2, <2>3 DEF Quiet
<1>18. Lowered(low) /\ frames'[Len(frames')].tracked
  BY <1>10, <1>12, <1>13, <1>16, <1>17 DEF Lowered
<1>19. Layout(low, m, padded - c, StackDynamic, 0)
  BY <1>3, <1>7, ZeroIsColor DEF Layout, c
<1>20. low + Ceil(m) + (padded - c) = Sp
  BY <1>6 DEF c
<1> QED BY <1>5, <1>6, <1>18, <1>19, <1>20, StackLaid

-----------------------------------------------------------------------------
(* Returns and non-local exits *)

LEMMA PopFrames ==
  ASSUME FramesStacked, NEW k \in Nat, k < Len(frames), frames' = SubSeq(frames, 1, k)
  PROVE  /\ FramesStacked' /\ Sp' = frames[k + 1].high /\ Sp' \in Nat /\ Aligned(Sp')
         /\ Sp < Sp' /\ Sp' <= StackTop
         /\ \A g \in Granules : Quiet(g)' => Quiet(g) \/ (Sp <= g /\ g < Sp')
<1> DEFINE n == Len(frames)
<1>1. /\ Sp \in Nat /\ n \in Nat /\ StackLow <= Sp /\ \A i \in 1..n : Sp <= frames[i].low
  BY StackPointer
<1>2. frames \in Seq(FrameRecords)
  BY DEF FramesStacked
<1>3. frames' \in Seq(FrameRecords) /\ Len(frames') = k /\ \A i \in 1..k : frames'[i] = frames[i]
  BY <1>1, <1>2, SubSeqProperties
<1>4. k + 1 \in 1..n
  BY <1>1
<1>5. /\ frames[k + 1].low \in Nat /\ frames[k + 1].high \in Nat /\ Aligned(frames[k + 1].high)
      /\ frames[k + 1].low < frames[k + 1].high /\ frames[k + 1].high <= StackTop
      /\ frames[k + 1].high = IF k + 1 = 1 THEN StackTop ELSE frames[k].low
  <2>1. FrameFits(frames[k + 1]) /\ frames[k + 1].high = IF k + 1 = 1 THEN StackTop ELSE frames[k + 1 - 1].low
    BY <1>4 DEF FramesStacked
  <2>2. k + 1 - 1 = k
    OBVIOUS
  <2> QED BY <2>1, <2>2 DEF FrameFits, Aligned
<1>6. Sp' = frames[k + 1].high
  <2>1. CASE k = 0
    <3>1. frames' = <<>>
      BY <1>3, <2>1, EmptySeq
    <3> QED BY <1>5, <2>1, <3>1 DEF Sp
  <2>2. CASE k # 0
    <3>1. frames' # <<>> /\ frames'[k] = frames[k] /\ k + 1 # 1
      BY <1>3, <2>2
    <3> QED BY <1>3, <1>5, <3>1 DEF Sp
  <2> QED BY <2>1, <2>2
<1>7. ASSUME NEW i \in 1..k
      PROVE  /\ FrameFits(frames'[i])
             /\ frames'[i].high = IF i = 1 THEN StackTop ELSE frames'[i - 1].low
             /\ \A j \in 1..k : i < j => frames'[j].high <= frames'[i].low
  <2>1. i \in 1..n /\ 1..k \subseteq 1..n
    BY <1>1
  <2>2. /\ FrameFits(frames[i])
        /\ frames[i].high = IF i = 1 THEN StackTop ELSE frames[i - 1].low
        /\ \A j \in 1..n : i < j => frames[j].high <= frames[i].low
    BY <2>1 DEF FramesStacked
  <2>3. i # 1 => frames'[i - 1] = frames[i - 1]
    BY <1>3
  <2> QED BY <1>3, <2>1, <2>2, <2>3
<1>8. FramesStacked'
  BY <1>3, <1>7 DEF FramesStacked
<1>9. ASSUME NEW g \in Granules, Quiet(g)' PROVE Quiet(g) \/ (Sp <= g /\ g < Sp')
  <2>1. g \in Nat
    BY GranulesAre DEF Aligned
  <2>2. CASE g >= StackLow /\ g < Sp'
    BY <1>1, <2>1, <2>2 DEF Quiet
  <2>3. CASE \E i \in 1..Len(frames') : ~frames'[i].tracked /\ g >= frames'[i].low /\ g < frames'[i].high
    <3>1. PICK i \in 1..k : ~frames'[i].tracked /\ g >= frames'[i].low /\ g < frames'[i].high
      BY <1>3, <2>3
    <3>2. i \in 1..n /\ frames'[i] = frames[i]
      BY <1>1, <1>3
    <3> QED BY <3>1, <3>2 DEF Quiet
  <2> QED BY <1>9, <2>2, <2>3 DEF Quiet
<1>10. Sp < Sp'
  BY <1>1, <1>4, <1>5, <1>6
<1> QED BY <1>5, <1>6, <1>8, <1>9, <1>10

LEMMA LeaveInv ==
  ASSUME ShadowInv, Leave
  PROVE  ShadowInv'
<1> DEFINE k == Len(frames)
           f == frames[k]
           static == f.high - Ceil(f.obj) - G
<1>1. /\ ShadowKinds /\ SizesKept /\ FramesStacked /\ StackClean /\ AllowedPass /\ DeniedFail
  BY DEF ShadowInv
<1>sp. \A x \in spoiled : shadow'[Floor(x)] = shadow[Floor(x)] => x \in spoiled'
  BY DEF Leave, Spoil
<1>2. /\ frames # <<>> /\ frames' = SubSeq(frames, 1, k - 1)
      /\ allowed' = allowed \ Bytes(f.low, f.high - f.low)
      /\ f.tracked => /\ shadow' = ShadowSet(ShadowClear(shadow, f.low, static),
                                             static, f.high - static, Returned)
                      /\ denied' = (denied \ Bytes(f.low, static - f.low))
                                       \cup Bytes(static, f.high - static)
      /\ ~f.tracked => UNCHANGED <<shadow, denied>>
      /\ UNCHANGED <<size, committed, registered>>
  BY DEF Leave
<1>3. k \in Nat /\ k # 0 /\ k \in 1..k /\ k - 1 \in Nat /\ k - 1 < k /\ k - 1 + 1 = k
  BY <1>1, <1>2, StackPointer
<1>4. Sp = f.low /\ Sp \in Nat /\ Aligned(Sp) /\ StackLow <= Sp
  BY <1>1, <1>2, StackPointer DEF Sp
<1>5. f \in FrameRecords /\ FrameFits(f)
  BY <1>1, <1>3 DEF FramesStacked
<1>6. /\ FramesStacked' /\ Sp' = f.high /\ Sp' \in Nat /\ Aligned(Sp')
      /\ Sp < Sp' /\ Sp' <= StackTop
      /\ \A g \in Granules : Quiet(g)' => Quiet(g) \/ (Sp <= g /\ g < Sp')
  BY <1>1, <1>2, <1>3, PopFrames
<1>7. f.tracked => static \in Nat /\ Aligned(static) /\ Sp <= static /\ static < Sp'
  <2>1. SUFFICES ASSUME f.tracked PROVE static \in Nat /\ Aligned(static) /\ Sp <= static /\ static < Sp'
    OBVIOUS
  <2>2. f.obj \in Nat
    BY <1>5 DEF FrameRecords
  <2>3. Aligned(Ceil(f.obj)) /\ Ceil(f.obj) \in Nat
    BY <2>2, CeilFacts
  <2>4. Sp <= static
    BY <1>4, <1>5, <2>1 DEF FrameFits, Static
  <2>5. static = Sp' - (Ceil(f.obj) + G)
    BY <1>6, <2>3, ShadowConstants
  <2>6. Ceil(f.obj) + G <= Sp' /\ Ceil(f.obj) + G \in Nat
    <3> DEFINE c == Ceil(f.obj)
    <3>1. c \in Nat /\ Sp \in Nat /\ Sp' \in Nat /\ Sp <= Sp' - (c + G)
      BY <1>4, <1>6, <2>3, <2>4, <2>5
    <3>2. c + G \in Nat
      BY <3>1, PlainG
    <3> HIDE DEF c
    <3>3. \A p, q, n \in Nat : p <= q - n => n <= q
      OBVIOUS
    <3> QED BY <3>1, <3>2, <3>3 DEF c
  <2>7. Aligned(Ceil(f.obj) + G)
    BY <2>3, PlainG, AlignedSums
  <2>8. Aligned(static)
    BY <1>6, <2>5, <2>6, <2>7, AlignedSums
  <2>9. static < Sp'
    BY <1>6, <2>3, <2>5, ShadowConstants
  <2> QED BY <2>4, <2>8, <2>9 DEF Aligned
<1> DEFINE h == Sp'
<1>8. h = Sp' /\ h = f.high /\ f.high \in Nat
  BY <1>6
<1>9. \A x \in Int : x \in Bytes(f.low, f.high - f.low) <=> Sp <= x /\ x < Sp'
  BY <1>4, <1>6 DEF Bytes
<1> HIDE DEF static, f, k, h
<1>10. \A x \in Nat : x < Window =>
          IF f.tracked /\ Sp <= x /\ x < Sp' THEN shadow'[Floor(x)] = IF x < static THEN 0 ELSE Returned
          ELSE shadow'[Floor(x)] = shadow[Floor(x)]
  <2>1. SUFFICES ASSUME NEW x \in Nat, x < Window
                 PROVE  IF f.tracked /\ Sp <= x /\ x < Sp' THEN shadow'[Floor(x)] = IF x < static THEN 0 ELSE Returned
                        ELSE shadow'[Floor(x)] = shadow[Floor(x)]
    OBVIOUS
  <2>2. CASE ~f.tracked
    BY <1>2, <2>2
  <2>3. CASE f.tracked
    <3> DEFINE t == ShadowClear(shadow, f.low, static)
    <3>1. /\ static \in Nat /\ Aligned(static) /\ Sp <= static /\ static < Sp' /\ Aligned(f.low)
          /\ shadow' = ShadowSet(t, static, f.high - static, Returned)
      BY <1>2, <1>4, <1>7, <2>3
    <3>2. SetTo(t, shadow, f.low, static, 0, x)
      BY <2>1, <3>1, ClearByte
    <3> HIDE DEF t
    <3>3. Aligned(f.high - static)
      BY <1>6, <1>8, <3>1, AlignedSums
    <3>4. SetTo(shadow', t, static, static + (f.high - static), Returned, x)
      BY <2>1, <3>1, <3>3, SetByte
    <3>5. static + (f.high - static) = Sp'
      BY <1>6, <1>8, <3>1
    <3> QED BY <1>4, <1>6, <2>3, <3>1, <3>2, <3>4, <3>5 DEF SetTo
  <2> QED BY <2>2, <2>3
<1>11. ShadowKinds'
  <2>1. CASE ~f.tracked
    BY <1>1, <1>2, <2>1 DEF ShadowKinds
  <2>2. CASE f.tracked
    <3> DEFINE t == ShadowClear(shadow, f.low, static)
               w == ShadowSet(t, static, f.high - static, Returned)
    <3>1. shadow' = w
      BY <1>2, <2>2
    <3>2. \A g \in Granules : IsKind(t[g])
      BY <1>1, ClearKinds DEF ShadowKinds
    <3>3. IsKind(Returned)
      BY PoisonFails DEF IsKind
    <3> HIDE DEF t
    <3>4. DOMAIN w = Granules /\ \A g \in Granules : IsKind(w[g])
      BY <3>2, <3>3, SetKinds DEF ShadowSet
    <3> QED BY <3>1, <3>4 DEF ShadowKinds
  <2> QED BY <2>1, <2>2
<1>12. SizesKept'
  BY <1>1, <1>2 DEF SizesKept
<1>13. StackClean'
  <2>1. SUFFICES ASSUME NEW g \in Granules, Quiet(g)' PROVE shadow'[g] \in {0, Returned}
    BY DEF StackClean
  <2>2. g \in Nat /\ g < Window /\ Floor(g) = g
    BY GranuleByte
  <2>3. Quiet(g) \/ (Sp <= g /\ g < Sp')
    BY <1>6, <2>1
  <2>4. CASE f.tracked /\ Sp <= g /\ g < Sp'
    BY <1>10, <2>2, <2>4
  <2>5. CASE ~(f.tracked /\ Sp <= g /\ g < Sp')
    <3>1. shadow'[g] = shadow[g]
      BY <1>10, <2>2, <2>5
    <3>2. Quiet(g)
      <4>1. CASE Quiet(g)
        BY <4>1
      <4>2. CASE ~f.tracked /\ Sp <= g /\ g < Sp'
        BY <1>3, <1>4, <1>8, <4>2 DEF Quiet, f, k
      <4> QED BY <2>3, <2>5, <4>1, <4>2
    <3> QED BY <1>1, <3>1, <3>2 DEF StackClean
  <2> QED BY <2>4, <2>5
<1>14. AllowedPass'
  <2>1. SUFFICES ASSUME NEW x \in allowed'
                 PROVE  x \in Nat /\ x < Window /\ Owned(x)' /\ (LastSpanned(shadow'[Floor(x)], x % G) \/ shadow'[Floor(x)] = Returned \/ x \in spoiled')
    BY DEF AllowedPass, GranulePasses
  <2>2. x \in Nat /\ x < Window /\ Owned(x) /\ (GranulePasses(x) \/ shadow[Floor(x)] = Returned \/ x \in spoiled)
    BY <1>1, <1>2 DEF AllowedPass
  <2>3. ~(Sp <= x /\ x < Sp')
    BY <1>2, <1>9, <2>2
  <2>4. shadow'[Floor(x)] = shadow[Floor(x)]
    BY <1>10, <2>2, <2>3
  <2>5. Sp <= x => Sp' <= x
    BY <1>4, <1>6, <2>2, <2>3
  <2>6. Owned(x)'
    BY <1>2, <2>2, <2>5 DEF Owned
  <2> QED BY <1>sp, <1>2, <2>2, <2>4, <2>6 DEF GranulePasses
<1>15. DeniedFail'
  <2>1. SUFFICES ASSUME NEW x \in denied'
                 PROVE  /\ x \in Nat /\ x < Window /\ ~LastSpanned(shadow'[Floor(x)], x % G)
                        /\ shadow'[Floor(x)] = Returned => StackLow <= x /\ x < Sp'
    BY DEF DeniedFail, GranulePasses
  <2>2. ~LastSpanned(Returned, x % G)
    BY PoisonFails
  <2>3. ASSUME x \in denied, ~f.tracked \/ ~(Sp <= x /\ x < Sp')
        PROVE  /\ x \in Nat /\ x < Window /\ ~LastSpanned(shadow'[Floor(x)], x % G)
               /\ shadow'[Floor(x)] = Returned => StackLow <= x /\ x < Sp'
    <3>1. /\ x \in Nat /\ x < Window /\ ~GranulePasses(x)
          /\ shadow[Floor(x)] = Returned => StackLow <= x /\ x < Sp
      BY <1>1, <2>3 DEF DeniedFail
    <3>2. shadow'[Floor(x)] = shadow[Floor(x)]
      BY <1>10, <2>3, <3>1
    <3> QED BY <1>4, <1>6, <3>1, <3>2 DEF GranulePasses
  <2>4. ASSUME f.tracked, x \in Int, static <= x, x < Sp'
        PROVE  /\ x \in Nat /\ x < Window /\ ~LastSpanned(shadow'[Floor(x)], x % G)
               /\ shadow'[Floor(x)] = Returned => StackLow <= x /\ x < Sp'
    <3>1. static \in Nat /\ Sp <= static
      BY <1>7, <2>4
    <3>2. x \in Nat /\ x < Window /\ Sp <= x /\ StackLow <= x
      BY <1>4, <1>6, <2>4, <3>1, ShadowConstants
    <3>3. shadow'[Floor(x)] = Returned
      BY <1>10, <2>4, <3>1, <3>2
    <3> QED BY <2>2, <2>4, <3>2, <3>3
  <2>5. CASE ~f.tracked
    BY <1>2, <2>1, <2>3, <2>5
  <2>6. CASE f.tracked
    <3>1. static \in Nat /\ Sp <= static /\ static < Sp' /\ f.low \in Nat
      BY <1>4, <1>7, <2>6
    <3>2. \A y \in Int : /\ y \in Bytes(f.low, static - f.low) <=> Sp <= y /\ y < static
                         /\ y \in Bytes(static, f.high - static) <=> static <= y /\ y < Sp'
      BY <1>4, <1>6, <1>8, <3>1 DEF Bytes
    <3>3. CASE x \in Bytes(static, f.high - static)
      <4>1. x \in Int
        BY <3>3 DEF Bytes
      <4> QED BY <2>4, <2>6, <3>2, <3>3, <4>1
    <3>4. CASE x \in denied /\ x \notin Bytes(f.low, static - f.low)
      <4>1. x \in Nat
        BY <1>1, <3>4 DEF DeniedFail
      <4>2. CASE Sp <= x /\ x < Sp'
        <5>1. static <= x
          BY <1>4, <3>1, <3>2, <3>4, <4>1, <4>2
        <5> QED BY <2>4, <2>6, <4>1, <4>2, <5>1
      <4> QED BY <2>3, <3>4, <4>2
    <3> QED BY <1>2, <2>1, <2>6, <3>3, <3>4
  <2> QED BY <2>5, <2>6
<1> QED BY <1>6, <1>11, <1>12, <1>13, <1>14, <1>15 DEF ShadowInv

LEMMA LongJumpInv ==
  ASSUME ShadowInv, NEW k \in 1..Len(frames), LongJump(k)
  PROVE  ShadowInv'
<1> DEFINE w == ShadowClear(shadow, Here, StackTop)
<1>1. /\ ShadowKinds /\ SizesKept /\ FramesStacked /\ StackClean /\ AllowedPass /\ DeniedFail
  BY DEF ShadowInv
<1>sp. \A x \in spoiled : shadow'[Floor(x)] = shadow[Floor(x)] => x \in spoiled'
  BY DEF LongJump, Spoil
<1>2. /\ k < Len(frames) /\ shadow' = w /\ frames' = SubSeq(frames, 1, k)
      /\ allowed' = allowed \ Bytes(Sp, frames'[k].low - Sp)
      /\ denied' = denied \ Bytes(Here, StackTop - Here)
      /\ UNCHANGED <<size, committed, registered>>
  BY DEF LongJump
<1>3. /\ Sp \in Nat /\ Aligned(Sp) /\ StackLow + EntryBytes <= Sp /\ Sp <= StackTop
      /\ Here = Sp - EntryBytes /\ Len(frames) \in Nat
  BY <1>1, StackPointer
<1>4. /\ FramesStacked' /\ Sp' \in Nat /\ Sp < Sp' /\ Sp' <= StackTop
      /\ \A g \in Granules : Quiet(g)' => Quiet(g) \/ (Sp <= g /\ g < Sp')
  BY <1>1, <1>2, PopFrames
<1>5. frames'[k].low = Sp'
  <2>1. frames \in Seq(FrameRecords)
    BY <1>1 DEF FramesStacked
  <2>2. Len(frames') = k /\ k # 0 /\ frames' # <<>>
    BY <1>2, <1>3, <2>1, SubSeqProperties
  <2> QED BY <2>2 DEF Sp
<1>6. Here \in Nat /\ Aligned(Here) /\ StackLow <= Here /\ Here < Sp
  <2>1. Aligned(EntryBytes) /\ EntryBytes <= Sp
    BY <1>3, AlignedConstants, ShadowConstants
  <2>2. Aligned(Sp - EntryBytes)
    BY <1>3, <2>1, AlignedSums
  <2> QED BY <1>3, <2>2, ShadowConstants DEF Aligned
<1>7. \A x \in Int : /\ x \in Bytes(Sp, frames'[k].low - Sp) <=> Sp <= x /\ x < Sp'
                     /\ x \in Bytes(Here, StackTop - Here) <=> Here <= x /\ x < StackTop
  <2>1. frames'[k].low - Sp = Sp' - Sp
    BY <1>5
  <2>2. \A x \in Int : x \in Bytes(Sp, Sp' - Sp) <=> Sp <= x /\ x < Sp'
    <3>1. Sp \in Int /\ Sp' \in Int
      BY <1>3, <1>4
    <3>2. SUFFICES ASSUME NEW x \in Int PROVE x \in Bytes(Sp, Sp' - Sp) <=> Sp <= x /\ x < Sp'
      OBVIOUS
    <3> QED BY <3>1, <3>2, BytesAre
  <2>3. \A x \in Int : x \in Bytes(Here, StackTop - Here) <=> Here <= x /\ x < StackTop
    BY <1>6, ShadowConstants DEF Bytes
  <2> QED BY <2>1, <2>2, <2>3
<1>8. \A x \in Nat : x < Window => w[Floor(x)] = IF Here <= x /\ x < StackTop THEN 0 ELSE shadow[Floor(x)]
  <2>1. SUFFICES ASSUME NEW x \in Nat, x < Window
                 PROVE  SetTo(w, shadow, Here, StackTop, 0, x)
    BY DEF SetTo
  <2>2. Aligned(StackTop)
    BY AlignedConstants
  <2> QED BY <1>6, <2>1, <2>2, ClearByte
<1>9. ShadowKinds'
  <2>1. DOMAIN w = Granules
    BY DEF ShadowClear
  <2>2. \A g \in Granules : IsKind(w[g])
    BY <1>1, ClearKinds DEF ShadowKinds
  <2> HIDE DEF w
  <2> QED BY <1>2, <2>1, <2>2 DEF ShadowKinds
<1> HIDE DEF w
<1>10. SizesKept'
  BY <1>1, <1>2 DEF SizesKept
<1>11. LastSpanned(0, 0) /\ \A j : LastSpanned(0, j)
  BY FullPasses
<1>12. StackClean'
  <2>1. SUFFICES ASSUME NEW g \in Granules, Quiet(g)' PROVE w[g] \in {0, Returned}
    BY <1>2 DEF StackClean
  <2>2. g \in Nat /\ g < Window /\ Floor(g) = g
    BY GranuleByte
  <2>3. CASE Here <= g /\ g < StackTop
    BY <1>8, <2>2, <2>3
  <2>4. CASE ~(Here <= g /\ g < StackTop)
    <3>1. w[g] = shadow[g]
      BY <1>8, <2>2, <2>4
    <3>2. Quiet(g)
      <4>1. Quiet(g) \/ (Sp <= g /\ g < Sp')
        BY <1>4, <2>1
      <4>2. ~(Sp <= g /\ g < Sp')
        BY <1>3, <1>4, <1>6, <2>2, <2>4, ShadowConstants
      <4> QED BY <4>1, <4>2
    <3> QED BY <1>1, <3>1, <3>2 DEF StackClean
  <2> QED BY <2>3, <2>4
<1>13. AllowedPass'
  <2>1. SUFFICES ASSUME NEW x \in allowed'
                 PROVE  x \in Nat /\ x < Window /\ Owned(x)' /\ (LastSpanned(w[Floor(x)], x % G) \/ w[Floor(x)] = Returned \/ x \in spoiled')
    BY <1>2 DEF AllowedPass, GranulePasses
  <2>2. x \in Nat /\ x < Window /\ Owned(x) /\ (GranulePasses(x) \/ shadow[Floor(x)] = Returned \/ x \in spoiled)
    BY <1>1, <1>2 DEF AllowedPass
  <2>3. ~(Sp <= x /\ x < Sp')
    BY <1>2, <1>7, <2>2
  <2>4. Sp <= x => Sp' <= x
    BY <1>3, <1>4, <2>2, <2>3
  <2>5. Owned(x)'
    BY <1>2, <2>2, <2>4 DEF Owned
  <2> QED BY <1>sp, <1>2, <1>8, <1>11, <2>2, <2>5 DEF GranulePasses
<1>14. DeniedFail'
  <2>1. SUFFICES ASSUME NEW x \in denied'
                 PROVE  /\ x \in Nat /\ x < Window /\ ~LastSpanned(w[Floor(x)], x % G)
                        /\ w[Floor(x)] = Returned => StackLow <= x /\ x < Sp'
    BY <1>2 DEF DeniedFail, GranulePasses
  <2>2. /\ x \in Nat /\ x < Window /\ ~GranulePasses(x)
        /\ shadow[Floor(x)] = Returned => StackLow <= x /\ x < Sp
    BY <1>1, <1>2 DEF DeniedFail
  <2>3. ~(Here <= x /\ x < StackTop)
    BY <1>2, <1>7, <2>2
  <2>4. w[Floor(x)] = shadow[Floor(x)]
    BY <1>8, <2>2, <2>3
  <2> QED BY <1>3, <1>4, <2>2, <2>4 DEF GranulePasses
<1> QED BY <1>4, <1>9, <1>10, <1>12, <1>13, <1>14 DEF ShadowInv

-----------------------------------------------------------------------------
(* ASan's interface, and a guard that clears a stale mark *)

\* An object's bytes are the program's, and none is quiet stack.
LEMMA ObjectPlace ==
  ASSUME ShadowInv, NEW o \in Objects
  PROVE  /\ o.at \in Nat /\ Aligned(o.at) /\ o.n \in Nat /\ o.at + o.n <= Window
         /\ \A x \in Nat : o.at <= x /\ x < o.at + o.n => Owned(x)
         /\ \A g \in Granules : o.at <= g /\ g < o.at + o.n => ~Quiet(g)
<1>1. ShadowKinds /\ SizesKept /\ FramesStacked
  BY DEF ShadowInv
<1>2. ASSUME NEW b \in Slots, size[b] >= 0, o.at = b, o.n = size[b]
      PROVE  /\ o.at \in Nat /\ Aligned(o.at) /\ o.n \in Nat /\ o.at + o.n <= Window
             /\ \A x \in Nat : o.at <= x /\ x < o.at + o.n => Owned(x)
             /\ \A g \in Granules : o.at <= g /\ g < o.at + o.n => ~Quiet(g)
  <2>1. size[b] \in Nat /\ size[b] < SlotBytes /\ b \in Nat
    BY <1>1, <1>2, LiveSize
  <2>2. /\ Aligned(b) /\ b + SlotBytes <= Window
        /\ (b + SlotBytes <= StackLow \/ StackTop <= b)
    BY SlotPlace
  <2>3. \A x \in Nat : b <= x /\ x < b + size[b] => Owned(x)
    BY <1>2 DEF Owned
  <2>4. ASSUME NEW g \in Granules, b <= g, g < b + size[b], Quiet(g) PROVE FALSE
    <3>1. g \in Nat /\ StackLow <= g /\ g < StackTop
      BY <1>1, <2>4, QuietInStack
    <3> QED BY <2>1, <2>2, <2>4, <3>1, ShadowConstants
  <2> QED BY <1>2, <2>1, <2>2, <2>3, <2>4, ShadowConstants
<1>3. ASSUME registered, o.at = GlobalAt, o.n = GlobalSize
      PROVE  /\ o.at \in Nat /\ Aligned(o.at) /\ o.n \in Nat /\ o.at + o.n <= Window
             /\ \A x \in Nat : o.at <= x /\ x < o.at + o.n => Owned(x)
             /\ \A g \in Granules : o.at <= g /\ g < o.at + o.n => ~Quiet(g)
  <2>1. \A x \in Nat : GlobalAt <= x /\ x < GlobalAt + GlobalSize => Owned(x)
    BY <1>3 DEF Owned
  <2>2. ASSUME NEW g \in Granules, GlobalAt <= g, g < GlobalAt + GlobalSize, Quiet(g) PROVE FALSE
    <3>1. g \in Nat /\ StackLow <= g /\ g < StackTop
      BY <1>1, <2>2, QuietInStack
    <3> QED BY <2>2, <3>1, GlobalFacts, ShadowConstants
  <2>3. Aligned(GlobalAt)
    BY AlignedConstants
  <2> QED BY <1>3, <2>1, <2>2, <2>3, ShadowConstants
<1>4. ASSUME NEW k \in 1..Len(frames), frames[k].tracked, o.at = Static(frames[k]), o.n = frames[k].obj
      PROVE  /\ o.at \in Nat /\ Aligned(o.at) /\ o.n \in Nat /\ o.at + o.n <= Window
             /\ \A x \in Nat : o.at <= x /\ x < o.at + o.n => Owned(x)
             /\ \A g \in Granules : o.at <= g /\ g < o.at + o.n => ~Quiet(g)
  <2> DEFINE f == frames[k]
             c == Ceil(f.obj)
  <2>1. f \in FrameRecords /\ FrameFits(f) /\ \A j \in 1..Len(frames) : k < j => frames[j].high <= f.low
    BY <1>1 DEF FramesStacked
  <2>2. /\ f.low \in Nat /\ f.high \in Nat /\ f.obj \in Nat /\ Aligned(f.low) /\ Aligned(f.high)
        /\ f.low <= Static(f) /\ f.high <= StackTop
    BY <1>4, <2>1 DEF FrameFits, FrameRecords
  <2>3. Static(f) = f.high - c - G
    BY DEF Static
  <2> HIDE DEF f
  <2>4. Aligned(c) /\ c \in Nat /\ f.obj <= c
    BY <2>2, CeilFacts
  <2> HIDE DEF c
  <2>5. Static(f) \in Nat /\ Static(f) = f.high - (c + G) /\ c + G <= f.high
    BY <2>2, <2>3, <2>4, ShadowConstants
  <2>6. Aligned(Static(f))
    <3>1. Aligned(c + G)
      BY <2>4, PlainG, AlignedSums
    <3> QED BY <2>2, <2>5, <3>1, AlignedSums
  <2>7. Static(f) + f.obj < f.high
    BY <2>2, <2>4, <2>5, ShadowConstants
  <2>8. Sp \in Nat /\ Sp <= f.low
    BY <1>1, StackPointer DEF f
  <2>9. \A x \in Nat : Static(f) <= x /\ x < Static(f) + f.obj => Owned(x)
    BY <2>2, <2>5, <2>7, <2>8, ShadowConstants DEF Owned
  <2>10. ASSUME NEW g \in Granules, Static(f) <= g, g < Static(f) + f.obj, Quiet(g) PROVE FALSE
    <3>1. g \in Nat /\ f.low <= g /\ g < f.high /\ Sp <= g
      BY <2>2, <2>5, <2>7, <2>8, <2>10, GranuleByte
    <3>2. PICK i \in 1..Len(frames) : ~frames[i].tracked /\ g >= frames[i].low /\ g < frames[i].high
      BY <2>8, <2>10, <3>1 DEF Quiet
    <3>3. /\ frames[i] \in FrameRecords
          /\ \A j \in 1..Len(frames) : i < j => frames[j].high <= frames[i].low
      BY <1>1 DEF FramesStacked
    <3>4. frames[i].low \in Nat /\ frames[i].high \in Nat
      BY <3>3 DEF FrameRecords
    <3>5. i # k
      BY <1>4, <3>2
    <3>6. CASE i < k
      BY <2>2, <3>1, <3>2, <3>3, <3>4, <3>6 DEF f
    <3>7. CASE k < i
      BY <2>1, <2>2, <3>1, <3>2, <3>4, <3>7
    <3> QED BY <3>5, <3>6, <3>7
  <2> QED BY <1>4, <2>2, <2>5, <2>6, <2>7, <2>9, <2>10, ShadowConstants DEF f
<1>5. \/ \E b \in Slots : size[b] >= 0 /\ o.at = b /\ o.n = size[b]
      \/ registered /\ o.at = GlobalAt /\ o.n = GlobalSize
      \/ \E k \in 1..Len(frames) : frames[k].tracked /\ o.at = Static(frames[k]) /\ o.n = frames[k].obj
  <2>1. CASE o \in {[at |-> b, n |-> size[b], v0 |-> shadow[b]] : b \in {c \in Slots : size[c] >= 0}}
    BY <2>1
  <2>2. CASE o \in {[at |-> GlobalAt, n |-> GlobalSize, v0 |-> shadow[GlobalAt]] :
                       x \in {registered} \ {FALSE}}
    <3>1. registered = TRUE
      BY <1>1, <2>2 DEF SizesKept
    <3>2. o = [at |-> GlobalAt, n |-> GlobalSize, v0 |-> shadow[GlobalAt]]
      BY <2>2
    <3>3. o.at = GlobalAt /\ o.n = GlobalSize
      BY <3>2
    <3> QED BY <3>1, <3>3
  <2>3. CASE o \in {[at |-> frames[k].high - Ceil(frames[k].obj) - G,
                     n |-> frames[k].obj, v0 |-> FrameColor(k - 1)] :
                       k \in {k \in DOMAIN frames : frames[k].tracked}}
    <3>1. DOMAIN frames = 1..Len(frames)
      BY <1>1 DEF FramesStacked
    <3>2. PICK k \in DOMAIN frames : frames[k].tracked
             /\ o = [at |-> frames[k].high - Ceil(frames[k].obj) - G,
                     n |-> frames[k].obj, v0 |-> FrameColor(k - 1)]
      BY <2>3
    <3>3. o.at = Static(frames[k]) /\ o.n = frames[k].obj
      BY <3>2 DEF Static
    <3> QED BY <3>1, <3>2, <3>3
  <2> QED BY <2>1, <2>2, <2>3 DEF Objects
<1> QED BY <1>2, <1>3, <1>4, <1>5

\* A step that changes the shadow only where no stack is quiet.
LEMMA QuietKept ==
  ASSUME FramesStacked, StackClean, UNCHANGED frames,
         \A g \in Granules : Quiet(g) => shadow'[g] \in {shadow[g], 0}
  PROVE  FramesStacked' /\ StackClean' /\ Sp' = Sp
<1>1. FramesStacked' /\ Sp' = Sp /\ \A g : Quiet(g)' <=> Quiet(g)
  BY DEF FramesStacked, Sp, Quiet
<1> QED BY <1>1 DEF StackClean

LEMMA AsanPoisonInv ==
  ASSUME ShadowInv, NEW o \in Objects, NEW m \in UserBytes, NEW a \in o.at..(o.at + o.n - m),
         AsanPoison(a, m)
  PROVE  ShadowInv'
<1> DEFINE low == Ceil(a)
           high == Floor(a + m)
<1>1. /\ ShadowKinds /\ SizesKept /\ FramesStacked /\ StackClean /\ AllowedPass /\ DeniedFail
  BY DEF ShadowInv
<1>sp. \A x \in spoiled : shadow'[Floor(x)] = shadow[Floor(x)] => x \in spoiled'
  BY DEF AsanPoison, Spoil
<1>2. /\ shadow' = IF high > low THEN ShadowSet(shadow, low, high - low, UserPoison) ELSE shadow
      /\ allowed' = allowed \ Bytes(a, m) /\ denied' = denied \cup low..(high - 1)
      /\ UNCHANGED <<size, committed, registered, frames>>
  BY DEF AsanPoison
<1>3. /\ o.at \in Nat /\ Aligned(o.at) /\ o.n \in Nat /\ o.at + o.n <= Window
      /\ \A g \in Granules : o.at <= g /\ g < o.at + o.n => ~Quiet(g)
  BY ObjectPlace
<1>4. m \in Nat \ {0}
  BY ShadowConstants
<1>5. a \in Nat /\ o.at <= a /\ a + m <= o.at + o.n /\ a + m \in Nat
  BY <1>3, <1>4
<1>6. Aligned(low) /\ low \in Nat /\ a <= low
  BY <1>5, CeilFacts
<1>7. Aligned(high) /\ high \in Nat /\ high <= a + m
  BY <1>5, FloorFacts
<1> HIDE DEF low, high
<1>8. \A x \in Int : x \in Bytes(a, m) <=> a <= x /\ x < a + m
  BY <1>4, <1>5 DEF Bytes
<1>9. \A x \in Nat : x < Window => SetTo(shadow', shadow, low, high, UserPoison, x)
  <2>1. SUFFICES ASSUME NEW x \in Nat, x < Window PROVE SetTo(shadow', shadow, low, high, UserPoison, x)
    OBVIOUS
  <2>2. CASE high > low
    <3>0. high >= low /\ low + (high - low) = high
      BY <1>6, <1>7, <2>2
    <3>1. Aligned(high - low) /\ low + (high - low) = high
      BY <1>6, <1>7, <3>0, AlignedSums
    <3>2. SetTo(ShadowSet(shadow, low, high - low, UserPoison), shadow, low, low + (high - low), UserPoison, x)
      BY <1>6, <2>1, <3>1, SetByte
    <3> QED BY <1>2, <2>2, <3>1, <3>2
  <2>3. CASE ~(high > low)
    <3>1. ~(low <= x /\ x < high) /\ shadow' = shadow
      BY <1>2, <1>6, <1>7, <2>1, <2>3
    <3> QED BY <3>1 DEF SetTo
  <2> QED BY <2>2, <2>3
<1>10. \A k : ~LastSpanned(UserPoison, k) /\ UserPoison # Returned /\ IsKind(UserPoison)
  BY PoisonFails DEF UserPoison, Returned, IsKind
<1>11. ShadowKinds'
  <2>1. DOMAIN shadow' = Granules
    BY <1>1, <1>2 DEF ShadowKinds, ShadowSet
  <2>2. \A g \in Granules : IsKind(shadow'[g])
    BY <1>1, <1>2, <1>10, SetKinds DEF ShadowKinds
  <2> QED BY <2>1, <2>2 DEF ShadowKinds
<1>12. SizesKept'
  BY <1>1, <1>2 DEF SizesKept
<1>13. ASSUME NEW g \in Granules, Quiet(g) PROVE shadow'[g] = shadow[g]
  <2>1. g \in Nat /\ g < Window /\ Floor(g) = g
    BY GranuleByte
  <2>2. ~(low <= g /\ g < high)
    BY <1>3, <1>4, <1>5, <1>6, <1>7, <1>13, <2>1
  <2> QED BY <1>9, <2>1, <2>2 DEF SetTo
<1>14. FramesStacked' /\ StackClean' /\ Sp' = Sp
  BY <1>1, <1>2, <1>13, QuietKept
<1>15. AllowedPass'
  <2>1. SUFFICES ASSUME NEW x \in allowed'
                 PROVE  x \in Nat /\ x < Window /\ Owned(x)' /\ (LastSpanned(shadow'[Floor(x)], x % G) \/ shadow'[Floor(x)] = Returned \/ x \in spoiled')
    BY DEF AllowedPass, GranulePasses
  <2>2. x \in Nat /\ x < Window /\ Owned(x) /\ (GranulePasses(x) \/ shadow[Floor(x)] = Returned \/ x \in spoiled)
    BY <1>1, <1>2 DEF AllowedPass
  <2>3. ~(a <= x /\ x < a + m)
    BY <1>2, <1>8, <2>2
  <2>4. ~(low <= x /\ x < high)
    BY <1>5, <1>6, <1>7, <2>2, <2>3
  <2>5. shadow'[Floor(x)] = shadow[Floor(x)]
    BY <1>9, <2>2, <2>4 DEF SetTo
  <2>6. Owned(x)'
    BY <1>2, <1>14, <2>2 DEF Owned
  <2> QED BY <1>sp, <1>2, <2>2, <2>5, <2>6 DEF GranulePasses
<1>16. DeniedFail'
  <2>1. SUFFICES ASSUME NEW x \in denied'
                 PROVE  /\ x \in Nat /\ x < Window /\ ~LastSpanned(shadow'[Floor(x)], x % G)
                        /\ shadow'[Floor(x)] = Returned => StackLow <= x /\ x < Sp
    BY <1>14 DEF DeniedFail, GranulePasses
  <2>2. CASE x \in low..(high - 1)
    <3>1. x \in Nat /\ x < Window /\ low <= x /\ x < high
      BY <1>3, <1>4, <1>5, <1>6, <1>7, <2>2, ShadowConstants
    <3> QED BY <1>9, <1>10, <3>1 DEF SetTo
  <2>3. CASE x \in denied
    <3>1. /\ x \in Nat /\ x < Window /\ ~GranulePasses(x)
          /\ shadow[Floor(x)] = Returned => StackLow <= x /\ x < Sp
      BY <1>1, <2>3 DEF DeniedFail
    <3>2. SetTo(shadow', shadow, low, high, UserPoison, x)
      BY <1>9, <3>1
    <3> QED BY <1>10, <3>1, <3>2 DEF SetTo, GranulePasses
  <2> QED BY <1>2, <2>1, <2>2, <2>3
<1> QED BY <1>11, <1>12, <1>14, <1>15, <1>16 DEF ShadowInv

LEMMA GuardSlowInv ==
  ASSUME ShadowInv, NEW g \in Granules, GuardSlow(g)
  PROVE  ShadowInv'
<1>1. /\ ShadowKinds /\ SizesKept /\ FramesStacked /\ StackClean /\ AllowedPass /\ DeniedFail
  BY DEF ShadowInv
<1>sp. \A x \in spoiled : shadow'[Floor(x)] = shadow[Floor(x)] => x \in spoiled'
  BY DEF GuardSlow, Spoil
<1>2. /\ Settled(g, Here) # shadow[g] /\ shadow' = [shadow EXCEPT ![g] = Settled(g, Here)]
      /\ denied' = denied \ Bytes(g, G) /\ UNCHANGED <<size, committed, registered, frames, allowed>>
  BY DEF GuardSlow
<1>3. Settled(g, Here) = 0
  BY <1>2 DEF Settled
<1>4. g \in Nat /\ g < Window /\ Aligned(g)
  BY GranuleByte, GranulesAre
<1>5. DOMAIN shadow' = Granules /\ \A h \in Granules : shadow'[h] = IF h = g THEN 0 ELSE shadow[h]
  BY <1>1, <1>2, <1>3 DEF ShadowKinds
<1>6. \A k : LastSpanned(0, k) /\ 0 # Returned
  BY FullPasses
<1>7. ShadowKinds'
  <2>1. IsKind(0)
    BY FullPasses DEF IsKind
  <2> QED BY <1>1, <1>5, <2>1 DEF ShadowKinds
<1>8. SizesKept'
  BY <1>1, <1>2 DEF SizesKept
<1>9. FramesStacked' /\ StackClean' /\ Sp' = Sp
  BY <1>1, <1>2, <1>5, QuietKept
<1>10. AllowedPass'
  <2>1. SUFFICES ASSUME NEW x \in allowed
                 PROVE  x \in Nat /\ x < Window /\ Owned(x)' /\ (LastSpanned(shadow'[Floor(x)], x % G) \/ shadow'[Floor(x)] = Returned \/ x \in spoiled')
    BY <1>2 DEF AllowedPass, GranulePasses
  <2>2. x \in Nat /\ x < Window /\ Owned(x) /\ (GranulePasses(x) \/ shadow[Floor(x)] = Returned \/ x \in spoiled)
    BY <1>1 DEF AllowedPass
  <2>3. Owned(x)'
    BY <1>2, <1>9, <2>2 DEF Owned
  <2>4. shadow'[Floor(x)] \in {shadow[Floor(x)], 0}
    BY <1>5, <2>2, InWindowFloor
  <2> QED BY <1>sp, <1>2, <1>6, <2>2, <2>3, <2>4 DEF GranulePasses
<1>11. DeniedFail'
  <2>1. SUFFICES ASSUME NEW x \in denied'
                 PROVE  /\ x \in Nat /\ x < Window /\ ~LastSpanned(shadow'[Floor(x)], x % G)
                        /\ shadow'[Floor(x)] = Returned => StackLow <= x /\ x < Sp
    BY <1>9 DEF DeniedFail, GranulePasses
  <2>2. /\ x \in Nat /\ x < Window /\ ~GranulePasses(x)
        /\ shadow[Floor(x)] = Returned => StackLow <= x /\ x < Sp
    BY <1>1, <1>2 DEF DeniedFail
  <2>3. Floor(x) # g
    <3>1. SUFFICES ASSUME Floor(x) = g PROVE FALSE
      OBVIOUS
    <3>2. g <= x /\ x < g + G
      BY <2>2, <3>1, FloorFacts
    <3> QED BY <1>2, <1>4, <2>1, <2>2, <3>2, ShadowConstants DEF Bytes
  <2>4. shadow'[Floor(x)] = shadow[Floor(x)]
    BY <1>5, <2>2, <2>3, InWindowFloor
  <2> QED BY <2>2, <2>4 DEF GranulePasses
<1> QED BY <1>7, <1>8, <1>9, <1>10, <1>11 DEF ShadowInv

\* What unpoisoning the bytes from a to e writes, color by color.
LEMMA AsanUnpoisonInv ==
  ASSUME ShadowInv, NEW o \in Objects, NEW m \in UserBytes, NEW a \in o.at..(o.at + o.n - m),
         AsanUnpoison(a, m)
  PROVE  ShadowInv'
<1> DEFINE e == a + m
           low == Floor(a)
           high == Floor(e)
           rest == e % G
           color == ColorOfHeap(a)
           last == ShadowAt(e)
           partial == rest # 0 /\ (ShadowPoison(last) \/ (~ShadowFull(last) /\ ShadowBytes(last) < rest))
<1>1. /\ ShadowKinds /\ SizesKept /\ FramesStacked /\ StackClean /\ AllowedPass /\ DeniedFail
  BY DEF ShadowInv
<1>sp. \A x \in spoiled : shadow'[Floor(x)] = shadow[Floor(x)] => x \in spoiled'
  BY DEF AsanUnpoison, Spoil
<1> DEFINE w == [g \in Granules |->
               CASE g >= low /\ g < high -> color
                 [] g = high /\ partial -> PartialOf(color, rest)
                 [] OTHER -> shadow[g]]
<1>0. shadow' = w
  BY DEF AsanUnpoison
<1>2. /\ allowed' = allowed \cup Bytes(a, m) /\ denied' = denied \ (Floor(a)..(a + m - 1))
      /\ UNCHANGED <<size, committed, registered, frames>>
  <2>2. allowed' = allowed \cup Bytes(a, m)
    BY DEF AsanUnpoison
  <2>3. denied' = denied \ (Floor(a)..(a + m - 1))
    BY DEF AsanUnpoison
  <2>4. UNCHANGED <<size, committed, registered, frames>>
    BY DEF AsanUnpoison
  <2> QED BY <2>2, <2>3, <2>4
<1>3. /\ o.at \in Nat /\ Aligned(o.at) /\ o.n \in Nat /\ o.at + o.n <= Window
      /\ \A x \in Nat : o.at <= x /\ x < o.at + o.n => Owned(x)
      /\ \A g \in Granules : o.at <= g /\ g < o.at + o.n => ~Quiet(g)
  BY ObjectPlace
<1>4. m \in Nat \ {0}
  BY ShadowConstants
<1>5. a \in Nat /\ o.at <= a /\ e <= o.at + o.n /\ e \in Nat /\ a < e
  BY <1>3, <1>4
<1>6. Aligned(low) /\ low \in Nat /\ low <= a /\ o.at <= low
  BY <1>3, <1>5, FloorFacts, FloorIs
<1>61. denied' = denied \ (low..(e - 1))
  <2>1. a + m - 1 = e - 1
    BY <1>4, <1>5
  <2> QED BY <1>2, <2>1
<1>7. Aligned(high) /\ high \in Nat /\ high <= e /\ e < high + G /\ rest = e - high /\ rest \in Nat /\ rest < G
  BY <1>5, FloorFacts, ShadowConstants
<1>8. IsColor(color) /\ color \in Nat /\ color < 128
  BY <1>5, HeapColorIs DEF IsColor
<1>9. \A x \in Int : x \in Bytes(a, m) <=> a <= x /\ x < e
  BY <1>4, <1>5 DEF Bytes
<1>10. rest # 0 => e < Window /\ high \in Granules /\ last = shadow[high]
  <2>1. SUFFICES ASSUME rest # 0 PROVE e < Window /\ high \in Granules /\ last = shadow[high]
    OBVIOUS
  <2>2. e # Window
    BY <1>5, <2>1, AlignedConstants DEF Aligned
  <2>3. e < Window
    BY <1>3, <1>5, <2>2, ShadowConstants
  <2> QED BY <1>5, <2>3, InWindowFloor DEF ShadowAt, InWindow
<1>11. low <= high
  BY <1>5, <1>6, FloorIs
<1>200. Spoil((e..((IF partial THEN high + G ELSE e) - 1)) \cap allowed)
  BY DEF AsanUnpoison
<1> HIDE DEF low, high, rest, color, last, e
<1>12. ASSUME NEW g \in Granules
       PROVE  /\ low <= g /\ g < high => shadow'[g] = color
              /\ g = high /\ partial => shadow'[g] = PartialOf(color, rest)
              /\ ~(low <= g /\ g < high) /\ ~(g = high /\ partial) => shadow'[g] = shadow[g]
  <2>1. g \in Nat
    BY GranuleByte
  <2>2. g = high => ~(g < high)
    BY <1>7
  <2>3. shadow'[g] = CASE g >= low /\ g < high -> color
                       [] g = high /\ partial -> PartialOf(color, rest)
                       [] OTHER -> shadow[g]
    BY <1>0
  <2> HIDE DEF partial
  <2> QED BY <1>6, <1>7, <2>1, <2>2, <2>3
<1>13. DOMAIN shadow' = Granules
  BY <1>0
<1> HIDE DEF w
<1>14. ASSUME NEW x \in Nat, x < Window
       PROVE  /\ low <= x /\ x < high => LastSpanned(shadow'[Floor(x)], x % G) /\ shadow'[Floor(x)] # Returned
              /\ high <= x /\ x < high + G /\ partial
                    => (LastSpanned(shadow'[Floor(x)], x % G) <=> x < e) /\ shadow'[Floor(x)] # Returned
              /\ ~(low <= x /\ x < high) /\ ~(high <= x /\ x < high + G /\ partial)
                    => shadow'[Floor(x)] = shadow[Floor(x)]
  <2> DEFINE g == Floor(x)
  <2>1. g \in Granules /\ g \in Nat /\ g <= x /\ x < g + G /\ x % G = x - g
    BY <1>14, InWindowFloor, FloorFacts
  <2>2. /\ (low <= x <=> low <= g) /\ (x < high <=> g < high) /\ (high <= x <=> high <= g)
        /\ (high <= x /\ x < high + G => g = high)
    BY <1>6, <1>7, <1>14, FloorIs
  <2> HIDE DEF g, partial
  <2>3. low <= x /\ x < high => LastSpanned(shadow'[g], x % G) /\ shadow'[g] # Returned
    BY <1>8, <1>12, <2>1, <2>2, FullPasses
  <2>4. ASSUME high <= x, x < high + G, partial
        PROVE  (LastSpanned(shadow'[g], x % G) <=> x < e) /\ shadow'[g] # Returned
    <3>1. g = high /\ shadow'[g] = PartialOf(color, rest)
      BY <1>12, <2>1, <2>2, <2>4
    <3>2. x % G \in Nat /\ (x % G < rest <=> x < e)
      BY <1>5, <1>7, <2>1, <3>1
    <3> QED BY <1>7, <1>8, <3>1, <3>2, PartialIs
  <2>5. ~(low <= x /\ x < high) /\ ~(high <= x /\ x < high + G /\ partial) => shadow'[g] = shadow[g]
    <3>1. g = high => high <= x /\ x < high + G
      BY <2>1
    <3> QED BY <1>12, <2>1, <2>2, <3>1
  <2> QED BY <2>3, <2>4, <2>5 DEF g
<1>15. ShadowKinds'
  <2>1. ASSUME NEW g \in Granules PROVE IsKind(shadow'[g])
    <3>1. IsKind(color) /\ IsKind(PartialOf(color, rest))
      BY <1>7, <1>8, FullPasses, PartialIs DEF IsKind
    <3>2. IsKind(shadow[g])
      BY <1>1 DEF ShadowKinds
    <3> HIDE DEF partial
    <3> QED BY <1>12, <3>1, <3>2
  <2> QED BY <1>13, <2>1 DEF ShadowKinds
<1>16. SizesKept'
  BY <1>1, <1>2 DEF SizesKept
<1>17. ASSUME NEW g \in Granules, Quiet(g) PROVE shadow'[g] = shadow[g]
  <2>1. g \in Nat /\ g < Window
    BY GranuleByte
  <2>2. ~(o.at <= g /\ g < o.at + o.n)
    BY <1>3, <1>17
  <2>3. ~(low <= g /\ g < high)
    BY <1>3, <1>5, <1>6, <1>7, <2>1, <2>2
  <2>4. partial => rest # 0
    OBVIOUS
  <2>5. ~(g = high /\ rest # 0)
    BY <1>3, <1>5, <1>6, <1>7, <1>11, <2>1, <2>2
  <2> HIDE DEF partial
  <2> QED BY <1>12, <2>3, <2>4, <2>5
<1>18. FramesStacked' /\ StackClean' /\ Sp' = Sp
  BY <1>1, <1>2, <1>17, QuietKept
<1>19. \A x \in Nat : Owned(x) => Owned(x)'
  BY <1>2, <1>18 DEF Owned
<1>20. ASSUME NEW x \in Nat, high <= x, x < high + G, x < Window
       PROVE  x % G = x - high /\ Floor(x) = high /\ x % G \in Nat
  BY <1>7, <1>20, FloorIs, FloorFacts
<1>21. ASSUME NEW x \in allowed, x \in Nat, e <= x, x < high + G, partial
       PROVE  x \in spoiled'
  <2> DEFINE past == IF partial THEN high + G ELSE e
             to == past - 1
  <2> HIDE DEF partial
  <2>1. past = high + G
    BY <1>21, Zenon
  <2> HIDE DEF past
  <2>6. to = (high + G) - 1
    BY <2>1
  <2> HIDE DEF to
  <2>2. G \in Nat
    BY ShadowConstants
  <2>3. x \in e..to
    BY <1>5, <1>7, <1>21, <2>6, <2>2
  <2>4. x \in (e..to) \cap allowed
    BY <1>21, <2>3
  <2>5. (e..to) \cap allowed \subseteq spoiled'
    BY <1>200 DEF Spoil, to, past
  <2> QED BY <2>4, <2>5
<1>23. AllowedPass'
  <2>1. SUFFICES ASSUME NEW x \in allowed'
                 PROVE  x \in Nat /\ x < Window /\ Owned(x)' /\ (LastSpanned(shadow'[Floor(x)], x % G) \/ shadow'[Floor(x)] = Returned \/ x \in spoiled')
    BY DEF AllowedPass, GranulePasses
  <2>2. CASE x \in Bytes(a, m)
    <3>1. x \in Int
      BY <2>2 DEF Bytes
    <3>2. a <= x /\ x < e
      BY <1>9, <2>2, <3>1
    <3>3. x \in Nat /\ x < Window /\ low <= x /\ o.at <= x /\ x < o.at + o.n
      BY <1>3, <1>5, <1>6, <3>1, <3>2, ShadowConstants
    <3>4. Owned(x)'
      BY <1>3, <1>19, <3>3
    <3>5. CASE x < high
      BY <1>14, <3>3, <3>4, <3>5
    <3>6. CASE high <= x /\ partial
      <4>1. x < high + G
        BY <1>5, <1>7, <3>2, <3>3, ShadowConstants
      <4> QED BY <1>14, <3>2, <3>3, <3>4, <3>6, <4>1
    <3>7. CASE high <= x /\ ~partial
      <4>0. high <= x
        BY <3>7
      <4>1. rest # 0 /\ x < high + G
        BY <1>5, <1>7, <3>2, <3>3, <4>0, ShadowConstants
      <4>2. ~partial /\ last = shadow[high]
        BY <1>10, <3>7, <4>1
      <4>3. x % G = x - high /\ Floor(x) = high
        BY <1>20, <3>3, <3>7, <4>1
      <4>4. x % G < rest
        BY <1>5, <1>7, <3>2, <3>3, <4>3
      <4>5. ShadowBytes(shadow[high]) \in Nat /\ x % G \in Nat
        <5>1. shadow[high] \in Nat
          BY <1>1, <1>10, <4>1 DEF ShadowKinds, IsKind
        <5> QED BY <1>7, <3>3, <3>7, <4>3, <5>1 DEF ShadowBytes
      <4>6. LastSpanned(shadow[high], x % G)
        BY <1>7, <4>2, <4>4, <4>5 DEF LastSpanned
      <4>7. shadow'[Floor(x)] = shadow[Floor(x)]
        BY <1>7, <1>14, <3>3, <3>7
      <4> QED BY <3>3, <3>4, <4>3, <4>6, <4>7
    <3> QED BY <1>7, <3>3, <3>5, <3>6, <3>7
  <2>3. CASE x \in allowed
    <3>1. x \in Nat /\ x < Window /\ Owned(x) /\ (GranulePasses(x) \/ shadow[Floor(x)] = Returned \/ x \in spoiled)
      BY <1>1, <2>3 DEF AllowedPass
    <3>2. Owned(x)'
      BY <1>19, <3>1
    <3>3. CASE low <= x /\ x < high
      BY <1>14, <3>1, <3>2, <3>3
    <3>4. CASE high <= x /\ x < high + G /\ partial
      <4>1. CASE x < e
        BY <1>14, <3>1, <3>2, <3>4, <4>1
      <4>2. CASE ~(x < e)
        <5>1. e <= x
          BY <1>5, <3>1, <4>2
        <5>2. x \in spoiled'
          BY <1>21, <2>3, <3>1, <3>4, <5>1
        <5> QED BY <3>1, <3>2, <5>2
      <4> QED BY <4>1, <4>2
    <3>5. CASE ~(low <= x /\ x < high) /\ ~(high <= x /\ x < high + G /\ partial)
      <4>1. shadow'[Floor(x)] = shadow[Floor(x)]
        BY <1>14, <3>1, <3>5
      <4>2. x \in spoiled => x \in spoiled'
        BY <1>sp, <4>1
      <4> QED BY <3>1, <3>2, <4>1, <4>2 DEF GranulePasses
    <3> QED BY <3>3, <3>4, <3>5
  <2> QED BY <1>2, <2>1, <2>2, <2>3
<1>22. DeniedFail'
  <2>1. SUFFICES ASSUME NEW x \in denied'
                 PROVE  /\ x \in Nat /\ x < Window /\ ~LastSpanned(shadow'[Floor(x)], x % G)
                        /\ shadow'[Floor(x)] = Returned => StackLow <= x /\ x < Sp
    BY <1>18 DEF DeniedFail, GranulePasses
  <2>2. /\ x \in Nat /\ x < Window /\ ~GranulePasses(x)
        /\ shadow[Floor(x)] = Returned => StackLow <= x /\ x < Sp
    BY <1>1, <1>2 DEF DeniedFail
  <2>3. ~(low <= x /\ x < e)
    BY <1>61, <1>5, <1>6, <2>1, <2>2
  <2>4. ~(low <= x /\ x < high)
    BY <1>5, <1>7, <2>2, <2>3
  <2>5. CASE high <= x /\ x < high + G /\ partial
    <3>1. ~(x < e)
      BY <1>6, <1>7, <1>11, <2>2, <2>3, <2>5
    <3> QED BY <1>14, <2>2, <2>5, <3>1
  <2>6. CASE ~(high <= x /\ x < high + G /\ partial)
    BY <1>14, <2>2, <2>4, <2>6 DEF GranulePasses
  <2> QED BY <2>5, <2>6
<1> QED BY <1>15, <1>16, <1>18, <1>22, <1>23 DEF ShadowInv

-----------------------------------------------------------------------------
(* What a guard decides, byte by byte *)

LEMMA Multiples ==
  ASSUME NEW i \in Nat, NEW j \in Nat
  PROVE  (i <= j <=> i * G <= j * G) /\ (i < j <=> i * G < j * G) /\ i * G \in Nat /\ Aligned(i * G)
<1>1. i * G \in Nat /\ j * G \in Nat
  BY ShadowConstants
<1>2. ASSUME NEW k \in Nat, NEW l \in Nat, k < l PROVE k * G < l * G
  <2>1. l - (k + 1) \in Nat
    BY <1>2
  <2>2. (l - (k + 1)) * G \in Nat /\ k * G \in Nat
    BY <2>1, ShadowConstants
  <2>3. l * G = k * G + G + (l - (k + 1)) * G
    BY ShadowConstants
  <2> QED BY <2>2, <2>3, ShadowConstants
<1>3. (i < j => i * G < j * G) /\ (j < i => j * G < i * G)
  BY <1>2
<1>4. Aligned(i * G)
  <2>1. i * G = G * i
    BY ShadowConstants
  <2> QED BY <2>1, AlignedIs
<1> QED BY <1>1, <1>3, <1>4

LEMMA SpannedAre ==
  ASSUME NEW a \in Nat, NEW n \in Nat \ {0}, NEW g
  PROVE  g \in Spanned(a, n) <=> Aligned(g) /\ Floor(a) <= g /\ g <= Floor(a + n - 1)
<1> DEFINE p == a \div G
           z == a + n - 1
           q == z \div G
<1>1. z \in Nat /\ p \in Nat /\ q \in Nat
  <2>1. z \in Nat
    OBVIOUS
  <2> HIDE DEF z
  <2> QED BY <2>1, ShadowConstants
<1>2. Floor(a) = p * G /\ Floor(z) = q * G
  BY DEF Floor
<1>3. Spanned(a, n) = {i * G : i \in p..q}
  BY DEF Spanned
<1> HIDE DEF p, q, z
<1>4. ASSUME g \in Spanned(a, n) PROVE Aligned(g) /\ Floor(a) <= g /\ g <= Floor(z)
  <2>1. PICK i \in p..q : g = i * G
    BY <1>3, <1>4
  <2>2. i \in Nat /\ p <= i /\ i <= q
    BY <1>1
  <2> QED BY <1>1, <1>2, <2>1, <2>2, Multiples
<1>5. ASSUME Aligned(g), Floor(a) <= g, g <= Floor(z) PROVE g \in Spanned(a, n)
  <2>1. PICK i \in Nat : g = G * i
    BY <1>5, AlignedIs
  <2>2. g = i * G
    BY <2>1, ShadowConstants
  <2>3. p <= i /\ i <= q
    BY <1>1, <1>2, <1>5, <2>2, Multiples
  <2> QED BY <1>1, <1>3, <2>2, <2>3
<1> QED BY <1>4, <1>5 DEF z

ByteHolds(x, here) == LastSpanned(Settled(Floor(x), here), x % G)

LEMMA SettledKind ==
  ASSUME ShadowKinds, NEW here, NEW g \in Granules
  PROVE  /\ IsKind(Settled(g, here)) /\ ShadowBytes(Settled(g, here)) \in Nat
         /\ (shadow[g] # Returned => Settled(g, here) = shadow[g])
<1>1. IsKind(0)
  BY FullPasses DEF IsKind
<1>2. IsKind(Settled(g, here))
  BY <1>1 DEF ShadowKinds, Settled
<1>3. Settled(g, here) \in Nat
  BY <1>2 DEF IsKind
<1> QED BY <1>2, <1>3 DEF Settled, ShadowBytes

\* Passing one byte of a granule passes the ones before it.
LEMMA Downward ==
  ASSUME NEW v, ShadowBytes(v) \in Nat, NEW i \in Nat, NEW j \in Nat, i <= j, LastSpanned(v, j)
  PROVE  LastSpanned(v, i)
  BY DEF LastSpanned

LEMMA LeastIs ==
  ASSUME NEW S, S \subseteq Int, NEW x \in S, \A y \in S : x <= y
  PROVE  Min(S) = x
<1>1. Min(S) \in S /\ \A y \in S : Min(S) <= y
  BY DEF Min
<1>2. Min(S) \in Int /\ x \in Int /\ Min(S) <= x /\ x <= Min(S)
  BY <1>1
<1> QED BY <1>2

LEMMA GreaterIs ==
  ASSUME NEW x \in Nat, NEW y \in Nat
  PROVE  Max({x, y}) = IF x <= y THEN y ELSE x
<1>1. \E z \in {x, y} : \A t \in {x, y} : z >= t
  <2>1. CASE x <= y
    BY <2>1
  <2>2. CASE y <= x
    BY <2>2
  <2> QED BY <2>1, <2>2
<1>2. Max({x, y}) \in {x, y} /\ \A t \in {x, y} : Max({x, y}) >= t
  BY <1>1 DEF Max
<1> QED BY <1>2

\* The last byte of [a, end) in granule g, and the granules of the range.
LEMMA LastOf ==
  ASSUME ShadowKinds, NEW here, NEW a \in Nat, NEW end \in Nat, a < end, end <= Window,
         NEW g \in Spanned(a, end - a)
  PROVE  LET y == Min({g + G, end}) - 1 IN
         /\ g \in Granules /\ g \in Nat /\ Aligned(g) /\ a < g + G
         /\ y \in Nat /\ a <= y /\ y < end /\ g <= y /\ y < g + G /\ Floor(y) = g
         /\ \A x \in Nat : Floor(x) = g /\ x < end => x <= y
         /\ Holds(g, a, end - a, here) <=> ByteHolds(y, here)
<1> DEFINE h == Min({g + G, end})
           y == h - 1
<1>1. /\ end - a \in Nat \ {0} /\ a + (end - a) - 1 = end - 1 /\ a + (end - a) = end
      /\ end - 1 \in Nat
  OBVIOUS
<1>2. Aligned(g) /\ g \in Nat /\ Floor(a) <= g /\ g <= Floor(end - 1)
  BY <1>1, SpannedAre DEF Aligned
<1>3. g <= end - 1 /\ a < g + G
  <2>1. Floor(a) \in Nat /\ a < Floor(a) + G
    BY FloorFacts
  <2>2. Floor(end - 1) \in Nat /\ Floor(end - 1) <= end - 1
    BY <1>1, FloorFacts
  <2> QED BY <1>1, <1>2, <2>1, <2>2, ShadowConstants
<1>4. g \in Granules
  BY <1>2, <1>3, GranulesAre, ShadowConstants
<1>5. h = IF g + G <= end THEN g + G ELSE end
  BY <1>2, LesserIs, ShadowConstants
<1> HIDE DEF h
<1>6. h \in Nat /\ y \in Nat /\ a <= y /\ y < end /\ g <= y /\ y < g + G
  BY <1>2, <1>3, <1>5, ShadowConstants
<1>7. Floor(y) = g
  BY <1>2, <1>6, FloorIs
<1>8. y % G = y - g
  BY <1>6, <1>7, FloorFacts
<1>9. ASSUME NEW x \in Nat, Floor(x) = g, x < end PROVE x <= y
  <2>1. x < g + G
    BY <1>9, FloorFacts
  <2> QED BY <1>2, <1>5, <1>9, <2>1, ShadowConstants
<1> DEFINE v == Settled(g, here)
<1>10. ShadowBytes(v) \in Nat
  BY <1>4, SettledKind
<1>11. Holds(g, a, end - a, here) <=> ShadowFull(v) \/ (~ShadowPoison(v) /\ h <= g + ShadowBytes(v))
  BY <1>1 DEF Holds, h
<1>12. ByteHolds(y, here) <=> ShadowFull(v) \/ (~ShadowPoison(v) /\ y - g < ShadowBytes(v))
  BY <1>7, <1>8 DEF ByteHolds, LastSpanned
<1> HIDE DEF v
<1>13. h <= g + ShadowBytes(v) <=> y - g < ShadowBytes(v)
  BY <1>2, <1>6, <1>10
<1>14. Holds(g, a, end - a, here) <=> ByteHolds(y, here)
  BY <1>11, <1>12, <1>13
<1> QED BY <1>2, <1>3, <1>4, <1>6, <1>7, <1>9, <1>14 DEF h

LEMMA GranuleSpanned ==
  ASSUME NEW a \in Nat, NEW end \in Nat, a < end, end <= Window, NEW x \in Nat, a <= x, x < end
  PROVE  Floor(x) \in Spanned(a, end - a) /\ Floor(x) \in Granules
<1>1. /\ end - a \in Nat \ {0} /\ a + (end - a) - 1 = end - 1 /\ end - 1 \in Nat /\ x <= end - 1 /\ x < Window
  BY ShadowConstants
<1>2. Aligned(Floor(x)) /\ Floor(x) \in Granules
  BY <1>1, FloorFacts, InWindowFloor
<1>3. Floor(a) <= Floor(x)
  <2>1. Floor(a) <= a /\ Aligned(Floor(a)) /\ Floor(a) \in Nat
    BY FloorFacts
  <2>2. Floor(a) <= x
    BY <2>1
  <2> QED BY <2>1, <2>2, FloorIs
<1>4. Floor(x) <= Floor(end - 1)
  <2>1. Floor(x) <= x /\ Floor(x) \in Nat
    BY FloorFacts
  <2>2. Floor(x) <= end - 1
    BY <1>1, <2>1
  <2> QED BY <1>1, <1>2, <2>2, FloorIs
<1> QED BY <1>1, <1>2, <1>3, <1>4, SpannedAre

LEMMA GuardDecides ==
  ASSUME ShadowKinds, NEW here, NEW a \in Nat, a < Window, NEW n \in Nat \ {0}
  PROVE  LET end == Min({a + n, Window}) IN
         /\ end \in Nat /\ a < end /\ end <= Window /\ end <= a + n /\ (a + n <= Window => end = a + n)
         /\ FirstUnaddressable(a, n, here) = {} <=> \A x \in a..(end - 1) : ByteHolds(x, here)
         /\ \A x \in a..(end - 1) :
               ~ByteHolds(x, here) /\ (\A y \in a..(x - 1) : ByteHolds(y, here))
                 => FirstUnaddressable(a, n, here) = {x}
         /\ \A x \in Nat : a <= x /\ x < a + n /\ x < Window => x \in a..(end - 1)
<1> DEFINE end == Min({a + n, Window})
           bad == {g \in Spanned(a, end - a) : ~Holds(g, a, end - a, here)}
           first == FirstUnaddressable(a, n, here)
<1>1. end = IF a + n <= Window THEN a + n ELSE Window
  BY LesserIs, ShadowConstants
<1>2. first = IF n = 0 \/ ~InWindow(a) \/ bad = {} THEN {}
              ELSE LET g == Min(bad)
                       v == Settled(g, here)
                   IN  {Max({a, IF ShadowPoison(v) THEN g ELSE g + ShadowBytes(v)})}
  BY DEF FirstUnaddressable
<1> HIDE DEF end, first
<1>3. end \in Nat /\ a < end /\ end <= Window /\ end <= a + n /\ (a + n <= Window => end = a + n)
  BY <1>1, ShadowConstants
<1>4. InWindow(a) /\ n # 0
  BY DEF InWindow
<1>5. first = {} <=> bad = {}
  BY <1>2, <1>4
<1>6. ASSUME NEW x \in a..(end - 1), ~ByteHolds(x, here)
      PROVE  Floor(x) \in bad
  <2>1. x \in Nat /\ a <= x /\ x < end
    BY <1>3
  <2>2. Floor(x) \in Spanned(a, end - a) /\ Floor(x) \in Granules
    BY <1>3, <2>1, GranuleSpanned
  <2> DEFINE g == Floor(x)
             y == Min({g + G, end}) - 1
  <2>3. /\ g \in Nat /\ y \in Nat /\ g <= y /\ Floor(y) = g /\ x <= y
        /\ Holds(g, a, end - a, here) <=> ByteHolds(y, here)
    BY <1>3, <2>1, <2>2, LastOf
  <2> HIDE DEF y
  <2>4. ShadowBytes(Settled(g, here)) \in Nat
    BY <2>2, SettledKind
  <2>5. x % G = x - g /\ y % G = y - g /\ g <= x
    BY <2>1, <2>3, FloorFacts
  <2>6. ~ByteHolds(y, here)
    <3>1. SUFFICES ASSUME LastSpanned(Settled(g, here), y % G) PROVE LastSpanned(Settled(g, here), x % G)
      BY <1>6, <2>3 DEF ByteHolds
    <3>2. x % G \in Nat /\ y % G \in Nat /\ x % G <= y % G
      BY <2>1, <2>3, <2>5
    <3> QED BY <2>4, <3>1, <3>2, Downward
  <2> QED BY <2>2, <2>3, <2>6
<1>7. ASSUME NEW g \in bad
      PROVE  \E y \in a..(end - 1) : Floor(y) = g /\ ~ByteHolds(y, here)
  <2> DEFINE y == Min({g + G, end}) - 1
  <2>1. g \in Spanned(a, end - a) /\ ~Holds(g, a, end - a, here)
    OBVIOUS
  <2>2. /\ y \in Nat /\ a <= y /\ y < end /\ Floor(y) = g
        /\ Holds(g, a, end - a, here) <=> ByteHolds(y, here)
    BY <1>3, <2>1, LastOf
  <2> HIDE DEF y
  <2>3. y \in a..(end - 1)
    BY <1>3, <2>2
  <2> QED BY <2>1, <2>2, <2>3
<1> HIDE DEF bad
<1>8. first = {} <=> \A x \in a..(end - 1) : ByteHolds(x, here)
  BY <1>5, <1>6, <1>7
<1>9. ASSUME NEW x \in a..(end - 1), ~ByteHolds(x, here), \A y \in a..(x - 1) : ByteHolds(y, here)
      PROVE  first = {x}
  <2> DEFINE g == Floor(x)
             v == Settled(g, here)
  <2>1. x \in Nat /\ a <= x /\ x < end
    BY <1>3
  <2>2. g \in bad
    BY <1>6, <1>9
  <2>3. g \in Nat /\ Aligned(g) /\ g <= x /\ x < g + G /\ x % G = x - g
    BY <2>1, FloorFacts
  <2>4. \A h \in bad : h \in Nat /\ g <= h
    <3>1. SUFFICES ASSUME NEW h \in bad PROVE h \in Nat /\ g <= h
      OBVIOUS
    <3>2. PICK y \in a..(end - 1) : Floor(y) = h /\ ~ByteHolds(y, here)
      BY <1>7
    <3>3. y \in Nat /\ x <= y
      BY <1>3, <1>9, <2>1, <3>2
    <3>4. h \in Nat
      BY <3>2, <3>3, FloorFacts
    <3>5. g <= y
      BY <2>1, <2>3, <3>3
    <3> QED BY <2>3, <3>2, <3>3, <3>4, <3>5, FloorIs
  <2>5. Min(bad) = g
    BY <2>2, <2>4, LeastIs
  <2>6. first = {Max({a, IF ShadowPoison(v) THEN g ELSE g + ShadowBytes(v)})}
    BY <1>2, <1>4, <2>2, <2>5
  <2>7. g \in Granules /\ ShadowBytes(v) \in Nat
    <3>1. g \in Granules
      BY <1>3, <2>1, GranuleSpanned
    <3> QED BY <3>1, SettledKind
  <2>8. ~ShadowFull(v) /\ ~(~ShadowPoison(v) /\ x - g < ShadowBytes(v))
    BY <1>9, <2>3 DEF ByteHolds, LastSpanned
  <2> DEFINE t == IF ShadowPoison(v) THEN g ELSE g + ShadowBytes(v)
  <2> HIDE DEF v, g
  <2>9. t \in Nat /\ t <= x
    BY <2>1, <2>3, <2>7, <2>8
  <2>10. x = a \/ x = t
    <3>1. SUFFICES ASSUME x > a, x > t PROVE FALSE
      BY <2>1, <2>9
    <3>0. g <= t
      BY <2>3, <2>7
    <3>2. x - 1 \in Nat /\ x - 1 \in a..(x - 1) /\ g <= x - 1 /\ x - 1 < g + G
      BY <2>1, <2>3, <2>9, <3>0, <3>1, ShadowConstants
    <3>3. Floor(x - 1) = g
      BY <2>3, <3>2, FloorIs
    <3>4. (x - 1) % G = x - 1 - g
      BY <3>2, <3>3, FloorFacts
    <3>5. ByteHolds(x - 1, here)
      BY <1>9, <3>2
    <3>6. ~ShadowPoison(v) /\ x - 1 - g < ShadowBytes(v)
      BY <2>8, <3>3, <3>4, <3>5 DEF ByteHolds, LastSpanned, v
    <3> QED BY <2>1, <2>3, <2>7, <3>1, <3>6
  <2>11. Max({a, t}) = x
    BY <2>1, <2>9, <2>10, GreaterIs
  <2> QED BY <2>6, <2>11
<1>10. ASSUME NEW x \in Nat, a <= x, x < a + n, x < Window PROVE x \in a..(end - 1)
  BY <1>1, <1>10, ShadowConstants
<1> QED BY <1>3, <1>8, <1>9, <1>10 DEF end, first

LEMMA AllowedHolds ==
  ASSUME ShadowInv, NEW x \in allowed \ spoiled
  PROVE  x \in Nat /\ x < Window /\ ByteHolds(x, Here)
<1>1. ShadowKinds /\ SizesKept /\ FramesStacked /\ AllowedPass
  BY DEF ShadowInv
<1>2. x \in Nat /\ x < Window /\ Owned(x) /\ (GranulePasses(x) \/ shadow[Floor(x)] = Returned)
  BY <1>1 DEF AllowedPass
<1> DEFINE g == Floor(x)
<1>3. g \in Nat /\ g <= x /\ x < g + G
  BY <1>2, FloorFacts
<1>4. CASE shadow[g] # Returned
  <2>1. Settled(g, Here) = shadow[g] /\ GranulePasses(x)
    BY <1>2, <1>4 DEF Settled
  <2> QED BY <1>2, <2>1 DEF ByteHolds, GranulePasses
<1>5. CASE shadow[g] = Returned
  <2>1. ~(g + G <= Here /\ g >= StackLow /\ Here < StackTop)
    <3>1. SUFFICES ASSUME g + G <= Here, g >= StackLow PROVE FALSE
      OBVIOUS
    <3>2. Sp \in Nat /\ Sp <= StackTop /\ Here = Sp - EntryBytes
      BY <1>1, StackPointer
    <3>3. StackLow <= x /\ x < Sp /\ x < StackTop
      BY <1>2, <1>3, <3>1, <3>2, ShadowConstants
    <3>4. CASE \E b \in Slots : size[b] >= 0 /\ b <= x /\ x < b + size[b]
      <4>1. PICK b \in Slots : size[b] >= 0 /\ b <= x /\ x < b + size[b]
        BY <3>4
      <4>2. size[b] \in Nat /\ size[b] < SlotBytes /\ b \in Nat
        BY <1>1, <4>1, LiveSize
      <4>3. b + SlotBytes <= StackLow \/ StackTop <= b
        BY SlotPlace
      <4> QED BY <1>2, <3>3, <4>1, <4>2, <4>3, ShadowConstants
    <3>5. CASE registered /\ GlobalAt <= x /\ x < GlobalAt + GlobalSize
      BY <1>2, <3>3, <3>5, GlobalFacts, ShadowConstants
    <3>6. CASE Sp <= x
      BY <1>2, <3>2, <3>3, <3>6
    <3> QED BY <1>2, <3>4, <3>5, <3>6 DEF Owned
  <2>2. Settled(g, Here) = 0
    BY <1>5, <2>1 DEF Settled
  <2> QED BY <1>2, <2>2, FullPasses DEF ByteHolds
<1> QED BY <1>4, <1>5

LEMMA RefusedFails ==
  ASSUME ShadowInv, NEW x \in Refused
  PROVE  x \in Nat /\ x < Window /\ ~ByteHolds(x, Here)
<1>1. ShadowKinds /\ FramesStacked /\ DeniedFail
  BY DEF ShadowInv
<1>2. x \in denied /\ x \notin Bytes(Here, EntryBytes)
  BY DEF Refused
<1>3. /\ x \in Nat /\ x < Window /\ ~GranulePasses(x)
      /\ shadow[Floor(x)] = Returned => StackLow <= x /\ x < Sp
  BY <1>1, <1>2 DEF DeniedFail
<1> DEFINE g == Floor(x)
<1>4. g \in Nat /\ Aligned(g) /\ g <= x
  BY <1>3, FloorFacts
<1>5. Settled(g, Here) = shadow[g]
  <2>1. CASE shadow[g] # Returned
    BY <2>1 DEF Settled
  <2>2. CASE shadow[g] = Returned
    <3>1. Sp \in Nat /\ Aligned(Sp) /\ Sp <= StackTop /\ Here \in Int /\ Here = Sp - EntryBytes
      BY <1>1, StackPointer
    <3>2. StackLow <= x /\ x < Sp
      BY <1>3, <2>2
    <3>3. x < Here
      BY <1>2, <1>3, <3>1, <3>2, ShadowConstants DEF Bytes
    <3>4. Aligned(Here)
      <4>1. EntryBytes <= Sp /\ Aligned(EntryBytes)
        BY <1>3, <3>1, <3>3, AlignedConstants, ShadowConstants
      <4> QED BY <3>1, <4>1, AlignedSums
    <3>5. g < Here /\ StackLow <= g
      <4>1. Aligned(StackLow)
        BY AlignedConstants
      <4> QED BY <1>3, <3>2, <3>3, <3>4, <4>1, FloorIs
    <3>6. g + G <= Here
      BY <1>4, <3>4, <3>5, AlignedSums
    <3>7. Here < StackTop
      BY <3>1, ShadowConstants
    <3> QED BY <2>2, <3>5, <3>6, <3>7 DEF Settled
  <2> QED BY <2>1, <2>2
<1> QED BY <1>3, <1>5 DEF ByteHolds, GranulePasses

LEMMA AskedBytes ==
  ASSUME ShadowKinds, NEW a \in Asked
  PROVE  a \in Nat /\ a < Window
<1>1. PICK g \in Granules : a \in g..(g + G - 1)
  BY DEF Asked, ShadowKinds
<1>2. g \in Nat /\ g < Window /\ Aligned(g)
  BY GranulesAre, GranuleByte
<1>3. g + G <= Window
  BY <1>2, AlignedConstants, AlignedSums
<1> QED BY <1>1, <1>2, <1>3, ShadowConstants

LEMMA PassesAllowed ==
  ASSUME ShadowInv, NEW a \in Nat, a < Window, NEW n \in Nat \ {0}, Bytes(a, n) \subseteq allowed \ spoiled
  PROVE  FirstUnaddressable(a, n, Here) = {}
<1> DEFINE end == Min({a + n, Window})
           h == Here
<1>1. ShadowKinds
  BY DEF ShadowInv
<1>2. /\ end \in Nat /\ end <= a + n
      /\ FirstUnaddressable(a, n, h) = {} <=> \A x \in a..(end - 1) : ByteHolds(x, h)
  BY <1>1, GuardDecides
<1> HIDE DEF end
<1>3. ASSUME NEW x \in a..(end - 1) PROVE ByteHolds(x, h)
  <2>1. x \in Bytes(a, n)
    BY <1>2 DEF Bytes
  <2> QED BY <2>1, AllowedHolds
<1> QED BY <1>2, <1>3

LEMMA RefusesDenied ==
  ASSUME ShadowInv, NEW a \in Nat, a < Window, NEW n \in Nat \ {0}, Bytes(a, n) \cap Refused # {}
  PROVE  /\ FirstUnaddressable(a, n, Here) # {}
         /\ Bytes(a, n) \ Refused \subseteq allowed \ spoiled
               => FirstUnaddressable(a, n, Here) = {Min(Bytes(a, n) \cap Refused)}
<1> DEFINE end == Min({a + n, Window})
           h == Here
           bad == Bytes(a, n) \cap Refused
           x == Min(bad)
<1>1. ShadowKinds
  BY DEF ShadowInv
<1>2. /\ end \in Nat
      /\ FirstUnaddressable(a, n, h) = {} <=> \A y \in a..(end - 1) : ByteHolds(y, h)
      /\ \A y \in a..(end - 1) :
            ~ByteHolds(y, h) /\ (\A u \in a..(y - 1) : ByteHolds(u, h))
                 => FirstUnaddressable(a, n, h) = {y}
      /\ \A y \in Nat : a <= y /\ y < a + n /\ y < Window => y \in a..(end - 1)
  BY <1>1, GuardDecides
<1> HIDE DEF end
<1>3. \A y \in Int : y \in Bytes(a, n) <=> a <= y /\ y < a + n
  BY DEF Bytes
<1>4. bad \in SUBSET Nat /\ bad # {}
  <2>1. Bytes(a, n) \subseteq Nat
    BY DEF Bytes
  <2> QED BY <2>1
<1>5. x \in bad /\ \A y \in bad : x <= y
  BY <1>4, LeastOf
<1> HIDE DEF x
<1>6. x \in Nat /\ x < Window /\ ~ByteHolds(x, h) /\ a <= x /\ x < a + n
  BY <1>3, <1>5, RefusedFails
<1>7. x \in a..(end - 1)
  BY <1>2, <1>6
<1>8. ASSUME Bytes(a, n) \ Refused \subseteq allowed \ spoiled, NEW u \in a..(x - 1)
      PROVE  ByteHolds(u, h)
  <2>1. u \in Nat /\ u < x /\ u \in Bytes(a, n)
    BY <1>3, <1>6
  <2>2. u \notin bad
    BY <1>5, <1>6, <2>1
  <2>3. u \in allowed \ spoiled
    BY <1>8, <2>1, <2>2
  <2> QED BY <2>3, AllowedHolds
<1> QED BY <1>2, <1>6, <1>7, <1>8 DEF x

-----------------------------------------------------------------------------
(* The short forms *)

LEMMA ShiftedGranule ==
  ASSUME NEW a \in Nat, NEW i \in Nat
  PROVE  /\ a + i * G \in Nat /\ Floor(a) + i * G \in Nat /\ Aligned(Floor(a) + i * G)
         /\ Floor(a + i * G) = Floor(a) + i * G
         /\ ShadowAt(a + i * G) = ShadowAt(Floor(a) + i * G)
<1> DEFINE p == i * G
           b == a + p
           g == Floor(a) + p
<1>1. p \in Nat /\ Aligned(p)
  BY Multiples
<1>2. Floor(a) \in Nat /\ Aligned(Floor(a)) /\ Floor(a) <= a /\ a < Floor(a) + G
  BY FloorFacts
<1> HIDE DEF p
<1>3. b \in Nat /\ g \in Nat /\ Aligned(g) /\ g <= b /\ b < g + G
  BY <1>1, <1>2, AlignedSums, ShadowConstants
<1> HIDE DEF b, g
<1>4. Floor(b) = g /\ Floor(g) = g
  BY <1>3, FloorIs, FloorFacts
<1>5. b < Window <=> g < Window
  BY <1>3, <1>4, AlignedConstants, FloorIs
<1>6. ShadowAt(b) = ShadowAt(g)
  BY <1>3, <1>4, <1>5 DEF ShadowAt, InWindow
<1> QED BY <1>3, <1>4, <1>6 DEF b, g, p

LEMMA QuickIs ==
  ASSUME NEW a \in Nat, a < Window, NEW n \in Nat \ {0}
  PROVE  LET z == a + n - 1 IN
         QuickOk(a, n) <=> /\ n <= (Chunk - 1) * G + 1
                           /\ \A g \in Spanned(a, n) : g < Floor(z) => ShadowFull(ShadowAt(g))
                           /\ LastSpanned(ShadowAt(Floor(z)), z % G)
<1> DEFINE z == a + n - 1
           f == Floor(a)
           last == (a % G) + n - 1
           q == last \div G
<1>1. f \in Nat /\ Aligned(f) /\ f <= a /\ a < f + G /\ a % G = a - f
  BY FloorFacts
<1>2. z \in Nat /\ last \in Nat /\ last = z - f
  <2> HIDE DEF f
  <2> QED BY <1>1
<1>3. Floor(last) = q * G /\ q \in Nat
  <2> HIDE DEF last
  <2> QED BY <1>2, ShadowConstants DEF Floor
<1>4. /\ Floor(last) \in Nat /\ Aligned(Floor(last)) /\ Floor(last) <= last /\ last < Floor(last) + G
      /\ last % G = last - Floor(last)
  BY <1>2, FloorFacts
<1>5. Floor(z) = f + Floor(last) /\ z % G = last % G
  <2> HIDE DEF f, z, last
  <2>1. Aligned(f + Floor(last)) /\ f + Floor(last) <= z /\ z < f + Floor(last) + G
    BY <1>1, <1>2, <1>4, AlignedSums, ShadowConstants
  <2>2. Floor(z) = f + Floor(last)
    BY <1>2, <2>1, FloorIs
  <2>3. z % G = z - Floor(z)
    BY <1>2, FloorFacts
  <2> QED BY <1>1, <1>2, <1>4, <2>2, <2>3
<1>6. QuickOk(a, n) <=> /\ n <= (Chunk - 1) * G + 1
                        /\ \A i \in 0..(q - 1) : ShadowFull(ShadowAt(a + i * G))
                        /\ LastSpanned(ShadowAt(f + Floor(last)), last % G)
  <2>1. n # 0 /\ InWindow(a)
    BY DEF InWindow
  <2> QED BY <2>1 DEF QuickOk
<1> HIDE DEF f, z, last, q
<1>7. ASSUME NEW i \in 0..(q - 1)
      PROVE  f + i * G \in Spanned(a, n) /\ f + i * G < Floor(z) /\ ShadowAt(a + i * G) = ShadowAt(f + i * G)
  <2>1. i \in Nat /\ i < q
    BY <1>3
  <2>2. i * G \in Nat /\ i * G < q * G
    BY <1>3, <2>1, Multiples
  <2>3. f + i * G < Floor(z) /\ f <= f + i * G /\ Floor(z) \in Nat
    BY <1>1, <1>3, <1>4, <1>5, <2>2
  <2>4. Aligned(f + i * G) /\ ShadowAt(a + i * G) = ShadowAt(f + i * G) /\ f + i * G \in Nat
    BY <2>1, ShiftedGranule DEF f
  <2>5. f + i * G \in Spanned(a, n)
    BY <2>3, <2>4, SpannedAre DEF f, z
  <2> QED BY <2>3, <2>4, <2>5
<1>8. ASSUME NEW g \in Spanned(a, n), g < Floor(z)
      PROVE  \E i \in 0..(q - 1) : g = f + i * G
  <2>1. Aligned(g) /\ f <= g /\ g \in Nat
    BY SpannedAre DEF f, Aligned
  <2>2. Aligned(g - f)
    BY <1>1, <2>1, AlignedSums
  <2>3. PICK i \in Nat : g - f = G * i
    BY <2>2, AlignedIs
  <2>4. g - f = i * G /\ i * G \in Nat
    BY <2>3, ShadowConstants
  <2>5. i * G < q * G
    BY <1>1, <1>3, <1>4, <1>5, <1>8, <2>1, <2>4
  <2>6. i < q
    BY <1>3, <2>5, Multiples
  <2>7. i \in 0..(q - 1) /\ g = f + i * G
    BY <1>1, <1>3, <2>1, <2>4, <2>6
  <2> QED BY <2>7
<1>9. (\A i \in 0..(q - 1) : ShadowFull(ShadowAt(a + i * G)))
        <=> (\A g \in Spanned(a, n) : g < Floor(z) => ShadowFull(ShadowAt(g)))
  BY <1>7, <1>8
<1> QED BY <1>5, <1>6, <1>9 DEF z

\* The granules before the last are full and the last holds the end: so does
\* every byte.
LEMMA FullRangeHolds ==
  ASSUME ShadowKinds, NEW here, NEW a \in Nat, a < Window, NEW n \in Nat \ {0}, NEW z, z = a + n - 1,
         \A g \in Spanned(a, n) : g < Floor(z) => ShadowFull(ShadowAt(g)),
         LastSpanned(ShadowAt(Floor(z)), z % G)
  PROVE  FirstUnaddressable(a, n, here) = {}
<1> DEFINE end == Min({a + n, Window})
<1>1. /\ end \in Nat /\ a < end /\ end <= Window /\ end <= a + n
      /\ FirstUnaddressable(a, n, here) = {} <=> \A x \in a..(end - 1) : ByteHolds(x, here)
  BY GuardDecides
<1> HIDE DEF end
<1>2. SUFFICES ASSUME NEW x \in a..(end - 1) PROVE ByteHolds(x, here)
  BY <1>1
<1>3. x \in Nat /\ a <= x /\ x <= z /\ x < Window /\ z \in Nat /\ x < end
  <2>1. x \in Nat /\ a <= x /\ x < end
    BY <1>1, <1>2
  <2>2. x < Window /\ x < a + n
    BY <1>1, <2>1, ShadowConstants
  <2> QED BY <2>1, <2>2
<1> DEFINE g == Floor(x)
<1>4. g \in Nat /\ Aligned(g) /\ g <= x /\ x % G = x - g /\ g \in Granules /\ Floor(g) = g /\ g < Window
  BY <1>3, FloorFacts, InWindowFloor, GranuleByte
<1>5. ShadowAt(g) = shadow[g]
  BY <1>4 DEF ShadowAt, InWindow
<1>6. g <= Floor(z)
  <2>1. g <= z
    BY <1>3, <1>4
  <2> QED BY <1>3, <1>4, <2>1, FloorIs
<1>7. g \in Spanned(a, n)
  <2>1. Floor(a) \in Nat /\ Floor(a) <= a /\ Aligned(Floor(a))
    BY FloorFacts
  <2>2. Floor(a) <= x
    BY <1>3, <2>1
  <2>3. Floor(a) <= g
    BY <1>3, <2>1, <2>2, FloorIs
  <2> QED BY <1>4, <1>6, <2>3, SpannedAre
<1> HIDE DEF g
<1>8. shadow[g] \in Nat /\ ShadowBytes(shadow[g]) \in Nat
  BY <1>4 DEF ShadowKinds, IsKind, ShadowBytes
<1>9. LastSpanned(shadow[g], x % G)
  <2>1. CASE g < Floor(z)
    <3>1. ShadowFull(shadow[g])
      BY <1>5, <1>7, <2>1
    <3> QED BY <3>1 DEF LastSpanned
  <2>2. CASE g = Floor(z)
    <3>1. LastSpanned(shadow[g], z % G)
      BY <1>5, <2>2
    <3>2. z % G = z - g
      BY <1>3, <2>2, FloorFacts
    <3>3. x % G \in Nat /\ z % G \in Nat /\ x % G <= z % G
      BY <1>3, <1>4, <1>6, <2>2, <3>2
    <3> QED BY <1>8, <3>1, <3>3, Downward
  <2>3. Floor(z) \in Nat
    BY <1>3, FloorFacts
  <2> QED BY <1>4, <1>6, <2>1, <2>2, <2>3
<1>10. shadow[g] # Returned
  BY <1>9, PoisonFails
<1> QED BY <1>4, <1>9, <1>10, SettledKind DEF ByteHolds, g

LEMMA AllIs ==
  ASSUME NEW a \in Nat, a < Window, NEW n \in Nat \ {0}, a + n <= Window, NEW z, z = a + n - 1
  PROVE  AllAddressable(a, n) <=> /\ \A g \in Spanned(a, n) : g < Floor(z) => ShadowFull(ShadowAt(g))
                                  /\ LastSpanned(ShadowAt(Floor(z)), z % G)
<1>1. z \in Nat /\ z < Window
  BY ShadowConstants
<1>2. InWindow(a) /\ InWindow(z) /\ n # 0
  BY <1>1 DEF InWindow
<1>3. Floor(z) \in Granules /\ Floor(z) \in Nat
  BY <1>1, InWindowFloor
<1>4. \A g \in Spanned(a, n) : g \in Nat /\ g <= Floor(z) /\ ShadowAt(g) = shadow[g]
  <2>1. SUFFICES ASSUME NEW g \in Spanned(a, n) PROVE g \in Nat /\ g <= Floor(z) /\ ShadowAt(g) = shadow[g]
    OBVIOUS
  <2>2. Aligned(g) /\ g \in Nat /\ g <= Floor(z)
    BY SpannedAre DEF Aligned
  <2>3. g < Window /\ Floor(g) = g
    BY <1>3, <2>2, GranuleByte, FloorFacts, ShadowConstants
  <2> QED BY <2>2, <2>3 DEF ShadowAt, InWindow
<1>5. ShadowAt(Floor(z)) = shadow[Floor(z)]
  BY <1>3, GranuleByte DEF ShadowAt, InWindow
<1>6. \A g \in Spanned(a, n) : g # Floor(z) <=> g < Floor(z)
  BY <1>3, <1>4
<1>7. a + n - 1 = z
  OBVIOUS
<1> QED BY <1>2, <1>4, <1>5, <1>6, <1>7 DEF AllAddressable

LEMMA FastPasses ==
  ASSUME ShadowKinds, NEW here, NEW a \in Nat, a < Window, NEW n \in Nat \ {0},
         QuickOk(a, n) \/ AllAddressable(a, n)
  PROVE  FirstUnaddressable(a, n, here) = {}
<1> DEFINE z == a + n - 1
<1>1. CASE QuickOk(a, n)
  BY <1>1, QuickIs, FullRangeHolds
<1>2. CASE AllAddressable(a, n)
  <2>1. InWindow(z)
    BY <1>2 DEF AllAddressable
  <2>2. a + n <= Window
    BY <2>1, ShadowConstants DEF InWindow
  <2> QED BY <1>2, <2>2, AllIs, FullRangeHolds
<1> QED BY <1>1, <1>2

LEMMA FullMeansFast ==
  ASSUME ShadowKinds, NEW here, NEW a \in Nat, a < Window, NEW n \in Nat \ {0}, a + n <= Window,
         FirstUnaddressable(a, n, here) = {}, ~(\E g \in Spanned(a, n) : ShadowAt(g) = Returned)
  PROVE  AllAddressable(a, n) /\ (n <= (Chunk - 1) * G + 1 => QuickOk(a, n))
<1> DEFINE z == a + n - 1
<1>1. \A x \in a..(a + n - 1) : ByteHolds(x, here)
  <2> DEFINE end == Min({a + n, Window})
  <2>1. end = a + n /\ (FirstUnaddressable(a, n, here) = {} <=> \A x \in a..(end - 1) : ByteHolds(x, here))
    BY GuardDecides
  <2> HIDE DEF end
  <2>2. end - 1 = a + n - 1
    BY <2>1
  <2> QED BY <2>1, <2>2
<1>2. z \in Nat /\ z < Window /\ a <= z
  BY ShadowConstants
<1>3. ASSUME NEW x \in Nat, a <= x, x <= z
      PROVE  /\ Floor(x) \in Spanned(a, n) /\ Floor(x) \in Granules
             /\ LastSpanned(shadow[Floor(x)], x % G) /\ ShadowAt(Floor(x)) = shadow[Floor(x)]
  <2>1. Floor(x) \in Spanned(a, n) /\ Floor(x) \in Granules
    <3>1. a + n \in Nat /\ a < a + n /\ x < a + n /\ a + n - a = n
      BY <1>3
    <3> QED BY <1>3, <3>1, GranuleSpanned
  <2>2. ShadowAt(Floor(x)) = shadow[Floor(x)]
    BY <2>1, GranuleByte DEF ShadowAt, InWindow
  <2>3. Settled(Floor(x), here) = shadow[Floor(x)]
    BY <2>1, <2>2, SettledKind
  <2>4. x \in a..(a + n - 1)
    BY <1>3
  <2> QED BY <1>1, <2>1, <2>2, <2>3, <2>4 DEF ByteHolds
<1> HIDE DEF z
<1>4. ASSUME NEW g \in Spanned(a, n), g < Floor(z) PROVE ShadowFull(ShadowAt(g))
  <2>1. Aligned(g) /\ g \in Nat /\ Floor(a) <= g
    BY SpannedAre DEF Aligned
  <2>2. Floor(z) \in Nat /\ Aligned(Floor(z)) /\ Floor(z) <= z /\ Floor(a) \in Nat /\ a < Floor(a) + G
    BY <1>2, FloorFacts
  <2>3. g + G <= Floor(z)
    BY <1>4, <2>1, <2>2, AlignedSums
  <2> DEFINE y == g + G - 1
  <2>4. y \in Nat /\ a <= y /\ y <= z /\ g <= y /\ y < g + G
    BY <1>2, <2>1, <2>2, <2>3, ShadowConstants
  <2>5. Floor(y) = g
    BY <2>1, <2>4, FloorIs
  <2>6. y % G = G - 1
    <3>1. y % G = y - g
      BY <2>4, <2>5, FloorFacts
    <3> QED BY <2>1, <3>1, ShadowConstants
  <2>7. LastSpanned(shadow[g], G - 1) /\ ShadowAt(g) = shadow[g] /\ g \in Granules
    BY <1>3, <2>4, <2>5, <2>6
  <2>8. IsKind(shadow[g])
    BY <2>7 DEF ShadowKinds
  <2>9. ShadowBytes(shadow[g]) \in Nat
    BY <2>8 DEF IsKind, ShadowBytes
  <2>10. ShadowFull(shadow[g])
    BY <2>7, <2>8, <2>9, ShadowConstants DEF IsKind, LastSpanned
  <2> QED BY <2>7, <2>10
<1>5. LastSpanned(ShadowAt(Floor(z)), z % G)
  BY <1>2, <1>3
<1>6. AllAddressable(a, n)
  BY <1>4, <1>5, AllIs DEF z
<1>7. n <= (Chunk - 1) * G + 1 => QuickOk(a, n)
  BY <1>4, <1>5, QuickIs DEF z
<1> QED BY <1>6, <1>7

\* A string of at most two granules with its end, scanned with room for three.
LEMMA StringExact ==
  ASSUME ShadowKinds, NEW here, NEW a \in Nat, a < Window, NEW n \in Nat \ {0}, n <= 2 * G
  PROVE  StringOk(a, a + n - 1, 3 * G, here) <=> FirstUnaddressable(a, n, here) = {}
<1> DEFINE max == 3 * G
           length == Min({(a + n - 1) - a, max})
           scanned == IF length < max THEN length + 1 ELSE max
           quick == /\ max >= 2 * G
                    /\ InWindow(a + 2 * G)
                    /\ \A i \in 0..(IF a % G # 0 THEN 2 ELSE 1) : ShadowFull(ShadowAt(a + i * G))
                    /\ a + n - 1 < a + 2 * G
<1>1. scanned = n
  <2>1. (a + n - 1) - a = n - 1 /\ n - 1 \in Nat /\ max \in Nat /\ n - 1 < max
    BY ShadowConstants
  <2>2. length = n - 1
    BY <2>1, LesserIs
  <2> QED BY <2>1, <2>2
<1>2. StringOk(a, a + n - 1, 3 * G, here)
        <=> quick \/ QuickOk(a, scanned) \/ FirstUnaddressable(a, scanned, here) = {}
  BY DEF StringOk
<1>3. ASSUME quick PROVE FirstUnaddressable(a, n, here) = {}
  <2> DEFINE end == Min({a + n, Window})
             f == Floor(a)
  <2>1. /\ end \in Nat /\ a < end /\ end <= Window /\ end <= a + n
        /\ FirstUnaddressable(a, n, here) = {} <=> \A x \in a..(end - 1) : ByteHolds(x, here)
    BY GuardDecides
  <2> HIDE DEF end
  <2>2. SUFFICES ASSUME NEW x \in a..(end - 1) PROVE ByteHolds(x, here)
    BY <2>1
  <2>3. x \in Nat /\ a <= x /\ x < a + 2 * G /\ x < Window
    BY <2>1, <2>2, ShadowConstants
  <2>4. f \in Nat /\ Aligned(f) /\ f <= a /\ a < f + G /\ a % G = a - f
    BY FloorFacts
  <2> DEFINE g == Floor(x)
  <2>5. g \in Nat /\ Aligned(g) /\ g <= x /\ x < g + G /\ g \in Granules
    BY <2>3, FloorFacts, InWindowFloor
  <2> HIDE DEF f, g
  <2>6. Aligned(f + G) /\ Aligned(f + G + G)
    BY <2>4, PlainG, AlignedSums
  <2>7. \/ g = f
        \/ g = f + G
        \/ g = f + G + G /\ a % G # 0
    <3>1. (x < f + G => g = f) /\ (f + G <= x /\ x < f + G + G => g = f + G)
          /\ (f + G + G <= x /\ x < f + G + G + G => g = f + G + G)
      BY <2>3, <2>4, <2>6, FloorIs DEF g
    <3>2. x < f + G + G + G /\ (f + G + G <= x => a # f)
      BY <2>3, <2>4, ShadowConstants
    <3> QED BY <2>3, <2>4, <3>1, <3>2, ShadowConstants
  <2>8. ShadowFull(ShadowAt(g))
    <3>1. \A i \in 0..(IF a % G # 0 THEN 2 ELSE 1) : ShadowFull(ShadowAt(f + i * G))
      <4>1. SUFFICES ASSUME NEW i \in 0..(IF a % G # 0 THEN 2 ELSE 1)
                     PROVE  ShadowFull(ShadowAt(f + i * G))
        OBVIOUS
      <4>2. i \in Nat
        OBVIOUS
      <4>3. ShadowFull(ShadowAt(a + i * G))
        BY <1>3
      <4> QED BY <4>2, <4>3, ShiftedGranule DEF f
    <3>2. f + 0 * G = f /\ f + 1 * G = f + G /\ f + 2 * G = f + G + G
      BY <2>4, ShadowConstants
    <3>3. 0 \in 0..(IF a % G # 0 THEN 2 ELSE 1) /\ 1 \in 0..(IF a % G # 0 THEN 2 ELSE 1)
          /\ (a % G # 0 => 2 \in 0..(IF a % G # 0 THEN 2 ELSE 1))
      OBVIOUS
    <3> QED BY <2>7, <3>1, <3>2, <3>3
  <2>9. ShadowAt(g) = shadow[g]
    BY <2>5, GranuleByte DEF ShadowAt, InWindow
  <2>10. shadow[g] # Returned
    BY <2>8, <2>9 DEF ShadowFull, Returned
  <2>11. Settled(g, here) = shadow[g]
    BY <2>5, <2>10, SettledKind
  <2> QED BY <2>8, <2>9, <2>11 DEF ByteHolds, LastSpanned, g
<1> HIDE DEF quick, scanned
<1>4. QuickOk(a, n) => FirstUnaddressable(a, n, here) = {}
  BY FastPasses
<1> QED BY <1>1, <1>2, <1>3, <1>4

-----------------------------------------------------------------------------
(* The theorem *)

LEMMA GuardsFollow ==
  ASSUME ShadowInv
  PROVE  GuardsExact
<1> DEFINE h == Here
<1>1. ShadowKinds
  BY DEF ShadowInv
<1>2. \A a \in Asked : a \in Nat /\ a < Window
  BY <1>1, AskedBytes
<1>3. 1 \in Nat \ {0} /\ G + 1 \in Nat \ {0} /\ 2 \in Nat \ {0} /\ 2 * G \in Nat \ {0}
      /\ 2 <= 2 * G /\ G + 1 <= 2 * G /\ 2 * G <= 2 * G
  BY ShadowConstants
<1>4. NoFalseAlarm
  <2>1. SUFFICES ASSUME NEW a \in Asked, NEW n \in {1, G + 1}, Bytes(a, n) \subseteq allowed \ spoiled
                 PROVE  FirstUnaddressable(a, n, Here) = {}
    BY DEF NoFalseAlarm
  <2>2. n \in Nat \ {0}
    BY <1>3
  <2> QED BY <1>2, <2>1, <2>2, PassesAllowed
<1>5. NoMissedByte
  <2>1. SUFFICES ASSUME NEW a \in Asked, NEW n \in {1, G + 1}, Bytes(a, n) \cap Refused # {}
                 PROVE  /\ FirstUnaddressable(a, n, Here) # {}
                        /\ Bytes(a, n) \ Refused \subseteq allowed \ spoiled
                             => FirstUnaddressable(a, n, Here) = {Min(Bytes(a, n) \cap Refused)}
    BY DEF NoMissedByte
  <2>2. n \in Nat \ {0}
    BY <1>3
  <2> QED BY <1>2, <2>1, <2>2, RefusesDenied
<1>6. FastPathsAgree
  <2>1. SUFFICES ASSUME NEW a \in Edges, NEW n \in {2, G + 1, 2 * G}
                 PROVE  /\ QuickOk(a, n) \/ AllAddressable(a, n) => FirstUnaddressable(a, n, Here) = {}
                        /\ (FirstUnaddressable(a, n, Here) = {}
                            /\ ~(\E g \in Spanned(a, n) : ShadowAt(g) = Returned) /\ a + n <= Window)
                              => (/\ AllAddressable(a, n)
                                  /\ (n <= (Chunk - 1) * G + 1 => QuickOk(a, n)))
                        /\ StringOk(a, a + n - 1, 3 * G, Here) <=> FirstUnaddressable(a, n, Here) = {}
    BY DEF FastPathsAgree
  <2>2. a \in Nat /\ a < Window
    BY <1>2 DEF Edges
  <2>3. n \in Nat \ {0} /\ n <= 2 * G
    BY <1>3
  <2>4. QuickOk(a, n) \/ AllAddressable(a, n) => FirstUnaddressable(a, n, Here) = {}
    BY <1>1, <2>2, <2>3, FastPasses
  <2>5. (FirstUnaddressable(a, n, Here) = {}
            /\ ~(\E g \in Spanned(a, n) : ShadowAt(g) = Returned) /\ a + n <= Window)
        => (/\ AllAddressable(a, n)
            /\ (n <= (Chunk - 1) * G + 1 => QuickOk(a, n)))
    BY <1>1, <2>2, <2>3, FullMeansFast
  <2>6. StringOk(a, a + n - 1, 3 * G, Here) <=> FirstUnaddressable(a, n, Here) = {}
    BY <1>1, <2>2, <2>3, StringExact
  <2> QED BY <2>4, <2>5, <2>6
<1> QED BY <1>4, <1>5, <1>6 DEF GuardsExact

LEMMA ShadowInitInv == ShadowInit => ShadowInv
<1> SUFFICES ASSUME ShadowInit PROVE ShadowInv
  OBVIOUS
<1>1. ShadowKinds
  <2>1. IsKind(0)
    BY FullPasses DEF IsKind
  <2> QED BY <2>1 DEF ShadowInit, ShadowKinds
<1>2. SizesKept
  <2>1. \A r \in RegionBases : SlotsOf(r) \subseteq Slots
    BY DEF Slots
  <2> QED BY <2>1 DEF ShadowInit, SizesKept
<1>3. FramesStacked
  BY DEF ShadowInit, FramesStacked
<1>4. StackClean /\ AllowedPass /\ DeniedFail
  BY DEF ShadowInit, StackClean, AllowedPass, DeniedFail
<1> QED BY <1>1, <1>2, <1>3, <1>4 DEF ShadowInv

LEMMA ShadowStepInv == ShadowInv /\ Disjoint /\ [ShadowNext]_shadowVars => ShadowInv'
<1> SUFFICES ASSUME ShadowInv, Disjoint, [ShadowNext]_shadowVars PROVE ShadowInv'
  OBVIOUS
<1>1. CASE UNCHANGED shadowVars
  BY <1>1 DEF shadowVars, ShadowInv, ShadowKinds, SizesKept, FramesStacked, StackClean, AllowedPass,
              DeniedFail, Quiet, Sp, Owned, GranulePasses
<1>2. CASE Step
  <2>1. ASSUME NEW r \in RegionBases, NEW b \in Slots, NEW n \in Sizes, Malloc(r, b, n) PROVE ShadowInv'
    BY <2>1, MallocInv
  <2>2. ASSUME NEW b \in Slots, FreeSlot(b) PROVE ShadowInv'
    BY <2>2, FreeSlotInv
  <2>3. ASSUME NEW b \in Slots, ReturnOnBlock(b) PROVE ShadowInv'
    BY <2>3, ReturnOnBlockInv
  <2>4. ASSUME GlobalsRegister PROVE ShadowInv'
    BY <2>4, RegisterInv
  <2>5. ASSUME GlobalsUnregister PROVE ShadowInv'
    BY <2>5, UnregisterInv
  <2>6. ASSUME NEW n \in Sizes, EnterTracked(n) PROVE ShadowInv'
    BY <2>6, EnterTrackedInv
  <2>7. ASSUME NEW n \in Sizes, AllocaPoison(n) PROVE ShadowInv'
    BY <2>7, AllocaInv
  <2>8. ASSUME EnterUntracked PROVE ShadowInv'
    BY <2>8, EnterUntrackedInv
  <2>9. ASSUME Leave PROVE ShadowInv'
    BY <2>9, LeaveInv
  <2>10. ASSUME NEW k \in 1..Len(frames), LongJump(k) PROVE ShadowInv'
    BY <2>10, LongJumpInv
  <2>11. ASSUME NEW o \in Objects, NEW n \in UserBytes, NEW a \in o.at..(o.at + o.n - n), AsanPoison(a, n)
         PROVE  ShadowInv'
    BY <2>11, AsanPoisonInv
  <2>12. ASSUME NEW o \in Objects, NEW n \in UserBytes, NEW a \in o.at..(o.at + o.n - n), AsanUnpoison(a, n)
         PROVE  ShadowInv'
    BY <2>12, AsanUnpoisonInv
  <2>13. ASSUME NEW g \in Granules, GuardSlow(g) PROVE ShadowInv'
    BY <2>13, GuardSlowInv
  <2> QED BY <1>2, <2>1, <2>2, <2>3, <2>4, <2>5, <2>6, <2>7, <2>8, <2>9, <2>10, <2>11, <2>12, <2>13 DEF Step
<1> QED BY <1>1, <1>2 DEF ShadowNext

LEMMA DisjointInit == ShadowInit => Disjoint
BY DEF ShadowInit, Disjoint

\* What a step allows it does not deny.
LEMMA Sorted ==
  ASSUME Disjoint, NEW now, NEW not, now \cap not = {},
         allowed' = (allowed \ not) \cup now, denied' = (denied \ now) \cup not
  PROVE  Disjoint'
  BY DEF Disjoint

LEMMA Behind ==
  ASSUME NEW b \in Int, NEW n \in Int, NEW m \in Int
  PROVE  Bytes(b, n) \cap Bytes(b + n, m) = {}
  BY DEF Bytes

LEMMA DisjointStep ==
  ASSUME ShadowInv, Disjoint, [ShadowNext]_shadowVars
  PROVE  Disjoint'
<1>0. ShadowKinds /\ SizesKept /\ FramesStacked
  BY DEF ShadowInv
<1>1. CASE UNCHANGED shadowVars
  BY <1>1 DEF shadowVars, Disjoint
<1>2. CASE Step
  <2>1. ASSUME NEW r \in RegionBases, NEW b \in Slots, NEW n \in Sizes, Malloc(r, b, n) PROVE Disjoint'
    <3> DEFINE m == Min({SlotBytes - n, Ceil(n) - n + TailLimit})
    <3>1. b \in Nat /\ n \in Nat /\ m \in Nat
      BY SlotPlace, MallocLayout
    <3>2. allowed' = (allowed \ Bytes(b + n, m)) \cup Bytes(b, n)
          /\ denied' = (denied \ Bytes(b, n)) \cup Bytes(b + n, m)
      BY <2>1 DEF Malloc, Allow
    <3> HIDE DEF m
    <3>3. Bytes(b, n) \cap Bytes(b + n, m) = {}
      BY <3>1, Behind
    <3> QED BY <3>2, <3>3, Sorted
  <2>2. ASSUME NEW b \in Slots, FreeSlot(b) PROVE Disjoint'
    BY <2>2 DEF FreeSlot, Allow, Disjoint
  <2>3. ASSUME NEW b \in Slots, ReturnOnBlock(b) PROVE Disjoint'
    BY <2>3 DEF ReturnOnBlock, Disjoint
  <2>4. ASSUME GlobalsRegister PROVE Disjoint'
    <3>1. allowed' = (allowed \ Bytes(GlobalAt + GlobalSize, GlobalPadded - GlobalSize)) \cup Bytes(GlobalAt, GlobalSize)
          /\ denied' = (denied \ Bytes(GlobalAt, GlobalSize)) \cup Bytes(GlobalAt + GlobalSize, GlobalPadded - GlobalSize)
      BY <2>4 DEF GlobalsRegister, Allow
    <3>2. Bytes(GlobalAt, GlobalSize) \cap Bytes(GlobalAt + GlobalSize, GlobalPadded - GlobalSize) = {}
      BY ShadowConstants, Behind
    <3> QED BY <3>1, <3>2, Sorted
  <2>5. ASSUME GlobalsUnregister PROVE Disjoint'
    BY <2>5 DEF GlobalsUnregister, Disjoint
  <2>6. ASSUME NEW n \in Sizes, EnterTracked(n) PROVE Disjoint'
    <3> DEFINE low == Sp - Ceil(n) - G
    <3>1. allowed' = (allowed \ Bytes(low + n, Sp - low - n)) \cup Bytes(low, n)
          /\ denied' = (denied \ Bytes(low, n)) \cup Bytes(low + n, Sp - low - n)
      BY <2>6 DEF EnterTracked, Allow
    <3>2. n \in Nat /\ Ceil(n) \in Nat /\ Sp \in Nat /\ G \in Nat
      BY <1>0, ShadowConstants, CeilFacts, StackPointer
    <3>3. low \in Int /\ Sp - low - n \in Int
      BY <3>2
    <3> HIDE DEF low
    <3>4. Bytes(low, n) \cap Bytes(low + n, Sp - low - n) = {}
      BY <3>2, <3>3, Behind
    <3> QED BY <3>1, <3>4, Sorted
  <2>7. ASSUME NEW n \in Sizes, AllocaPoison(n) PROVE Disjoint'
    <3> DEFINE padded == (2 * G) * ((n + 2 * G - 1) \div (2 * G)) + 2 * G
               low == Sp - padded
    <3>1. allowed' = (allowed \ Bytes(low + n, padded - n)) \cup Bytes(low, n)
          /\ denied' = (denied \ Bytes(low, n)) \cup Bytes(low + n, padded - n)
      BY <2>7 DEF AllocaPoison, Allow
    <3>2. n \in Nat /\ padded \in Nat /\ Sp \in Nat
      BY <1>0, ShadowConstants, AllocaBytes, StackPointer
    <3> HIDE DEF padded
    <3>3. low \in Int /\ padded - n \in Int
      BY <3>2
    <3> HIDE DEF low
    <3>4. Bytes(low, n) \cap Bytes(low + n, padded - n) = {}
      BY <3>2, <3>3, Behind
    <3> QED BY <3>1, <3>4, Sorted
  <2>8. ASSUME EnterUntracked PROVE Disjoint'
    BY <2>8 DEF EnterUntracked, Allow, Disjoint
  <2>9. ASSUME Leave PROVE Disjoint'
    <3> DEFINE f == frames[Len(frames)]
               static == f.high - Ceil(f.obj) - G
    <3>1. /\ allowed' = allowed \ Bytes(f.low, f.high - f.low)
          /\ f.tracked => denied' = (denied \ Bytes(f.low, static - f.low))
                                        \cup Bytes(static, f.high - static)
          /\ ~f.tracked => denied' = denied
      BY <2>9 DEF Leave
    <3>2. f.tracked => Bytes(static, f.high - static) \subseteq Bytes(f.low, f.high - f.low)
      <4>1. SUFFICES ASSUME f.tracked PROVE Bytes(static, f.high - static) \subseteq Bytes(f.low, f.high - f.low)
        OBVIOUS
      <4>2. frames # <<>>
        BY <2>9 DEF Leave
      <4>3. f \in FrameRecords /\ FrameFits(f)
        <5>1. Len(frames) \in 1..Len(frames)
          BY <1>0, <4>2, StackPointer
        <5> QED BY <1>0, <5>1 DEF FramesStacked
      <4> HIDE DEF f
      <4>4. f.low \in Nat /\ f.high \in Nat /\ f.obj \in Nat /\ f.low <= static
        BY <4>1, <4>3 DEF FrameRecords, FrameFits, Static
      <4>5. static \in Int
        <5>1. Ceil(f.obj) \in Nat /\ G \in Nat
          BY <4>4, CeilFacts, ShadowConstants
        <5> QED BY <4>4, <5>1
      <4> HIDE DEF static
      <4> QED BY <4>4, <4>5 DEF Bytes
    <3> HIDE DEF f, static
    <3> QED BY <3>1, <3>2 DEF Disjoint
  <2>10. ASSUME NEW k \in 1..Len(frames), LongJump(k) PROVE Disjoint'
    BY <2>10 DEF LongJump, Disjoint
  <2>11. ASSUME NEW o \in Objects, NEW n \in UserBytes, NEW a \in o.at..(o.at + o.n - n), AsanPoison(a, n)
         PROVE  Disjoint'
    <3> DEFINE low == Ceil(a)
               high == Floor(a + n)
    <3>1. allowed' = allowed \ Bytes(a, n) /\ denied' = denied \cup low..(high - 1)
      BY <2>11 DEF AsanPoison
    <3>2. a \in Nat /\ n \in Nat
      BY ObjectPlace, ShadowConstants
    <3>3. low \in Nat /\ a <= low /\ high \in Nat /\ high <= a + n
      BY <3>2, CeilFacts, FloorFacts
    <3> HIDE DEF low, high
    <3>4. low..(high - 1) \subseteq Bytes(a, n)
      BY <3>2, <3>3 DEF Bytes
    <3> QED BY <3>1, <3>4 DEF Disjoint
  <2>12. ASSUME NEW o \in Objects, NEW n \in UserBytes, NEW a \in o.at..(o.at + o.n - n), AsanUnpoison(a, n)
         PROVE  Disjoint'
    <3>1. allowed' = allowed \cup Bytes(a, n) /\ denied' = denied \ (Floor(a)..(a + n - 1))
      BY <2>12 DEF AsanUnpoison
    <3>2. a \in Nat /\ n \in Nat
      BY ObjectPlace, ShadowConstants
    <3>3. Floor(a) \in Nat /\ Floor(a) <= a
      BY <3>2, FloorFacts
    <3>4. Bytes(a, n) \subseteq Floor(a)..(a + n - 1)
      BY <3>2, <3>3 DEF Bytes
    <3> QED BY <3>1, <3>4 DEF Disjoint
  <2>13. ASSUME NEW g \in Granules, GuardSlow(g) PROVE Disjoint'
    BY <2>13 DEF GuardSlow, Disjoint
  <2> QED BY <1>2, <2>1, <2>2, <2>3, <2>4, <2>5, <2>6, <2>7, <2>8, <2>9, <2>10, <2>11, <2>12, <2>13 DEF Step
<1> QED BY <1>1, <1>2 DEF ShadowNext

\* Whatever the program does to its memory, a guard in any of its forms
\* (firstUnaddressable, weavecRtQuickOk, allAddressable, stringLength) passes
\* the bytes of objects and refuses the others, although settle, frames that
\* returned or were jumped over, and ASan's interface rewrote the shadow: for
\* any granule, regions, global and stack, and any number of steps.
THEOREM GuardsStayExact == ShadowSpec => []GuardsExact
<1> DEFINE Inv == ShadowInv /\ Disjoint
<1>1. ShadowInit => Inv
  BY ShadowInitInv, DisjointInit
<1>2. Inv /\ [ShadowNext]_shadowVars => Inv'
  BY ShadowStepInv, DisjointStep
<1>3. Inv => GuardsExact
  BY GuardsFollow
<1> QED BY <1>1, <1>2, <1>3, PTL DEF ShadowSpec

-----------------------------------------------------------------------------
(* Colors.  A byte's granule has the color of its object, or says why not. *)

\* v is color c, of a whole granule or of its first bytes.
Toned(v, c) == v = c \/ (~ShadowFull(v) /\ ~ShadowPoison(v) /\ ShadowClass(v) = c % 8)

Shade(v, c) == v = 0 \/ ShadowPoison(v) \/ Toned(v, c)

InSlot(x, b) == b <= x /\ x < b + SlotBytes
InGlobal(x) == GlobalAt <= x /\ x < GlobalAt + GlobalSize
InLocal(x, f) == Static(f) <= x /\ x < Static(f) + f.obj

SlotsToned ==
  \A b \in Slots : \A x \in Nat : InSlot(x, b) => Shade(shadow[Floor(x)], ColorOfHeap(b))

GlobalToned ==
  registered /\ GlobalSize > 0 =>
     /\ GlobalAt \notin pooled => Toned(shadow[GlobalAt], Color(0)) \/ shadow[GlobalAt] = UserPoison
     /\ \A x \in Nat : InGlobal(x) /\ x \in allowed /\ x \notin pooled
                          => Toned(shadow[Floor(x)], Color(0))

FrameToned(k) ==
  frames[k].tracked =>
     \A x \in Nat : InLocal(x, frames[k]) /\ x \in allowed /\ x \notin pooled
        => Toned(shadow[Floor(x)], FrameColor(k - 1)) \/ (lost /\ shadow[Floor(x)] = 0)

FramesToned == \A k \in 1..Len(frames) : FrameToned(k)

ColorInv == SlotsToned /\ GlobalToned /\ FramesToned /\ lost \in BOOLEAN

LEMMA PartialToned ==
  ASSUME NEW c, IsColor(c), NEW k \in Nat, k < G
  PROVE  Toned(PartialOf(c, k), c)
<1>1. ~ShadowFull(PartialOf(c, k)) /\ ~ShadowPoison(PartialOf(c, k))
  BY PartialIs
<1> DEFINE d == c % 8
<1>2. d \in Nat /\ d <= 6 /\ k < 16
  BY ShadowConstants DEF IsColor
<1> HIDE DEF d
<1>3. ((128 + d * 16 + k) \div 16) % 8 = d
  <2>1. d \in {0, 1, 2, 3, 4, 5, 6}
    BY <1>2
  <2> QED BY <1>2, <2>1
<1>4. ~(PartialOf(c, k) < 128) /\ PartialOf(c, k) = 128 + d * 16 + k
  BY <1>2 DEF PartialOf, d
<1> QED BY <1>1, <1>3, <1>4 DEF Toned, ShadowClass, d

LEMMA LaidToned ==
  ASSUME NEW s, NEW base, NEW n, NEW pad, NEW tail, NEW color, NEW x \in Nat, x < Window,
         Layout(base, n, pad, tail, color)
  PROVE  LET v == Laid(s, base, n, pad, tail, color)[Floor(x)] IN
         /\ base <= x /\ x < base + n => Toned(v, color)
         /\ base <= x /\ x < base + Ceil(n) + pad => Toned(v, color) \/ ShadowPoison(v)
         /\ x < base \/ x >= base + Ceil(n) + pad => v = s[Floor(x)]
<1> DEFINE g == Floor(x)
           v == Laid(s, base, n, pad, tail, color)[g]
           c == Ceil(n)
<1>1. /\ Aligned(base) /\ base \in Nat /\ n \in Nat /\ Aligned(pad) /\ pad \in Nat
      /\ IsColor(color) /\ tail \in {HeapTail, StackDynamic, StackRight, GlobalPoison}
  BY DEF Layout, Aligned
<1>2. Aligned(c) /\ c \in Nat /\ n <= c /\ c < n + G
  BY <1>1, CeilFacts
<1>3. g \in Granules /\ g \in Nat /\ g <= x /\ x < g + G /\ Aligned(g)
  BY InWindowFloor, FloorFacts
<1>4. x < base \/ x >= base + c + pad => v = s[g]
  BY LaidByte
<1>5. base <= x => base <= g
  BY <1>1, FloorIs
<1>6. Aligned(base + c)
  BY <1>1, <1>2, AlignedSums
<1>7. (base + c <= x => base + c <= g) /\ (x < base + c => g < base + c)
  BY <1>1, <1>2, <1>6, FloorIs
<1>8. /\ g >= base + c /\ g < base + c + pad => v = tail
      /\ g >= base /\ g + G <= base + n => v = color
      /\ g >= base /\ g < base + n /\ base + n < g + G
           => v = PartialOf(color, base + n - g) /\ base + n - g \in Nat /\ base + n - g < G
  BY <1>3, LaidGranule
<1>9. ShadowPoison(tail)
  BY <1>1, PoisonFails
<1> HIDE DEF g, v, c
<1>10. ASSUME base <= g, g < base + n PROVE Toned(v, color)
  <2>1. CASE g + G <= base + n
    BY <1>8, <1>10, <2>1 DEF Toned
  <2>2. CASE base + n < g + G
    BY <1>1, <1>8, <1>10, <2>2, PartialToned
  <2> QED BY <1>1, <1>3, <2>1, <2>2, ShadowConstants
<1>11. base <= x /\ x < base + n => g < base + n
  BY <1>1, <1>3
<1>12. ASSUME base <= x, x < base + c + pad PROVE Toned(v, color) \/ ShadowPoison(v)
  <2>1. CASE x < base + c
    <3>1. g + G <= base + c
      BY <1>3, <1>6, <1>7, <2>1, AlignedSums
    <3>2. g < base + n
      BY <1>1, <1>2, <1>3, <3>1, ShadowConstants
    <3> QED BY <1>5, <1>10, <1>12, <3>2
  <2>2. CASE base + c <= x
    <3>1. g < base + c + pad
      BY <1>1, <1>2, <1>3, <1>12
    <3> QED BY <1>7, <1>8, <1>9, <2>2, <3>1
  <2> QED BY <1>1, <1>2, <2>1, <2>2
<1>13. base <= x /\ x < base + n => Toned(v, color)
  BY <1>5, <1>10, <1>11
<1> QED BY <1>4, <1>12, <1>13 DEF g, v, c

LEMMA FrameColorIs ==
  ASSUME NEW k \in Nat
  PROVE  IsColor(FrameColor(k))
  BY ColorIs DEF FrameColor

-----------------------------------------------------------------------------
(* What a step leaves of the colors elsewhere.                             *)
LEMMA SlotsTonedKept ==
  ASSUME SlotsToned,
         \A b \in Slots : \A x \in Nat : InSlot(x, b) =>
            shadow'[Floor(x)] = shadow[Floor(x)] \/ Shade(shadow'[Floor(x)], ColorOfHeap(b))
  PROVE  SlotsToned'
  BY DEF SlotsToned

\* The byte's shadow is what it was, and the step permits nothing new.
Still(x) == /\ shadow'[Floor(x)] = shadow[Floor(x)]
            /\ (x \in allowed' => x \in allowed)
            /\ (x \in pooled => x \in pooled')

LEMMA GlobalTonedKept ==
  ASSUME GlobalToned, registered' = registered,
         \A x \in Nat : InGlobal(x) => Still(x)
  PROVE  GlobalToned'
<1>1. SUFFICES ASSUME registered', GlobalSize > 0
               PROVE  /\ GlobalAt \notin pooled'
                           => Toned(shadow'[GlobalAt], Color(0)) \/ shadow'[GlobalAt] = UserPoison
                      /\ \A x \in Nat : InGlobal(x) /\ x \in allowed' /\ x \notin pooled'
                                           => Toned(shadow'[Floor(x)], Color(0))
  BY DEF GlobalToned
<1>2. /\ GlobalAt \notin pooled => Toned(shadow[GlobalAt], Color(0)) \/ shadow[GlobalAt] = UserPoison
      /\ \A x \in Nat : InGlobal(x) /\ x \in allowed /\ x \notin pooled
                           => Toned(shadow[Floor(x)], Color(0))
  BY <1>1 DEF GlobalToned
<1>3. GlobalAt \in Nat /\ InGlobal(GlobalAt) /\ Floor(GlobalAt) = GlobalAt
  BY <1>1, ShadowConstants, AlignedConstants, FloorFacts DEF InGlobal
<1>4. Still(GlobalAt)
  BY <1>3
<1>5. GlobalAt \notin pooled' => Toned(shadow'[GlobalAt], Color(0)) \/ shadow'[GlobalAt] = UserPoison
  BY <1>2, <1>3, <1>4 DEF Still
<1>6. ASSUME NEW x \in Nat, InGlobal(x), x \in allowed', x \notin pooled'
      PROVE  Toned(shadow'[Floor(x)], Color(0))
  BY <1>2, <1>6 DEF Still
<1> QED BY <1>5, <1>6

\* Where the local of a tracked frame is.
LEMMA LocalPlace ==
  ASSUME FramesStacked, NEW k \in 1..Len(frames), frames[k].tracked,
         NEW x \in Nat, InLocal(x, frames[k])
  PROVE  /\ frames[k].low <= x /\ x < frames[k].high /\ Sp <= x
         /\ StackLow <= x /\ x < StackTop /\ x < Window
<1> DEFINE f == frames[k]
           c == Ceil(f.obj)
<1>1. f \in FrameRecords /\ FrameFits(f)
  BY DEF FramesStacked
<1>2. /\ f.low \in Nat /\ f.high \in Nat /\ f.obj \in Nat
      /\ f.low <= Static(f) /\ f.high <= StackTop
  BY <1>1 DEF FrameFits, FrameRecords
<1>3. Static(f) = f.high - c - G
  BY DEF Static
<1>4. Sp \in Nat /\ Sp <= f.low /\ StackLow <= Sp
  BY StackPointer
<1>5. Static(f) <= x /\ x < Static(f) + f.obj
  BY DEF InLocal
<1> HIDE DEF f
<1>6. c \in Nat /\ f.obj <= c
  BY <1>2, CeilFacts
<1> HIDE DEF c
<1> DEFINE st == Static(f)
<1>7. st \in Int /\ st + f.obj < f.high
  BY <1>2, <1>3, <1>6, ShadowConstants
<1>8. f.low <= st /\ st <= x /\ x < st + f.obj
  BY <1>2, <1>5
<1> HIDE DEF st
<1>9. f.low <= x /\ x < f.high
  BY <1>2, <1>7, <1>8
<1>10. Sp <= x /\ StackLow <= x /\ x < StackTop /\ x < Window
  BY <1>2, <1>4, <1>9, ShadowConstants
<1> QED BY <1>9, <1>10 DEF f

SameLocal(f, e) == f.tracked = e.tracked /\ f.high = e.high /\ f.obj = e.obj

LEMMA FrameTonedKept ==
  ASSUME NEW k, FrameToned(k), SameLocal(frames'[k], frames[k]), lost => lost',
         frames[k].tracked => \A x \in Nat : InLocal(x, frames[k]) => Still(x)
  PROVE  FrameToned(k)'
<1>1. SUFFICES ASSUME frames'[k].tracked, NEW x \in Nat, InLocal(x, frames'[k]), x \in allowed', x \notin pooled'
               PROVE  \/ Toned(shadow'[Floor(x)], FrameColor(k - 1))
                      \/ lost' /\ shadow'[Floor(x)] = 0
  BY DEF FrameToned
<1>2. frames[k].tracked /\ InLocal(x, frames[k])
  BY <1>1 DEF SameLocal, InLocal, Static
<1>3. Still(x)
  BY <1>2
<1>4. Toned(shadow[Floor(x)], FrameColor(k - 1)) \/ (lost /\ shadow[Floor(x)] = 0)
  BY <1>1, <1>2, <1>3 DEF FrameToned, Still
<1> QED BY <1>3, <1>4 DEF Still

\* A step that leaves the stack from `from` on alone.
LEMMA FramesTonedKept ==
  ASSUME FramesStacked, FramesToned, lost => lost', NEW from \in Nat, NEW n \in Nat, n <= Len(frames),
         \A k \in 1..n : from <= frames[k].low /\ SameLocal(frames'[k], frames[k]),
         \A x \in Nat : from <= x /\ x < StackTop => Still(x)
  PROVE  \A k \in 1..n : FrameToned(k)'
<1>1. SUFFICES ASSUME NEW k \in 1..n PROVE FrameToned(k)'
  OBVIOUS
<1>2. Len(frames) \in Nat
  BY StackPointer
<1>3. k \in 1..Len(frames) /\ frames[k].low \in Nat
  <2>1. k \in 1..Len(frames)
    BY <1>1, <1>2
  <2>2. frames[k] \in FrameRecords
    BY <2>1 DEF FramesStacked
  <2> QED BY <2>1, <2>2 DEF FrameRecords
<1>4. FrameToned(k) /\ from <= frames[k].low /\ SameLocal(frames'[k], frames[k])
  BY <1>1, <1>3 DEF FramesToned
<1>5. ASSUME frames[k].tracked, NEW x \in Nat, InLocal(x, frames[k]) PROVE Still(x)
  <2>1. frames[k].low <= x /\ x < StackTop
    BY <1>3, <1>5, LocalPlace
  <2> QED BY <1>3, <1>4, <2>1
<1> QED BY <1>4, <1>5, FrameTonedKept

\* A step that leaves the stack and the frames alone.
LEMMA StackTonedKept ==
  ASSUME FramesStacked, FramesToned, lost => lost', frames' = frames,
         \A x \in Nat : StackLow <= x /\ x < StackTop => Still(x)
  PROVE  FramesToned'
<1>1. /\ Sp \in Nat /\ StackLow <= Sp /\ Len(frames) \in Nat
      /\ \A k \in 1..Len(frames) : Sp <= frames[k].low
  BY StackPointer
<1>2. \A x \in Nat : Sp <= x /\ x < StackTop => Still(x)
  BY <1>1, ShadowConstants
<1>3. /\ \A k \in 1..Len(frames) : Sp <= frames[k].low /\ SameLocal(frames'[k], frames[k])
      /\ Len(frames) <= Len(frames)
  BY <1>1 DEF SameLocal
<1>4. \A k \in 1..Len(frames) : FrameToned(k)'
  BY <1>1, <1>2, <1>3, FramesTonedKept
<1> QED BY <1>4 DEF FramesToned

-----------------------------------------------------------------------------
(* The heap and the global.                                                *)
LEMMA MallocColors ==
  ASSUME ShadowInv, ColorInv, NEW r \in RegionBases, NEW b \in Slots, NEW n \in Sizes, Malloc(r, b, n)
  PROVE  ColorInv'
<1> DEFINE s == IF r \in committed THEN shadow ELSE Commit(shadow, r)
           c == Ceil(n)
           p == Min({SlotBytes - c, TailLimit})
           w == Laid(s, b, n, p, HeapTail, ColorOfHeap(b))
           not == Bytes(b + n, Min({SlotBytes - n, c - n + TailLimit}))
<1>1. FramesStacked /\ SlotsToned /\ GlobalToned /\ FramesToned /\ lost \in BOOLEAN
  BY DEF ShadowInv, ColorInv
<1>2. /\ b \in SlotsOf(r) /\ shadow' = w
      /\ registered' = registered /\ frames' = frames /\ lost' = lost /\ pooled' = pooled
  BY DEF Malloc, ShadowLive, Laid
<1>3. allowed' = (allowed \ not) \cup Bytes(b, n)
  BY DEF Malloc, Allow
<1>4. /\ Layout(b, n, p, HeapTail, ColorOfHeap(b))
      /\ c \in Nat /\ n <= c /\ c <= SlotBytes /\ n \in Nat /\ n < SlotBytes /\ p \in Nat /\ p <= SlotBytes - c
  BY MallocLayout
<1>5. /\ b \in Nat /\ b + SlotBytes <= Window
      /\ (b + SlotBytes <= GlobalAt \/ GlobalAt + GlobalPadded <= b)
      /\ (b + SlotBytes <= StackLow \/ StackTop <= b)
  BY SlotPlace
<1>6. /\ r \in Nat /\ G <= r /\ (r + RegionBytes <= StackLow \/ StackTop <= r - G)
      /\ (r + RegionBytes <= GlobalAt \/ GlobalAt + GlobalPadded <= r - G)
  BY RegionsApart
<1>7. \A x \in Nat : x \in Bytes(b, n) => b <= x /\ x < b + SlotBytes
  BY <1>4, <1>5, ShadowConstants DEF Bytes
<1>8. \A x \in Nat : x < Window =>
         /\ s[Floor(x)] \in {shadow[Floor(x)], HeapTail}
         /\ x < r - G \/ r + RegionBytes <= x => s[Floor(x)] = shadow[Floor(x)]
  BY <1>2, CommitByte
<1>9. \A x \in Nat : x < Window =>
         /\ b <= x /\ x < b + c + p => Toned(w[Floor(x)], ColorOfHeap(b)) \/ ShadowPoison(w[Floor(x)])
         /\ x < b \/ x >= b + c + p => w[Floor(x)] = s[Floor(x)]
  BY <1>4, LaidToned
<1> HIDE DEF s, c, p, w, not
<1>10. ASSUME NEW d \in Slots, NEW x \in Nat, InSlot(x, d)
       PROVE  shadow'[Floor(x)] = shadow[Floor(x)] \/ Shade(shadow'[Floor(x)], ColorOfHeap(d))
  <2>1. d \in Nat /\ d + SlotBytes <= Window
    BY SlotPlace
  <2>2. d <= x /\ x < d + SlotBytes /\ x < Window
    BY <1>10, <2>1, ShadowConstants DEF InSlot
  <2>3. ShadowPoison(HeapTail)
    BY PoisonFails
  <2>4. s[Floor(x)] = shadow[Floor(x)] \/ Shade(s[Floor(x)], ColorOfHeap(d))
    BY <1>8, <2>2, <2>3 DEF Shade
  <2>5. CASE x < b \/ x >= b + c + p
    BY <1>2, <1>9, <2>2, <2>4, <2>5
  <2>6. CASE b <= x /\ x < b + c + p
    <3>1. d = b
      <4>1. d # b => d + SlotBytes <= b \/ b + SlotBytes <= d
        BY SlotsApart
      <4> QED BY <1>4, <1>5, <2>1, <2>2, <2>6, <4>1, ShadowConstants
    <3> QED BY <1>2, <1>9, <2>2, <2>6, <3>1 DEF Shade
  <2> QED BY <1>4, <1>5, <2>5, <2>6
<1>11. SlotsToned'
  BY <1>1, <1>10, SlotsTonedKept
<1>12. ASSUME NEW x \in Nat, InGlobal(x) \/ (StackLow <= x /\ x < StackTop)
       PROVE  Still(x)
  <2>1. x < Window /\ (x < b \/ b + SlotBytes <= x) /\ (x < r - G \/ r + RegionBytes <= x)
    BY <1>5, <1>6, <1>12, ShadowConstants DEF InGlobal
  <2>2. w[Floor(x)] = s[Floor(x)] /\ s[Floor(x)] = shadow[Floor(x)]
    BY <1>4, <1>5, <1>8, <1>9, <2>1, ShadowConstants
  <2>3. x \notin Bytes(b, n)
    BY <1>5, <1>7, <2>1, ShadowConstants
  <2> QED BY <1>2, <1>3, <2>2, <2>3 DEF Still
<1>13. GlobalToned' /\ FramesToned'
  BY <1>1, <1>2, <1>12, GlobalTonedKept, StackTonedKept
<1> QED BY <1>1, <1>2, <1>11, <1>13 DEF ColorInv

\* A step that writes poison into one slot.
LEMMA SlotPoisoned ==
  ASSUME ShadowInv, ColorInv, NEW b \in Slots, NEW n, Aligned(n), n <= SlotBytes, NEW v, ShadowPoison(v),
         shadow' = ShadowSet(shadow, b, n, v), allowed' \subseteq allowed,
         UNCHANGED <<registered, frames, lost, pooled>>
  PROVE  ColorInv'
<1>1. FramesStacked /\ SlotsToned /\ GlobalToned /\ FramesToned /\ lost \in BOOLEAN
  BY DEF ShadowInv, ColorInv
<1>2. /\ b \in Nat /\ Aligned(b) /\ b + SlotBytes <= Window
      /\ (b + SlotBytes <= GlobalAt \/ GlobalAt + GlobalPadded <= b)
      /\ (b + SlotBytes <= StackLow \/ StackTop <= b)
  BY SlotPlace
<1>3. n \in Nat
  BY DEF Aligned
<1>4. ASSUME NEW x \in Nat, x < Window PROVE SetTo(shadow', shadow, b, b + n, v, x)
  BY <1>2, <1>4, SetByte
<1>5. ASSUME NEW d \in Slots, NEW x \in Nat, InSlot(x, d)
      PROVE  shadow'[Floor(x)] = shadow[Floor(x)] \/ Shade(shadow'[Floor(x)], ColorOfHeap(d))
  <2>1. x < Window
    BY <1>5, SlotPlace, ShadowConstants DEF InSlot
  <2> QED BY <1>4, <2>1 DEF SetTo, Shade
<1>6. ASSUME NEW x \in Nat, InGlobal(x) \/ (StackLow <= x /\ x < StackTop)
      PROVE  Still(x)
  <2>1. x < Window /\ (x < b \/ b + SlotBytes <= x)
    BY <1>2, <1>6, ShadowConstants DEF InGlobal
  <2>2. ~(b <= x /\ x < b + n)
    BY <1>2, <1>3, <2>1, ShadowConstants
  <2> QED BY <1>4, <2>1, <2>2 DEF SetTo, Still
<1>7. SlotsToned' /\ GlobalToned' /\ FramesToned'
  BY <1>1, <1>5, <1>6, SlotsTonedKept, GlobalTonedKept, StackTonedKept
<1> QED BY <1>1, <1>7 DEF ColorInv

LEMMA FreeSlotColors ==
  ASSUME ShadowInv, ColorInv, NEW b \in Slots, FreeSlot(b)
  PROVE  ColorInv'
<1>1. /\ shadow' = ShadowSet(shadow, b, SlotBytes, HeapFreed) /\ allowed' \subseteq allowed
      /\ UNCHANGED <<registered, frames, lost, pooled>>
  BY DEF FreeSlot, ShadowDead, Allow
<1>2. Aligned(SlotBytes) /\ SlotBytes <= SlotBytes /\ ShadowPoison(HeapFreed)
  BY AlignedConstants, ShadowConstants, PoisonFails
<1> QED BY <1>1, <1>2, SlotPoisoned

LEMMA ReturnOnBlockColors ==
  ASSUME ShadowInv, ColorInv, NEW b \in Slots, ReturnOnBlock(b)
  PROVE  ColorInv'
<1>1. /\ shadow' = ShadowSet(shadow, b, G, Returned) /\ allowed' \subseteq allowed
      /\ UNCHANGED <<registered, frames, lost, pooled>> /\ size[b] >= G
  BY DEF ReturnOnBlock
<1>2. Aligned(G) /\ ShadowPoison(Returned)
  BY PlainG, PoisonFails
<1>3. G <= SlotBytes
  <2>1. SizesKept /\ size[b] >= 0 /\ G \in Nat
    <3>1. SizesKept
      BY DEF ShadowInv
    <3>2. size[b] \in Int
      <4>1. size[b] \in {Never, Dead} \cup Sizes
        BY <3>1 DEF SizesKept
      <4>2. Never \in Int /\ Dead \in Int
        BY DEF Never, Dead
      <4>3. Sizes \subseteq Nat
        BY ShadowConstants
      <4>4. CASE size[b] \in Sizes
        <5>1. size[b] \in Nat
          BY <4>3, <4>4, Zenon
        <5> QED BY <5>1
      <4>5. CASE size[b] \in {Never, Dead}
        BY <4>2, <4>5
      <4> QED BY <4>1, <4>4, <4>5
    <3> QED BY <1>1, <3>1, <3>2, ShadowConstants
  <2> QED BY <1>1, <2>1, LiveSize, ShadowConstants
<1> QED BY <1>1, <1>2, <1>3, SlotPoisoned

\* A byte of a slot or of the stack is none of the padded global.
LEMMA GlobalApart ==
  ASSUME NEW x \in Nat, (\E b \in Slots : InSlot(x, b)) \/ (StackLow <= x /\ x < StackTop)
  PROVE  x < Window /\ (x < GlobalAt \/ GlobalAt + GlobalPadded <= x)
<1>1. CASE StackLow <= x /\ x < StackTop
  BY <1>1, GlobalFacts, ShadowConstants
<1>2. CASE \E b \in Slots : InSlot(x, b)
  <2>1. PICK b \in Slots : b <= x /\ x < b + SlotBytes
    BY <1>2 DEF InSlot
  <2> QED BY <2>1, SlotPlace, ShadowConstants
<1> QED BY <1>1, <1>2

LEMMA RegisterColors ==
  ASSUME ShadowInv, ColorInv, GlobalsRegister
  PROVE  ColorInv'
<1> DEFINE c == Ceil(GlobalSize)
           w == Laid(shadow, GlobalAt, GlobalSize, GlobalPadded - c, GlobalPoison, Color(0))
<1>1. FramesStacked /\ SlotsToned /\ GlobalToned /\ FramesToned /\ lost \in BOOLEAN
  BY DEF ShadowInv, ColorInv
<1>2. shadow' = w /\ registered' = TRUE /\ frames' = frames /\ lost' = lost /\ pooled' = pooled
  BY DEF GlobalsRegister, Laid
<1>3. allowed' \subseteq allowed \cup Bytes(GlobalAt, GlobalSize)
  BY DEF GlobalsRegister, Allow
<1>4. /\ Layout(GlobalAt, GlobalSize, GlobalPadded - c, GlobalPoison, Color(0))
      /\ c \in Nat /\ GlobalSize <= c /\ c <= GlobalPadded
  BY GlobalFacts
<1>5. \A x \in Nat : x < Window =>
         /\ GlobalAt <= x /\ x < GlobalAt + GlobalSize => Toned(w[Floor(x)], Color(0))
         /\ x < GlobalAt \/ x >= GlobalAt + c + (GlobalPadded - c) => w[Floor(x)] = shadow[Floor(x)]
  BY <1>4, LaidToned
<1> HIDE DEF w, c
<1>6. GlobalAt + c + (GlobalPadded - c) = GlobalAt + GlobalPadded
  BY <1>4, ShadowConstants
<1>7. ASSUME NEW x \in Nat, (\E b \in Slots : InSlot(x, b)) \/ (StackLow <= x /\ x < StackTop)
      PROVE  Still(x)
  <2>1. x < Window /\ (x < GlobalAt \/ GlobalAt + GlobalPadded <= x)
    BY <1>7, GlobalApart
  <2>2. x \notin Bytes(GlobalAt, GlobalSize)
    BY <2>1, ShadowConstants DEF Bytes
  <2> QED BY <1>2, <1>3, <1>5, <1>6, <2>1, <2>2 DEF Still
<1>8. SlotsToned' /\ FramesToned'
  BY <1>1, <1>2, <1>7, SlotsTonedKept, StackTonedKept DEF Still
<1>9. GlobalToned'
  <2>1. ASSUME NEW x \in Nat, InGlobal(x) PROVE Toned(shadow'[Floor(x)], Color(0))
    BY <1>2, <1>5, <2>1, ShadowConstants DEF InGlobal
  <2>2. GlobalSize > 0 => InGlobal(GlobalAt) /\ GlobalAt \in Nat /\ Floor(GlobalAt) = GlobalAt
    BY ShadowConstants, AlignedConstants, FloorFacts DEF InGlobal
  <2>3. GlobalSize > 0 => Toned(shadow'[GlobalAt], Color(0))
    BY <2>1, <2>2
  <2> QED BY <2>1, <2>3 DEF GlobalToned
<1> QED BY <1>1, <1>2, <1>8, <1>9 DEF ColorInv

LEMMA UnregisterColors ==
  ASSUME ShadowInv, ColorInv, GlobalsUnregister
  PROVE  ColorInv'
<1>1. FramesStacked /\ SlotsToned /\ GlobalToned /\ FramesToned /\ lost \in BOOLEAN
  BY DEF ShadowInv, ColorInv
<1>2. /\ shadow' = ShadowClear(shadow, GlobalAt, GlobalAt + GlobalPadded) /\ registered' = FALSE
      /\ frames' = frames /\ lost' = lost /\ pooled' = pooled /\ allowed' \subseteq allowed
  BY DEF GlobalsUnregister
<1>3. Aligned(GlobalAt) /\ Aligned(GlobalAt + GlobalPadded)
  BY AlignedConstants, AlignedSums
<1>4. ASSUME NEW x \in Nat, (\E b \in Slots : InSlot(x, b)) \/ (StackLow <= x /\ x < StackTop)
      PROVE  Still(x)
  <2>1. x < Window /\ (x < GlobalAt \/ GlobalAt + GlobalPadded <= x)
    BY <1>4, GlobalApart
  <2>2. SetTo(shadow', shadow, GlobalAt, GlobalAt + GlobalPadded, 0, x)
    BY <1>2, <1>3, <2>1, ClearByte
  <2>3. ~(GlobalAt <= x /\ x < GlobalAt + GlobalPadded)
    BY <2>1, ShadowConstants
  <2> QED BY <1>2, <2>2, <2>3 DEF Still, SetTo
<1>5. SlotsToned' /\ FramesToned'
  BY <1>1, <1>2, <1>4, SlotsTonedKept, StackTonedKept DEF Still
<1>6. GlobalToned'
  BY <1>2 DEF GlobalToned
<1> QED BY <1>1, <1>2, <1>5, <1>6 DEF ColorInv

-----------------------------------------------------------------------------
(* The stack.                                                              *)

\* A byte of a slot or of the global is none of the stack.
LEMMA StackApart ==
  ASSUME NEW x \in Nat, (\E b \in Slots : InSlot(x, b)) \/ InGlobal(x)
  PROVE  x < Window /\ (x < StackLow \/ StackTop <= x)
<1>1. CASE InGlobal(x)
  BY <1>1, GlobalFacts, ShadowConstants DEF InGlobal
<1>2. CASE \E b \in Slots : InSlot(x, b)
  <2>1. PICK b \in Slots : b <= x /\ x < b + SlotBytes
    BY <1>2 DEF InSlot
  <2> QED BY <2>1, SlotPlace, ShadowConstants
<1> QED BY <1>1, <1>2

\* A step that only touches the stack.
LEMMA OffStackKept ==
  ASSUME ColorInv, UNCHANGED registered, lost' \in BOOLEAN,
         \A x \in Nat : x < Window /\ (x < StackLow \/ StackTop <= x) => Still(x)
  PROVE  SlotsToned' /\ GlobalToned' /\ lost' \in BOOLEAN
<1>1. \A x \in Nat : (\E b \in Slots : InSlot(x, b)) \/ InGlobal(x) => Still(x)
  BY StackApart
<1>2. SlotsToned /\ GlobalToned
  BY DEF ColorInv
<1>3. SlotsToned'
  BY <1>1, <1>2, SlotsTonedKept DEF Still
<1>4. GlobalToned'
  BY <1>1, <1>2, GlobalTonedKept
<1> QED BY <1>3, <1>4

LEMMA EnterTrackedColors ==
  ASSUME ShadowInv, ColorInv, NEW m \in Sizes, EnterTracked(m)
  PROVE  ColorInv'
<1>0. PICK k \in Nat : k = Len(frames)
  BY StackPointer DEF ShadowInv
<1> DEFINE c == Ceil(m)
           low == Sp - c - G
           color == FrameColor(k)
           f == [low |-> low, high |-> Sp, obj |-> m, tracked |-> TRUE, dynamic |-> FALSE]
           w == Laid(shadow, low, m, G, StackRight, color)
<1>1. FramesStacked /\ FramesToned /\ lost \in BOOLEAN
  BY DEF ShadowInv, ColorInv
<1>2. /\ shadow' = w /\ frames' = Append(frames, f) /\ lost' = lost /\ pooled' = pooled
      /\ registered' = registered /\ low - EntryBytes >= StackLow /\ m > 0
  BY <1>0 DEF EnterTracked, Laid
<1>3. allowed' \subseteq allowed \cup Bytes(low, m)
  BY DEF EnterTracked, Allow
<1>4. /\ Sp \in Nat /\ Aligned(Sp) /\ StackLow <= Sp /\ Sp <= StackTop
      /\ k \in Nat /\ \A j \in 1..k : Sp <= frames[j].low
  BY <1>0, <1>1, StackPointer
<1>5. m \in Nat /\ Aligned(c) /\ c \in Nat /\ m <= c
  BY ShadowConstants, CeilFacts
<1> HIDE DEF c
<1>6. low \in Nat /\ StackLow <= low /\ low = Sp - (c + G) /\ c + G <= Sp /\ low + c + G = Sp /\ low < Sp
  BY <1>2, <1>4, <1>5, ShadowConstants
<1>7. Aligned(low)
  <2>1. Aligned(c + G)
    BY <1>5, PlainG, AlignedSums
  <2> QED BY <1>4, <1>6, <2>1, AlignedSums
<1>8. IsColor(color)
  BY <1>4, FrameColorIs
<1>9. Layout(low, m, G, StackRight, color)
  BY <1>5, <1>7, <1>8, PlainG, ShadowConstants DEF Layout, c
<1>10. \A x \in Nat : x < Window =>
         /\ low <= x /\ x < low + m => Toned(w[Floor(x)], color)
         /\ x < low \/ x >= low + c + G => w[Floor(x)] = shadow[Floor(x)]
  BY <1>9, LaidToned DEF c
<1> HIDE DEF w, low
<1>11. ASSUME NEW x \in Nat, x < Window, x < low \/ Sp <= x PROVE Still(x)
  <2>1. x \notin Bytes(low, m)
    BY <1>5, <1>6, <1>11, ShadowConstants DEF Bytes
  <2> QED BY <1>2, <1>3, <1>6, <1>10, <1>11, <2>1 DEF Still
<1>12. SlotsToned' /\ GlobalToned' /\ lost' \in BOOLEAN
  <2>1. \A x \in Nat : x < Window /\ (x < StackLow \/ StackTop <= x) => Still(x)
    BY <1>4, <1>6, <1>11, ShadowConstants
  <2> QED BY <1>1, <1>2, <2>1, OffStackKept
<1>13. /\ Len(frames') = k + 1 /\ frames'[k + 1] = f
       /\ \A j \in 1..k : frames'[j] = frames[j]
  BY <1>0, <1>1, <1>2, AppendProperties DEF FramesStacked
<1>14. \A j \in 1..k : FrameToned(j)'
  <2>1. /\ \A j \in 1..k : Sp <= frames[j].low /\ SameLocal(frames'[j], frames[j])
        /\ k <= Len(frames) /\ (lost => lost')
    BY <1>0, <1>2, <1>4, <1>13 DEF SameLocal
  <2>2. \A x \in Nat : Sp <= x /\ x < StackTop => Still(x)
    BY <1>11, ShadowConstants
  <2> QED BY <1>1, <1>4, <2>1, <2>2, FramesTonedKept
<1>15. FrameToned(k + 1)'
  <2>1. SUFFICES ASSUME NEW x \in Nat, InLocal(x, frames'[k + 1]) PROVE Toned(shadow'[Floor(x)], FrameColor((k + 1) - 1))
    BY DEF FrameToned
  <2>2. Static(frames'[k + 1]) = low /\ frames'[k + 1].obj = m
    BY <1>13 DEF Static, low, c
  <2>3. low <= x /\ x < low + m
    BY <2>1, <2>2 DEF InLocal
  <2>4. (k + 1) - 1 = k
    BY <1>4
  <2>5. x < Window
    BY <1>4, <1>5, <1>6, <2>3, ShadowConstants
  <2> QED BY <1>2, <1>10, <2>3, <2>4, <2>5
<1>16. FramesToned'
  BY <1>4, <1>13, <1>14, <1>15 DEF FramesToned
<1> QED BY <1>12, <1>16 DEF ColorInv

LEMMA EnterUntrackedColors ==
  ASSUME ShadowInv, ColorInv, EnterUntracked
  PROVE  ColorInv'
<1>0. PICK k \in Nat : k = Len(frames)
  BY StackPointer DEF ShadowInv
<1> DEFINE low == Sp - 2 * G
           f == [low |-> low, high |-> Sp, obj |-> 0, tracked |-> FALSE, dynamic |-> FALSE]
<1>1. FramesStacked /\ FramesToned /\ lost \in BOOLEAN
  BY DEF ShadowInv, ColorInv
<1>2. /\ shadow' = shadow /\ frames' = Append(frames, f) /\ lost' = lost /\ pooled' = pooled
      /\ registered' = registered /\ low - EntryBytes >= StackLow
  BY DEF EnterUntracked
<1>3. allowed' \subseteq allowed \cup Bytes(low, 2 * G)
  BY DEF EnterUntracked, Allow
<1>4. /\ Sp \in Nat /\ StackLow <= Sp /\ Sp <= StackTop
      /\ k \in Nat /\ \A j \in 1..k : Sp <= frames[j].low
  BY <1>0, <1>1, StackPointer
<1>5. low \in Nat /\ StackLow <= low /\ low + 2 * G = Sp
  BY <1>2, <1>4, ShadowConstants
<1>6. \A x \in Nat : x \in Bytes(low, 2 * G) => low <= x /\ x < Sp
  BY <1>4, <1>5, ShadowConstants DEF Bytes
<1> HIDE DEF low
<1>7. ASSUME NEW x \in Nat, x < low \/ Sp <= x PROVE Still(x)
  <2>1. x \notin Bytes(low, 2 * G)
    BY <1>4, <1>5, <1>6, <1>7
  <2> QED BY <1>2, <1>3, <2>1 DEF Still
<1>8. SlotsToned' /\ GlobalToned' /\ lost' \in BOOLEAN
  <2>1. \A x \in Nat : x < Window /\ (x < StackLow \/ StackTop <= x) => Still(x)
    BY <1>4, <1>5, <1>7, ShadowConstants
  <2> QED BY <1>1, <1>2, <2>1, OffStackKept
<1>9. /\ Len(frames') = k + 1 /\ frames'[k + 1] = f
      /\ \A j \in 1..k : frames'[j] = frames[j]
  BY <1>0, <1>1, <1>2, AppendProperties DEF FramesStacked
<1>10. \A j \in 1..k : FrameToned(j)'
  <2>1. /\ \A j \in 1..k : Sp <= frames[j].low /\ SameLocal(frames'[j], frames[j])
        /\ k <= Len(frames) /\ (lost => lost')
    BY <1>0, <1>2, <1>4, <1>9 DEF SameLocal
  <2>2. \A x \in Nat : Sp <= x /\ x < StackTop => Still(x)
    BY <1>7
  <2> QED BY <1>1, <1>4, <2>1, <2>2, FramesTonedKept
<1>11. FrameToned(k + 1)'
  BY <1>9 DEF FrameToned
<1>12. FramesToned'
  BY <1>4, <1>9, <1>10, <1>11 DEF FramesToned
<1> QED BY <1>8, <1>12 DEF ColorInv

LEMMA AllocaColors ==
  ASSUME ShadowInv, ColorInv, NEW m \in Sizes, AllocaPoison(m)
  PROVE  ColorInv'
<1>0. PICK k \in Nat : k = Len(frames)
  BY StackPointer DEF ShadowInv
<1> DEFINE c == Ceil(m)
           padded == (2 * G) * ((m + 2 * G - 1) \div (2 * G)) + 2 * G
           low == Sp - padded
<1>1. FramesStacked /\ FramesToned /\ lost \in BOOLEAN
  BY DEF ShadowInv, ColorInv
<1>2. /\ Sp \in Nat /\ Aligned(Sp) /\ Sp <= StackTop /\ StackLow <= Sp
      /\ (frames = <<>> <=> k = 0) /\ \A i \in 1..k : Sp <= frames[i].low
  BY <1>0, <1>1, StackPointer
<1>3. m \in Nat /\ Aligned(c) /\ c \in Nat /\ m <= c /\ c < m + G
  BY ShadowConstants, CeilFacts
<1>4. padded \in Nat /\ Aligned(padded) /\ m + 2 * G <= padded
  BY <1>3, AllocaBytes
<1>5. /\ frames # <<>> /\ low - EntryBytes >= StackLow
      /\ shadow' = Laid(shadow, low, m, padded - c, StackDynamic, 0)
      /\ frames' = [frames EXCEPT ![k].low = low, ![k].dynamic = TRUE]
      /\ allowed' \subseteq allowed \cup Bytes(low, m)
      /\ registered' = registered /\ lost' = lost /\ pooled' = pooled
  BY <1>0 DEF AllocaPoison, Allow, Laid
<1> HIDE DEF padded, c
<1>6. low \in Int /\ StackLow <= low /\ low + padded = Sp /\ c <= padded /\ 0 < padded
  <2>0. padded > 0 /\ c <= padded
    BY <1>3, <1>4, ShadowConstants
  <2>1. low = Sp - padded /\ low - EntryBytes >= StackLow
    BY <1>5
  <2> HIDE DEF low
  <2>2. low \in Int /\ low + padded = Sp
    BY <1>2, <1>4, <2>1
  <2>3. StackLow <= low
    BY <2>1, <2>2, ShadowConstants
  <2> QED BY <2>0, <2>2, <2>3
<1>7. low \in Nat /\ low + c + (padded - c) = Sp /\ low + m <= Sp /\ low < Sp /\ padded <= Sp
  BY <1>2, <1>3, <1>4, <1>6, ShadowConstants
<1>8. Aligned(low) /\ Aligned(padded - c) /\ c + (padded - c) > 0
  <2>1. Aligned(Sp - padded) /\ Aligned(padded - c)
    BY <1>2, <1>3, <1>4, <1>6, <1>7, AlignedSums
  <2> QED BY <1>3, <1>4, <1>6, <2>1
<1> HIDE DEF low
<1>9. Layout(low, m, padded - c, StackDynamic, 0)
  BY <1>3, <1>8, ZeroIsColor DEF Layout, c
<1>10. ASSUME NEW x \in Nat, x < Window, x < low \/ Sp <= x PROVE Still(x)
  <2>1. x < low \/ x >= low + c + (padded - c)
    BY <1>7, <1>10
  <2>2. shadow'[Floor(x)] = shadow[Floor(x)]
    BY <1>5, <1>9, <1>10, <2>1, LaidByte DEF c
  <2>3. x \notin Bytes(low, m)
    BY <1>2, <1>3, <1>7, <1>10 DEF Bytes
  <2> QED BY <1>5, <2>2, <2>3 DEF Still
<1>11. SlotsToned' /\ GlobalToned' /\ lost' \in BOOLEAN
  <2>1. \A x \in Nat : x < Window /\ (x < StackLow \/ StackTop <= x) => Still(x)
    BY <1>2, <1>6, <1>7, <1>10, ShadowConstants
  <2> QED BY <1>1, <1>5, <2>1, OffStackKept
<1>12. Len(frames') = k /\ \A j \in 1..k : SameLocal(frames'[j], frames[j])
  <2>1. frames \in Seq(FrameRecords) /\ k \in 1..k
    BY <1>1, <1>2, <1>5 DEF FramesStacked
  <2>2. frames[k] \in FrameRecords
    BY <1>0, <2>1
  <2> DEFINE f == [frames[k] EXCEPT !.low = low, !.dynamic = TRUE]
  <2>3. f.high = frames[k].high /\ f.obj = frames[k].obj /\ f.tracked = frames[k].tracked
    BY <2>2 DEF FrameRecords
  <2>4. frames' = [frames EXCEPT ![k] = f]
    BY <1>0, <1>5, <2>1
  <2> HIDE DEF f
  <2>5. f \in FrameRecords
    BY <1>7, <2>2 DEF f, FrameRecords
  <2>6. /\ Len(frames') = k /\ frames'[k] = f
        /\ \A i \in 1..k : i # k => frames'[i] = frames[i]
    BY <1>0, <2>1, <2>4, <2>5
  <2> QED BY <2>3, <2>6 DEF SameLocal
<1>13. FramesToned'
  <2>1. \A x \in Nat : Sp <= x /\ x < StackTop => Still(x)
    BY <1>10, ShadowConstants
  <2>2. \A j \in 1..k : FrameToned(j)'
    <3>1. k <= Len(frames) /\ (lost => lost')
      BY <1>0, <1>5
    <3>2. \A j \in 1..k : Sp <= frames[j].low /\ SameLocal(frames'[j], frames[j])
      BY <1>2, <1>12
    <3> QED BY <1>1, <1>2, <2>1, <3>1, <3>2, FramesTonedKept
  <2> QED BY <1>12, <2>2 DEF FramesToned
<1> QED BY <1>11, <1>13 DEF ColorInv

LEMMA LeaveColors ==
  ASSUME ShadowInv, ColorInv, Leave
  PROVE  ColorInv'
<1>0. PICK k \in Nat : k = Len(frames)
  BY StackPointer DEF ShadowInv
<1> DEFINE f == frames[k]
           static == f.high - Ceil(f.obj) - G
           h == f.high
<1>1. FramesStacked /\ FramesToned /\ lost \in BOOLEAN
  BY DEF ShadowInv, ColorInv
<1>2. /\ frames # <<>> /\ frames' = SubSeq(frames, 1, k - 1) /\ allowed' \subseteq allowed
      /\ pooled' = pooled \ Bytes(f.low, f.high - f.low)
      /\ f.tracked => shadow' = ShadowSet(ShadowClear(shadow, f.low, static),
                                          static, f.high - static, Returned)
      /\ ~f.tracked => shadow' = shadow
      /\ registered' = registered /\ lost' = lost
  BY <1>0 DEF Leave
<1>3. k # 0 /\ k \in 1..k /\ k - 1 \in Nat /\ k - 1 < k /\ k - 1 + 1 = k
  BY <1>0, <1>1, <1>2, StackPointer
<1>4. Sp = f.low /\ Sp \in Nat /\ Aligned(Sp) /\ StackLow <= Sp
  BY <1>0, <1>1, <1>2, StackPointer DEF Sp
<1>5. f \in FrameRecords /\ FrameFits(f)
  BY <1>0, <1>1, <1>3 DEF FramesStacked
<1>6. h \in Nat /\ Aligned(h) /\ Sp < h /\ h <= StackTop
  BY <1>4, <1>5 DEF FrameFits, FrameRecords
<1>7. f.tracked => static \in Nat /\ Aligned(static) /\ Sp <= static /\ static < h
  <2>1. SUFFICES ASSUME f.tracked PROVE static \in Nat /\ Aligned(static) /\ Sp <= static /\ static < h
    OBVIOUS
  <2>2. f.obj \in Nat
    BY <1>5 DEF FrameRecords
  <2>3. Aligned(Ceil(f.obj)) /\ Ceil(f.obj) \in Nat
    BY <2>2, CeilFacts
  <2>4. Sp <= static
    BY <1>4, <1>5, <2>1 DEF FrameFits, Static
  <2>5. static = h - (Ceil(f.obj) + G)
    BY <1>6, <2>3, ShadowConstants
  <2>6. Ceil(f.obj) + G <= h /\ Ceil(f.obj) + G \in Nat
    <3> DEFINE c == Ceil(f.obj)
    <3>1. c \in Nat /\ Sp \in Nat /\ h \in Nat /\ Sp <= h - (c + G)
      BY <1>4, <1>6, <2>3, <2>4, <2>5
    <3>2. c + G \in Nat
      BY <3>1, PlainG
    <3> HIDE DEF c
    <3>3. \A p, q, n \in Nat : p <= q - n => n <= q
      OBVIOUS
    <3> QED BY <3>1, <3>2, <3>3 DEF c
  <2>7. Aligned(Ceil(f.obj) + G)
    BY <2>3, PlainG, AlignedSums
  <2>8. Aligned(static)
    BY <1>6, <2>5, <2>6, <2>7, AlignedSums
  <2>9. static < h
    BY <1>6, <2>3, <2>5, ShadowConstants
  <2> QED BY <2>4, <2>8, <2>9 DEF Aligned
<1>8. \A x \in Nat : x \in Bytes(f.low, f.high - f.low) => Sp <= x /\ x < h
  BY <1>4, <1>6 DEF Bytes
<1>9. \A j \in 1..(k - 1) : h <= frames[j].low
  <2>1. \A j \in 1..k : j < k => frames[k].high <= frames[j].low
    BY <1>0, <1>1, <1>3 DEF FramesStacked
  <2> QED BY <1>3, <2>1
<1> HIDE DEF f, h, static
<1>10. ASSUME NEW x \in Nat, x < Window, x < Sp \/ h <= x PROVE Still(x)
  <2>1. x \notin Bytes(f.low, f.high - f.low)
    BY <1>4, <1>6, <1>8, <1>10
  <2>2. shadow'[Floor(x)] = shadow[Floor(x)]
    <3>1. CASE ~f.tracked
      BY <1>2, <3>1
    <3>2. CASE f.tracked
      <4> DEFINE s == ShadowClear(shadow, f.low, static)
      <4>1. static \in Nat /\ Aligned(static) /\ Sp <= static /\ static < h
        BY <1>7, <3>2
      <4>2. SetTo(s, shadow, Sp, static, 0, x)
        BY <1>4, <1>10, <4>1, ClearByte
      <4> HIDE DEF s
      <4>3. Aligned(h - static) /\ static + (h - static) = h
        <5>1. h >= static
          BY <1>6, <4>1
        <5> QED BY <1>6, <4>1, <5>1, AlignedSums
      <4>4. SetTo(shadow', s, static, static + (h - static), Returned, x)
        BY <1>2, <1>10, <3>2, <4>1, <4>3, SetByte DEF h, s
      <4>5. ~(Sp <= x /\ x < static) /\ ~(static <= x /\ x < h)
        BY <1>4, <1>6, <1>10, <4>1
      <4> QED BY <4>2, <4>3, <4>4, <4>5 DEF SetTo
    <3> QED BY <3>1, <3>2
  <2> QED BY <1>2, <2>1, <2>2 DEF Still
<1>11. SlotsToned' /\ GlobalToned' /\ lost' \in BOOLEAN
  <2>1. \A x \in Nat : x < Window /\ (x < StackLow \/ StackTop <= x) => Still(x)
    BY <1>4, <1>6, <1>10, ShadowConstants
  <2> QED BY <1>1, <1>2, <2>1, OffStackKept
<1>12. Len(frames') = k - 1 /\ \A j \in 1..(k - 1) : SameLocal(frames'[j], frames[j])
  <2>1. frames \in Seq(FrameRecords)
    BY <1>1 DEF FramesStacked
  <2>2. Len(frames') = k - 1 /\ \A j \in 1..(k - 1) : frames'[j] = frames[j]
    BY <1>0, <1>2, <1>3, <2>1, SubSeqProperties
  <2> QED BY <2>2 DEF SameLocal
<1>13. FramesToned'
  <2>1. \A x \in Nat : h <= x /\ x < StackTop => Still(x)
    BY <1>10, ShadowConstants
  <2>2. \A j \in 1..(k - 1) : FrameToned(j)'
    <3>1. /\ k - 1 <= Len(frames) /\ (lost => lost')
          /\ \A j \in 1..(k - 1) : h <= frames[j].low /\ SameLocal(frames'[j], frames[j])
      BY <1>0, <1>2, <1>3, <1>9, <1>12
    <3> QED BY <1>1, <1>3, <1>6, <2>1, <3>1, FramesTonedKept
  <2> QED BY <1>12, <2>2 DEF FramesToned
<1> QED BY <1>11, <1>13 DEF ColorInv

LEMMA LongJumpColors ==
  ASSUME ShadowInv, ColorInv, NEW k \in 1..Len(frames), LongJump(k)
  PROVE  ColorInv'
<1>1. FramesStacked /\ FramesToned
  BY DEF ShadowInv, ColorInv
<1>2. /\ k < Len(frames) /\ shadow' = ShadowClear(shadow, Here, StackTop)
      /\ frames' = SubSeq(frames, 1, k) /\ lost' = TRUE /\ allowed' \subseteq allowed
      /\ pooled' = pooled \ Bytes(Sp, frames'[k].low - Sp) /\ registered' = registered
  BY DEF LongJump
<1>3. /\ Sp \in Nat /\ Aligned(Sp) /\ StackLow + EntryBytes <= Sp /\ Sp <= StackTop
      /\ Here = Sp - EntryBytes /\ Len(frames) \in Nat
  BY <1>1, StackPointer
<1>4. Here \in Nat /\ Aligned(Here) /\ StackLow <= Here /\ Here < Sp
  <2>1. Aligned(EntryBytes) /\ EntryBytes <= Sp
    BY <1>3, AlignedConstants, ShadowConstants
  <2>2. Aligned(Sp - EntryBytes)
    BY <1>3, <2>1, AlignedSums
  <2> QED BY <1>3, <2>2, ShadowConstants DEF Aligned
<1>5. /\ Len(frames') = k /\ \A j \in 1..k : frames'[j] = frames[j]
      /\ k \in Nat /\ k <= Len(frames)
  <2>1. frames \in Seq(FrameRecords)
    BY <1>1 DEF FramesStacked
  <2> QED BY <1>2, <1>3, <2>1, SubSeqProperties
<1>6. frames'[k].low \in Nat /\ frames'[k].low <= StackTop
  <2>1. frames'[k] = frames[k] /\ k \in 1..Len(frames)
    BY <1>5
  <2>2. frames[k] \in FrameRecords /\ FrameFits(frames[k])
    BY <1>1, <2>1 DEF FramesStacked
  <2> QED BY <2>1, <2>2, ShadowConstants DEF FrameFits, FrameRecords
<1>7. ASSUME NEW x \in Nat, x < Window PROVE SetTo(shadow', shadow, Here, StackTop, 0, x)
  BY <1>2, <1>4, <1>7, AlignedConstants, ClearByte
<1>8. ASSUME NEW x \in Nat, x < Window, x < StackLow \/ StackTop <= x PROVE Still(x)
  <2>1. ~(Here <= x /\ x < StackTop)
    BY <1>4, <1>8, ShadowConstants
  <2>2. x \notin Bytes(Sp, frames'[k].low - Sp)
    BY <1>3, <1>4, <1>6, <1>8, ShadowConstants DEF Bytes
  <2> QED BY <1>2, <1>7, <1>8, <2>1, <2>2 DEF SetTo, Still
<1>9. SlotsToned' /\ GlobalToned' /\ lost' \in BOOLEAN
  BY <1>2, <1>8, OffStackKept
<1>10. ASSUME NEW j \in 1..k PROVE FrameToned(j)'
  <2>1. SUFFICES ASSUME frames'[j].tracked, NEW x \in Nat, InLocal(x, frames'[j])
                 PROVE  lost' /\ shadow'[Floor(x)] = 0
    BY DEF FrameToned
  <2>2. frames[j].tracked /\ InLocal(x, frames[j]) /\ j \in 1..Len(frames)
    BY <1>5, <2>1
  <2>3. Sp <= x /\ x < StackTop /\ x < Window
    BY <1>1, <2>2, LocalPlace
  <2> QED BY <1>2, <1>3, <1>4, <1>7, <2>3 DEF SetTo
<1>11. FramesToned'
  BY <1>5, <1>10 DEF FramesToned
<1> QED BY <1>9, <1>11 DEF ColorInv

-----------------------------------------------------------------------------
(* ASan's interface, and a guard that clears a stale mark.                 *)
LEMMA TonedNotReturned ==
  ASSUME NEW v, NEW c, IsColor(c), Toned(v, c)
  PROVE  v # Returned
  BY DEF Toned, ShadowPoison, Returned, IsColor

\* A byte the step leaves accessible was, and its shadow is changed only
\* where it was a returned frame's mark.
Steady(x) ==
  x \in allowed' /\ x \notin pooled' =>
     /\ x \in allowed /\ x \notin pooled
     /\ shadow'[Floor(x)] = shadow[Floor(x)] \/ shadow[Floor(x)] = Returned

LEMMA BytesToned ==
  ASSUME ShadowInv, ColorInv, UNCHANGED <<registered, frames, lost>>,
         \A x \in Nat : InGlobal(x) \/ (StackLow <= x /\ x < StackTop) => Steady(x),
         GlobalAt \notin pooled' =>
            /\ GlobalAt \notin pooled
            /\ shadow'[GlobalAt] \in {shadow[GlobalAt], UserPoison} \/ shadow[GlobalAt] = Returned,
         \A b \in Slots : \A x \in Nat : InSlot(x, b) =>
            shadow'[Floor(x)] = shadow[Floor(x)] \/ Shade(shadow'[Floor(x)], ColorOfHeap(b))
  PROVE  ColorInv'
<1>1. FramesStacked /\ SlotsToned /\ GlobalToned /\ FramesToned /\ lost \in BOOLEAN
  BY DEF ShadowInv, ColorInv
<1>2. SlotsToned'
  BY <1>1, SlotsTonedKept
<1>3. IsColor(Color(0)) /\ UserPoison # Returned /\ 0 # Returned
  BY ColorIs DEF UserPoison, Returned
<1>4. GlobalToned'
  <2>1. SUFFICES ASSUME registered, GlobalSize > 0
                 PROVE  /\ GlobalAt \notin pooled'
                             => Toned(shadow'[GlobalAt], Color(0)) \/ shadow'[GlobalAt] = UserPoison
                        /\ \A x \in Nat : InGlobal(x) /\ x \in allowed' /\ x \notin pooled'
                                             => Toned(shadow'[Floor(x)], Color(0))
    BY DEF GlobalToned
  <2>2. /\ GlobalAt \notin pooled => Toned(shadow[GlobalAt], Color(0)) \/ shadow[GlobalAt] = UserPoison
        /\ \A x \in Nat : InGlobal(x) /\ x \in allowed /\ x \notin pooled
                             => Toned(shadow[Floor(x)], Color(0))
    BY <1>1, <2>1 DEF GlobalToned
  <2>3. GlobalAt \notin pooled' => Toned(shadow'[GlobalAt], Color(0)) \/ shadow'[GlobalAt] = UserPoison
    BY <1>3, <2>2, TonedNotReturned
  <2>4. ASSUME NEW x \in Nat, InGlobal(x), x \in allowed', x \notin pooled'
        PROVE  Toned(shadow'[Floor(x)], Color(0))
    <3>1. /\ x \in allowed /\ x \notin pooled
          /\ shadow'[Floor(x)] = shadow[Floor(x)] \/ shadow[Floor(x)] = Returned
      BY <2>4 DEF Steady
    <3>2. Toned(shadow[Floor(x)], Color(0))
      BY <2>2, <2>4, <3>1
    <3>3. shadow[Floor(x)] # Returned
      BY <1>3, <3>2, TonedNotReturned
    <3> QED BY <3>1, <3>2, <3>3
  <2> QED BY <2>3, <2>4
<1>5. FramesToned'
  <2>1. SUFFICES ASSUME NEW k \in 1..Len(frames), frames[k].tracked, NEW x \in Nat, InLocal(x, frames[k]),
                        x \in allowed', x \notin pooled'
                 PROVE  Toned(shadow'[Floor(x)], FrameColor(k - 1)) \/ (lost /\ shadow'[Floor(x)] = 0)
    BY DEF FramesToned, FrameToned
  <2>2. StackLow <= x /\ x < StackTop
    BY <1>1, <2>1, LocalPlace
  <2>3. /\ x \in allowed /\ x \notin pooled
        /\ shadow'[Floor(x)] = shadow[Floor(x)] \/ shadow[Floor(x)] = Returned
    BY <2>1, <2>2 DEF Steady
  <2>4. Toned(shadow[Floor(x)], FrameColor(k - 1)) \/ (lost /\ shadow[Floor(x)] = 0)
    BY <1>1, <2>1, <2>3 DEF FramesToned, FrameToned
  <2>5. IsColor(FrameColor(k - 1))
    <3>1. k - 1 \in Nat
      BY <1>1, StackPointer
    <3> QED BY <3>1, FrameColorIs
  <2>6. shadow[Floor(x)] # Returned
    BY <1>3, <2>4, <2>5, TonedNotReturned
  <2> QED BY <2>3, <2>4, <2>6
<1> QED BY <1>1, <1>2, <1>4, <1>5 DEF ColorInv

LEMMA GuardSlowColors ==
  ASSUME ShadowInv, ColorInv, NEW g \in Granules, GuardSlow(g)
  PROVE  ColorInv'
<1>1. ShadowKinds
  BY DEF ShadowInv
<1>2. /\ Settled(g, Here) # shadow[g] /\ shadow' = [shadow EXCEPT ![g] = Settled(g, Here)]
      /\ UNCHANGED <<registered, frames, lost, allowed, pooled>>
  BY DEF GuardSlow
<1>3. Settled(g, Here) = 0 /\ shadow[g] = Returned
  BY <1>2 DEF Settled
<1>4. \A h \in Granules : shadow'[h] = IF h = g THEN 0 ELSE shadow[h]
  BY <1>1, <1>2, <1>3 DEF ShadowKinds
<1>5. ASSUME NEW x \in Nat, x < Window
      PROVE  shadow'[Floor(x)] = shadow[Floor(x)] \/ (shadow[Floor(x)] = Returned /\ shadow'[Floor(x)] = 0)
  BY <1>3, <1>4, <1>5, InWindowFloor
<1>6. ASSUME NEW x \in Nat, InGlobal(x) \/ (StackLow <= x /\ x < StackTop) PROVE Steady(x)
  <2>1. x < Window
    BY <1>6, GlobalFacts, ShadowConstants DEF InGlobal
  <2> QED BY <1>2, <1>5, <2>1 DEF Steady
<1>7. ASSUME NEW b \in Slots, NEW x \in Nat, InSlot(x, b)
      PROVE  shadow'[Floor(x)] = shadow[Floor(x)] \/ Shade(shadow'[Floor(x)], ColorOfHeap(b))
  <2>1. x < Window
    BY <1>7, SlotPlace, ShadowConstants DEF InSlot
  <2> QED BY <1>5, <2>1 DEF Shade
<1>8. GlobalAt \in Nat /\ GlobalAt < Window /\ Floor(GlobalAt) = GlobalAt
  BY ShadowConstants, AlignedConstants, FloorFacts, GlobalFacts
<1>9. shadow'[GlobalAt] = shadow[GlobalAt] \/ shadow[GlobalAt] = Returned
  BY <1>5, <1>8
<1> QED BY <1>2, <1>6, <1>7, <1>9, BytesToned

LEMMA AsanPoisonColors ==
  ASSUME ShadowInv, ColorInv, NEW o \in Objects, NEW m \in UserBytes, NEW a \in o.at..(o.at + o.n - m),
         AsanPoison(a, m)
  PROVE  ColorInv'
<1> DEFINE low == Ceil(a)
           high == Floor(a + m)
<1>1. AllowedPass
  BY DEF ShadowInv
<1>2. /\ shadow' = IF high > low THEN ShadowSet(shadow, low, high - low, UserPoison) ELSE shadow
      /\ allowed' = allowed \ Bytes(a, m) /\ UNCHANGED <<registered, frames, lost, pooled>>
  BY DEF AsanPoison
<1>3. o.at \in Nat /\ o.n \in Nat /\ m \in Nat \ {0}
  BY ObjectPlace, ShadowConstants
<1>4. a \in Nat /\ a + m \in Nat
  BY <1>3
<1>5. Aligned(low) /\ low \in Nat /\ a <= low /\ Aligned(high) /\ high \in Nat /\ high <= a + m
  BY <1>4, CeilFacts, FloorFacts
<1> HIDE DEF low, high
<1>6. ASSUME NEW x \in Nat, x < Window PROVE SetTo(shadow', shadow, low, high, UserPoison, x)
  <2>1. CASE high > low
    <3>1. high >= low /\ low + (high - low) = high
      BY <1>5, <2>1
    <3>2. Aligned(high - low)
      BY <1>5, <3>1, AlignedSums
    <3>3. SetTo(ShadowSet(shadow, low, high - low, UserPoison), shadow, low, low + (high - low), UserPoison, x)
      BY <1>5, <1>6, <3>2, SetByte
    <3> QED BY <1>2, <2>1, <3>1, <3>3
  <2>2. CASE ~(high > low)
    <3>1. ~(low <= x /\ x < high) /\ shadow' = shadow
      BY <1>2, <1>5, <1>6, <2>2
    <3> QED BY <3>1 DEF SetTo
  <2> QED BY <2>1, <2>2
<1>7. ShadowPoison(UserPoison)
  BY PoisonFails
<1>8. ASSUME NEW x \in Nat, x < Window PROVE Steady(x)
  <2>1. SUFFICES ASSUME x \in allowed', x \notin pooled'
                 PROVE  x \in allowed /\ x \notin pooled /\ shadow'[Floor(x)] = shadow[Floor(x)]
    BY DEF Steady
  <2>2. ~(a <= x /\ x < a + m)
    BY <1>2, <1>3, <1>4, <2>1 DEF Bytes
  <2>3. ~(low <= x /\ x < high)
    BY <1>4, <1>5, <2>2
  <2> QED BY <1>2, <1>6, <1>8, <2>1, <2>3 DEF SetTo
<1>9. ASSUME NEW x \in Nat, InGlobal(x) \/ (StackLow <= x /\ x < StackTop) PROVE Steady(x)
  <2>1. x < Window
    BY <1>9, GlobalFacts, ShadowConstants DEF InGlobal
  <2> QED BY <1>8, <2>1
<1>10. ASSUME NEW b \in Slots, NEW x \in Nat, InSlot(x, b)
       PROVE  shadow'[Floor(x)] = shadow[Floor(x)] \/ Shade(shadow'[Floor(x)], ColorOfHeap(b))
  <2>1. x < Window
    BY <1>10, SlotPlace, ShadowConstants DEF InSlot
  <2> QED BY <1>6, <1>7, <2>1 DEF Shade, SetTo
<1>11. GlobalAt \in Nat /\ GlobalAt < Window /\ Floor(GlobalAt) = GlobalAt
  BY ShadowConstants, AlignedConstants, FloorFacts, GlobalFacts
<1>12. shadow'[GlobalAt] \in {shadow[GlobalAt], UserPoison}
  BY <1>6, <1>11 DEF SetTo
<1> QED BY <1>2, <1>9, <1>10, <1>12, BytesToned

\* The quotient of a byte in the i-th piece of s bytes.
LEMMA PieceOf ==
  ASSUME NEW s \in Nat \ {0}, NEW i \in Nat, NEW y \in Nat, i * s <= y, y < i * s + s
  PROVE  y \div s = i
<1> DEFINE q == y \div s
<1>1. q \in Nat /\ y % s \in 0..(s - 1) /\ y = s * q + (y % s)
  OBVIOUS
<1> HIDE DEF q
<1>2. \A j, k \in Nat : j < k => j * s + s <= k * s
  <2>1. SUFFICES ASSUME NEW j \in Nat, NEW k \in Nat, j < k PROVE j * s + s <= k * s
    OBVIOUS
  <2>2. k - (j + 1) \in Nat
    BY <2>1
  <2>3. (k - (j + 1)) * s \in Nat /\ j * s \in Nat
    BY <2>2
  <2>4. k * s = j * s + s + (k - (j + 1)) * s
    OBVIOUS
  <2> QED BY <2>3, <2>4
<1>3. q * s = s * q /\ q * s \in Nat /\ i * s \in Nat
  BY <1>1
<1>4. ~(q < i)
  <2>1. SUFFICES ASSUME q < i PROVE FALSE
    OBVIOUS
  <2>2. q * s + s <= i * s
    BY <1>1, <1>2, <2>1
  <2> QED BY <1>1, <1>3, <2>2
<1>5. ~(i < q)
  <2>1. SUFFICES ASSUME i < q PROVE FALSE
    OBVIOUS
  <2>2. i * s + s <= q * s
    BY <1>1, <1>2, <2>1
  <2> QED BY <1>1, <1>3, <2>2
<1> QED BY <1>1, <1>4, <1>5 DEF q

\* slotOf finds the slot of each of its bytes, and its color.
LEMMA SlotOfByte ==
  ASSUME NEW r \in RegionBases, NEW i \in 0..(Capacity - 1), NEW x \in Nat,
         InSlot(x, r + i * SlotBytes)
  PROVE  /\ InArena(x) /\ RegionAt(x) = {r} /\ SlotAt(x) = r + i * SlotBytes
         /\ ColorOfHeap(x) = Color(i + 41 * RegionIndex(r))
<1> DEFINE b == r + i * SlotBytes
<1>1. b \in SlotsOf(r)
  BY DEF SlotsOf
<1>2. /\ b \in Nat /\ r <= b /\ b + SlotBytes <= r + RegionBytes /\ r \in Nat
      /\ i \in Nat /\ i * SlotBytes \in Nat
  BY <1>1, SlotFacts, RegionsApart, CapacityFits, ShadowConstants
<1>3. b <= x /\ x < b + SlotBytes
  BY DEF InSlot
<1>4. RegionAt(x) = {r}
  <2>1. r \in RegionAt(x)
    BY <1>2, <1>3, ShadowConstants DEF RegionAt
  <2>2. ASSUME NEW q \in RegionAt(x) PROVE q = r
    <3>1. SUFFICES ASSUME q # r PROVE FALSE
      OBVIOUS
    <3>2. q \in RegionBases /\ x >= q /\ x < q + RegionBytes
      BY DEF RegionAt
    <3>3. q \in Nat /\ (q + RegionBytes <= b \/ b + SlotBytes <= q)
      BY <1>1, <3>1, <3>2, RegionsApart
    <3> HIDE DEF b
    <3> QED BY <1>2, <1>3, <3>2, <3>3, ShadowConstants
  <2> QED BY <2>1, <2>2
<1>5. InArena(x) /\ (CHOOSE q \in RegionAt(x) : TRUE) = r
  <2>1. (CHOOSE q \in {r} : TRUE) = r
    OBVIOUS
  <2> QED BY <1>4, <2>1 DEF InArena
<1>6. x - r \in Nat /\ i * SlotBytes <= x - r /\ x - r < i * SlotBytes + SlotBytes
  BY <1>2, <1>3, ShadowConstants
<1>7. (x - r) \div SlotBytes = i
  BY <1>2, <1>6, PieceOf, ShadowConstants
<1> QED BY <1>4, <1>5, <1>7 DEF SlotAt, ColorOfHeap

\* The same, of the slot's own address.
LEMMA SlotOf ==
  ASSUME NEW b \in Slots, NEW x \in Nat, InSlot(x, b)
  PROVE  /\ InArena(x) /\ RegionAt(x) = RegionAt(b) /\ SlotAt(x) = b /\ SlotAt(b) = b
         /\ ColorOfHeap(x) = ColorOfHeap(b)
<1>1. PICK r \in RegionBases : b \in SlotsOf(r)
  BY SlotsIn
<1>2. PICK i \in 0..(Capacity - 1) : b = r + i * SlotBytes
  BY <1>1 DEF SlotsOf
<1>3. b \in Nat /\ InSlot(b, b)
  BY SlotPlace, ShadowConstants DEF InSlot
<1>4. /\ InArena(x) /\ RegionAt(x) = {r} /\ SlotAt(x) = b
      /\ ColorOfHeap(x) = Color(i + 41 * RegionIndex(r))
  BY <1>2, SlotOfByte
<1>5. RegionAt(b) = {r} /\ SlotAt(b) = b /\ ColorOfHeap(b) = Color(i + 41 * RegionIndex(r))
  BY <1>2, <1>3, SlotOfByte
<1> QED BY <1>4, <1>5

\* The live objects, by where they are.
LEMMA ObjectKinds ==
  ASSUME ShadowInv, NEW o \in Objects
  PROVE  \/ \E b \in Slots : size[b] >= 0 /\ o.at = b /\ o.n = size[b] /\ o.v0 = shadow[b]
         \/ registered /\ o.at = GlobalAt /\ o.n = GlobalSize /\ o.v0 = shadow[GlobalAt]
         \/ \E k \in 1..Len(frames) : /\ frames[k].tracked /\ o.at = Static(frames[k])
                                      /\ o.n = frames[k].obj /\ o.v0 = FrameColor(k - 1)
<1>1. SizesKept /\ FramesStacked
  BY DEF ShadowInv
<1>2. CASE o \in {[at |-> b, n |-> size[b], v0 |-> shadow[b]] : b \in {c \in Slots : size[c] >= 0}}
  BY <1>2
<1>3. CASE o \in {[at |-> GlobalAt, n |-> GlobalSize, v0 |-> shadow[GlobalAt]] :
                     x \in {registered} \ {FALSE}}
  <2>1. registered = TRUE
    BY <1>1, <1>3 DEF SizesKept
  <2>2. o = [at |-> GlobalAt, n |-> GlobalSize, v0 |-> shadow[GlobalAt]]
    BY <1>3
  <2>3. o.at = GlobalAt /\ o.n = GlobalSize /\ o.v0 = shadow[GlobalAt]
    BY <2>2
  <2> QED BY <2>1, <2>3
<1>4. CASE o \in {[at |-> frames[k].high - Ceil(frames[k].obj) - G,
                   n |-> frames[k].obj, v0 |-> FrameColor(k - 1)] :
                     k \in {k \in DOMAIN frames : frames[k].tracked}}
  <2>1. DOMAIN frames = 1..Len(frames)
    BY <1>1 DEF FramesStacked
  <2>2. PICK k \in DOMAIN frames : frames[k].tracked
           /\ o = [at |-> frames[k].high - Ceil(frames[k].obj) - G,
                   n |-> frames[k].obj, v0 |-> FrameColor(k - 1)]
    BY <1>4
  <2>3. o.at = Static(frames[k]) /\ o.n = frames[k].obj /\ o.v0 = FrameColor(k - 1)
    BY <2>2 DEF Static
  <2> QED BY <2>1, <2>2, <2>3
<1> QED BY <1>2, <1>3, <1>4 DEF Objects

\* A slot's object has its slot's granules to itself; an object elsewhere
\* shares none with the heap.
LEMMA ObjectApart ==
  ASSUME ShadowInv, NEW o \in Objects, NEW a \in Nat, o.at <= a, a < o.at + o.n
  PROVE  \/ \E b \in Slots : /\ o.at = b /\ o.n < SlotBytes /\ InSlot(a, b)
         \/ /\ ~InArena(a)
            /\ \E high \in Nat : /\ o.at + o.n <= high /\ Aligned(high)
                                 /\ \A b \in Slots : b + SlotBytes <= o.at \/ high <= b
<1>1. SizesKept /\ FramesStacked
  BY DEF ShadowInv
<1>2. ASSUME NEW b \in Slots, size[b] >= 0, o.at = b, o.n = size[b]
      PROVE  o.n < SlotBytes /\ InSlot(a, b)
  <2>1. size[b] \in Nat /\ size[b] < SlotBytes /\ b \in Nat
    BY <1>1, <1>2, LiveSize
  <2> QED BY <1>2, <2>1, ShadowConstants DEF InSlot
<1>3. ASSUME o.at = GlobalAt, o.n = GlobalSize
      PROVE  /\ ~InArena(a)
             /\ \E high \in Nat : /\ o.at + o.n <= high /\ Aligned(high)
                                  /\ \A b \in Slots : b + SlotBytes <= o.at \/ high <= b
  <2>1. ASSUME NEW r \in RegionBases, a >= r, a < r + RegionBytes PROVE FALSE
    BY <1>3, <2>1, RegionsApart, ShadowConstants
  <2>2. ~InArena(a)
    BY <2>1 DEF InArena, RegionAt
  <2> DEFINE h == GlobalAt + GlobalPadded
  <2>3. h \in Nat /\ Aligned(h) /\ GlobalAt + GlobalSize <= h
    <3>1. Aligned(GlobalAt + GlobalPadded)
      BY AlignedConstants, AlignedSums
    <3> QED BY <3>1, ShadowConstants
  <2>4. \A b \in Slots : b + SlotBytes <= GlobalAt \/ h <= b
    BY SlotPlace
  <2> HIDE DEF h
  <2> QED BY <1>3, <2>2, <2>3, <2>4
<1>4. ASSUME NEW k \in 1..Len(frames), frames[k].tracked, o.at = Static(frames[k]), o.n = frames[k].obj
      PROVE  /\ ~InArena(a)
             /\ \E high \in Nat : /\ o.at + o.n <= high /\ Aligned(high)
                                  /\ \A b \in Slots : b + SlotBytes <= o.at \/ high <= b
  <2>1. InLocal(a, frames[k])
    BY <1>4 DEF InLocal
  <2>2. StackLow <= a /\ a < StackTop
    BY <1>1, <1>4, <2>1, LocalPlace
  <2>3. ASSUME NEW r \in RegionBases, a >= r, a < r + RegionBytes PROVE FALSE
    BY <2>2, <2>3, RegionsApart, ShadowConstants
  <2>4. ~InArena(a)
    BY <2>3 DEF InArena, RegionAt
  <2>5. o.at \in Nat /\ o.n \in Nat
    BY ObjectPlace
  <2>6. StackLow <= o.at /\ o.at + o.n - 1 < StackTop
    <3>1. InLocal(o.at, frames[k]) /\ InLocal(o.at + o.n - 1, frames[k]) /\ o.at + o.n - 1 \in Nat
      BY <1>4, <2>5 DEF InLocal
    <3> QED BY <1>1, <1>4, <2>5, <3>1, LocalPlace
  <2>7. StackTop \in Nat /\ Aligned(StackTop) /\ o.at + o.n <= StackTop
    BY <2>5, <2>6, AlignedConstants, ShadowConstants
  <2>8. ASSUME NEW b \in Slots PROVE b + SlotBytes <= o.at \/ StackTop <= b
    BY <2>5, <2>6, SlotPlace, ShadowConstants
  <2> QED BY <2>4, <2>7, <2>8
<1>5. \/ \E b \in Slots : size[b] >= 0 /\ o.at = b /\ o.n = size[b]
      \/ o.at = GlobalAt /\ o.n = GlobalSize
      \/ \E k \in 1..Len(frames) : frames[k].tracked /\ o.at = Static(frames[k]) /\ o.n = frames[k].obj
  BY ObjectKinds
<1> QED BY <1>2, <1>3, <1>4, <1>5

LEMMA AsanUnpoisonColors ==
  ASSUME ShadowInv, ColorInv, NEW o \in Objects, NEW m \in UserBytes, NEW a \in o.at..(o.at + o.n - m),
         AsanUnpoison(a, m)
  PROVE  ColorInv'
<1> DEFINE e == a + m
           low == Floor(a)
           high == Floor(e)
           rest == e % G
           color == ColorOfHeap(a)
           last == ShadowAt(e)
           partial == rest # 0 /\ (ShadowPoison(last) \/ (~ShadowFull(last) /\ ShadowBytes(last) < rest))
           written == IF partial THEN high + G ELSE e
<1>1. ShadowKinds /\ SizesKept /\ FramesStacked /\ AllowedPass
  BY DEF ShadowInv
<1> DEFINE w == [g \in Granules |->
               CASE g >= low /\ g < high -> color
                 [] g = high /\ partial -> PartialOf(color, rest)
                 [] OTHER -> shadow[g]]
<1>2. shadow' = w
  BY DEF AsanUnpoison
<1>3. /\ allowed' = allowed \cup Bytes(a, m)
      /\ pooled' = IF InArena(a) THEN pooled ELSE pooled \cup low..(written - 1)
      /\ UNCHANGED <<registered, frames, lost>>
  <2>2. allowed' = allowed \cup Bytes(a, m)
    BY DEF AsanUnpoison
  <2>3. pooled' = IF InArena(a) THEN pooled ELSE pooled \cup low..(written - 1)
    BY DEF AsanUnpoison
  <2>4. UNCHANGED <<registered, frames, lost>>
    BY DEF AsanUnpoison
  <2> QED BY <2>2, <2>3, <2>4
<1>4. o.at \in Nat /\ Aligned(o.at) /\ o.n \in Nat /\ o.at + o.n <= Window /\ m \in Nat \ {0}
  BY ObjectPlace, ShadowConstants
<1>5. a \in Nat /\ o.at <= a /\ e <= o.at + o.n /\ e \in Nat /\ a < e
  BY <1>4
<1>6. Aligned(low) /\ low \in Nat /\ low <= a /\ o.at <= low
  BY <1>4, <1>5, FloorFacts, FloorIs
<1>7. Aligned(high) /\ high \in Nat /\ high <= e /\ e < high + G /\ rest = e - high /\ rest \in Nat /\ rest < G
  BY <1>5, FloorFacts, ShadowConstants
<1>8. IsColor(color) /\ Toned(color, color) /\ Toned(PartialOf(color, rest), color)
  BY <1>5, <1>7, HeapColorIs, PartialToned DEF Toned
<1>9. \A x \in Int : x \in Bytes(a, m) <=> a <= x /\ x < e
  BY <1>4, <1>5, <1>6 DEF Bytes
<1>10. rest # 0 => high \in Granules /\ last = shadow[high]
  <2>1. SUFFICES ASSUME rest # 0 PROVE high \in Granules /\ last = shadow[high]
    OBVIOUS
  <2>2. e # Window
    BY <1>5, <2>1, AlignedConstants DEF Aligned
  <2>3. e < Window
    BY <1>4, <1>5, <2>2, ShadowConstants
  <2> QED BY <1>5, <2>3, InWindowFloor DEF ShadowAt, InWindow
<1>11. low <= high
  BY <1>5, <1>6, FloorIs
<1> HIDE DEF low, high, rest, color, last, e
<1>12. ASSUME NEW g \in Granules
       PROVE  /\ low <= g /\ g < high => shadow'[g] = color
              /\ g = high /\ partial => shadow'[g] = PartialOf(color, rest)
              /\ ~(low <= g /\ g < high) /\ ~(g = high /\ partial) => shadow'[g] = shadow[g]
  <2>1. g \in Nat
    BY GranuleByte
  <2>2. g = high => ~(g < high)
    BY <1>7
  <2>3. shadow'[g] = CASE g >= low /\ g < high -> color
                       [] g = high /\ partial -> PartialOf(color, rest)
                       [] OTHER -> shadow[g]
    BY <1>2
  <2> HIDE DEF partial
  <2> QED BY <1>6, <1>7, <2>1, <2>2, <2>3
<1> HIDE DEF w
<1>13. ASSUME NEW x \in Nat, x < Window
       PROVE  /\ shadow'[Floor(x)] = shadow[Floor(x)] \/ Toned(shadow'[Floor(x)], color)
              /\ ~(low <= x /\ x < high) /\ ~(high <= x /\ x < high + G /\ partial)
                    => shadow'[Floor(x)] = shadow[Floor(x)]
  <2> DEFINE g == Floor(x)
  <2>1. g \in Granules /\ g \in Nat /\ g <= x /\ x < g + G
    BY <1>13, InWindowFloor, FloorFacts
  <2>2. (low <= x <=> low <= g) /\ (x < high <=> g < high)
    BY <1>6, <1>7, <1>13, FloorIs
  <2> HIDE DEF g, partial
  <2>3. g = high => high <= x /\ x < high + G
    BY <2>1
  <2>4. shadow'[g] = shadow[g] \/ Toned(shadow'[g], color)
    BY <1>8, <1>12, <2>1
  <2>5. ~(low <= x /\ x < high) /\ ~(high <= x /\ x < high + G /\ partial) => shadow'[g] = shadow[g]
    <3> SUFFICES ASSUME ~(low <= x /\ x < high), ~(high <= x /\ x < high + G /\ partial)
                 PROVE  shadow'[g] = shadow[g]
      OBVIOUS
    <3>1. ~(low <= g /\ g < high) /\ ~(g = high /\ partial)
      BY <2>2, <2>3
    <3> QED BY <1>12, <2>1, <3>1
  <2> QED BY <2>4, <2>5 DEF g
<1>14. \A x \in Int : x \in low..(written - 1) <=> low <= x /\ (x < e \/ (x < high + G /\ partial))
  <2> HIDE DEF partial
  <2>1. G \in Nat
    BY ShadowConstants
  <2>2. CASE partial
    <3>1. written = high + G
      BY <2>2
    <3> HIDE DEF written
    <3> QED BY <1>5, <1>6, <1>7, <2>1, <2>2, <3>1
  <2>3. CASE ~partial
    <3>1. written = e
      BY <2>3
    <3> HIDE DEF written
    <3> QED BY <1>5, <1>6, <1>7, <2>1, <2>3, <3>1
  <2> QED BY <2>2, <2>3
<1> HIDE DEF partial, written
<1>15. GlobalAt \in Nat /\ GlobalAt < Window /\ Floor(GlobalAt) = GlobalAt /\ Aligned(GlobalAt)
  BY ShadowConstants, AlignedConstants, FloorFacts, GlobalFacts
<1>16. partial => high < e
  BY <1>5, <1>7 DEF partial
\* The object is a slot's.
<1>17. ASSUME NEW b \in Slots, o.at = b, o.n < SlotBytes, InSlot(a, b)
       PROVE  ColorInv'
  <2>1. InArena(a) /\ color = ColorOfHeap(b)
    BY <1>5, <1>17, SlotOf DEF color
  <2>2. pooled' = pooled
    BY <1>3, <2>1
  <2>3. b \in Nat /\ Aligned(b) /\ b + SlotBytes <= Window /\ e < b + SlotBytes /\ Aligned(b + SlotBytes)
    <3>1. b \in Nat /\ Aligned(b) /\ b + SlotBytes <= Window
      BY SlotPlace
    <3>2. Aligned(b + SlotBytes)
      BY <3>1, AlignedConstants, AlignedSums
    <3> QED BY <1>4, <1>5, <1>17, <3>1, <3>2, ShadowConstants
  <2>4. high + G <= b + SlotBytes
    <3>1. high < b + SlotBytes
      BY <1>5, <1>7, <2>3, ShadowConstants
    <3> QED BY <1>7, <2>3, <3>1, AlignedSums
  <2>5. ASSUME NEW x \in Nat, x < Window, x < b \/ b + SlotBytes <= x
        PROVE  shadow'[Floor(x)] = shadow[Floor(x)] /\ (x \in allowed' => x \in allowed)
    <3>1. ~(low <= x /\ x < high) /\ ~(high <= x /\ x < high + G /\ partial)
      BY <1>4, <1>5, <1>6, <1>7, <1>11, <1>17, <2>3, <2>4, <2>5, ShadowConstants
    <3>2. ~(a <= x /\ x < e)
      BY <1>4, <1>5, <1>17, <2>3, <2>5, ShadowConstants
    <3> QED BY <1>3, <1>9, <1>13, <2>5, <3>1, <3>2
  <2>6. ASSUME NEW x \in Nat, InGlobal(x) \/ (StackLow <= x /\ x < StackTop) PROVE Steady(x)
    <3>1. x < Window /\ (x < b \/ b + SlotBytes <= x)
      BY <2>3, <2>6, SlotPlace, ShadowConstants DEF InGlobal
    <3> QED BY <2>2, <2>5, <3>1 DEF Steady
  <2>7. ASSUME NEW d \in Slots, NEW x \in Nat, InSlot(x, d)
        PROVE  shadow'[Floor(x)] = shadow[Floor(x)] \/ Shade(shadow'[Floor(x)], ColorOfHeap(d))
    <3>1. x < Window
      BY <2>7, SlotPlace, ShadowConstants DEF InSlot
    <3>2. CASE d = b
      BY <1>13, <2>1, <3>1, <3>2 DEF Shade
    <3>3. CASE d # b
      <4>1. d \in Nat /\ (d + SlotBytes <= b \/ b + SlotBytes <= d)
        BY <3>3, SlotsApart, SlotPlace
      <4>2. x < b \/ b + SlotBytes <= x
        BY <2>3, <2>7, <4>1, ShadowConstants DEF InSlot
      <4> QED BY <2>5, <3>1, <4>2
    <3> QED BY <3>2, <3>3
  <2>8. shadow'[GlobalAt] = shadow[GlobalAt]
    <3>1. GlobalAt < b \/ b + SlotBytes <= GlobalAt
      BY <2>3, SlotPlace, ShadowConstants
    <3> QED BY <1>15, <2>5, <3>1
  <2> QED BY <1>3, <2>2, <2>6, <2>7, <2>8, BytesToned
\* The object is elsewhere.
<1>18. ASSUME ~InArena(a), NEW h \in Nat, o.at + o.n <= h, Aligned(h),
              \A b \in Slots : b + SlotBytes <= o.at \/ h <= b
       PROVE  ColorInv'
  <2>1. \A x \in Nat : x \notin pooled' => /\ x \notin pooled /\ ~(low <= x /\ x < e)
                                           /\ ~(high <= x /\ x < high + G /\ partial)
    BY <1>3, <1>6, <1>7, <1>11, <1>14, <1>18
  <2>2. partial => high + G <= h
    <3>1. partial => high < h
      BY <1>4, <1>5, <1>7, <1>16, <1>18
    <3> QED BY <1>7, <1>18, <3>1, AlignedSums
  <2>3. ASSUME NEW x \in Nat, x < Window PROVE Steady(x)
    <3>1. SUFFICES ASSUME x \in allowed', x \notin pooled'
                   PROVE  x \in allowed /\ x \notin pooled /\ shadow'[Floor(x)] = shadow[Floor(x)]
      BY DEF Steady
    <3>2. x \notin pooled /\ ~(low <= x /\ x < e)
      BY <2>1, <3>1
    <3>3. x \in allowed
      BY <1>3, <1>5, <1>6, <1>9, <3>1, <3>2
    <3>4. ~(low <= x /\ x < high)
      BY <1>5, <1>7, <3>2
    <3>5. ~(high <= x /\ x < high + G /\ partial)
      BY <2>1, <3>1
    <3> QED BY <1>13, <2>3, <3>2, <3>3, <3>4, <3>5
  <2>4. ASSUME NEW x \in Nat, InGlobal(x) \/ (StackLow <= x /\ x < StackTop) PROVE Steady(x)
    <3>1. x < Window
      BY <2>4, GlobalFacts, ShadowConstants DEF InGlobal
    <3> QED BY <2>3, <3>1
  <2>5. ASSUME NEW d \in Slots, NEW x \in Nat, InSlot(x, d)
        PROVE  shadow'[Floor(x)] = shadow[Floor(x)]
    <3>1. d \in Nat /\ d + SlotBytes <= Window /\ (d + SlotBytes <= o.at \/ h <= d)
      BY <1>18, SlotPlace
    <3>2. x < Window /\ d <= x /\ x < d + SlotBytes
      BY <2>5, <3>1, ShadowConstants DEF InSlot
    <3>3. x < o.at \/ h <= x
      BY <1>4, <1>18, <3>1, <3>2, ShadowConstants
    <3>4. ~(low <= x /\ x < high)
      BY <1>4, <1>5, <1>6, <1>7, <1>18, <3>3
    <3>5. ~(high <= x /\ x < high + G /\ partial)
      BY <1>4, <1>6, <1>7, <1>11, <1>18, <2>2, <3>3, ShadowConstants
    <3> QED BY <1>13, <3>2, <3>4, <3>5
  <2>6. GlobalAt \notin pooled' => GlobalAt \notin pooled /\ shadow'[GlobalAt] = shadow[GlobalAt]
    <3>1. SUFFICES ASSUME GlobalAt \notin pooled'
                   PROVE  GlobalAt \notin pooled /\ shadow'[GlobalAt] = shadow[GlobalAt]
      OBVIOUS
    <3>2. GlobalAt \notin pooled /\ ~(low <= GlobalAt /\ GlobalAt < e)
      BY <1>15, <2>1, <3>1
    <3>3. ~(low <= GlobalAt /\ GlobalAt < high)
      BY <1>5, <1>7, <1>15, <3>2
    <3>4. ~(high <= GlobalAt /\ GlobalAt < high + G /\ partial)
      BY <1>15, <2>1, <3>1
    <3> QED BY <1>13, <1>15, <3>2, <3>3, <3>4
  <2> QED BY <1>3, <2>4, <2>5, <2>6, BytesToned
<1>19. a < o.at + o.n
  BY <1>4, <1>5
<1>20. \/ \E b \in Slots : o.at = b /\ o.n < SlotBytes /\ InSlot(a, b)
       \/ /\ ~InArena(a)
          /\ \E h \in Nat : /\ o.at + o.n <= h /\ Aligned(h)
                            /\ \A b \in Slots : b + SlotBytes <= o.at \/ h <= b
  BY <1>5, <1>19, ObjectApart
<1> QED BY <1>17, <1>18, <1>20

-----------------------------------------------------------------------------
(* What a color check decides.                                             *)
LEMMA TonedAlike ==
  ASSUME NEW c, IsColor(c), NEW v, Toned(v, c), NEW v0, Toned(v0, c)
  PROVE  v = v0 \/ ((~ShadowFull(v) \/ ~ShadowFull(v0)) /\ ShadowClass(v) = ShadowClass(v0))
<1>1. ShadowClass(c) = c % 8
  BY DEF IsColor, ShadowClass
<1> QED BY <1>1 DEF Toned

LEMMA TonedClass ==
  ASSUME NEW c, IsColor(c), NEW v, Toned(v, c)
  PROVE  ShadowClass(v) = c % 8
  BY DEF Toned, IsColor, ShadowClass

\* Neighbouring slots have colors of two classes (weavecRtColor).
LEMMA NextClassDiffers ==
  ASSUME NEW n \in Nat
  PROVE  Color(n) % 8 # Color(n + 1) % 8
<1>1. \A k \in Nat : Color(k) % 8 = ((k % 111) + 1) % 7
  <2>1. SUFFICES ASSUME NEW k \in Nat PROVE Color(k) % 8 = ((k % 111) + 1) % 7
    OBVIOUS
  <2> DEFINE m == (k % 111) + 1
  <2>2. m \in 1..111
    OBVIOUS
  <2> HIDE DEF m
  <2>3. m \div 7 \in Nat /\ m % 7 \in 0..6
    BY <2>2
  <2>4. ((m \div 7) * 8 + (m % 7)) % 8 = m % 7
    BY <2>3
  <2> QED BY <2>4 DEF Color, m
<1>2. (n + 1) % 111 = IF n % 111 = 110 THEN 0 ELSE (n % 111) + 1
  OBVIOUS
<1> DEFINE t == n % 111
<1>3. t \in 0..110
  OBVIOUS
<1> HIDE DEF t
<1>4. CASE t = 110
  <2>1. (t + 1) % 7 = 6 /\ (0 + 1) % 7 = 1
    BY <1>4
  <2> QED BY <1>1, <1>2, <1>4, <2>1 DEF t
<1>5. CASE t # 110
  <2>1. (t + 1) % 7 # ((t + 1) + 1) % 7
    BY <1>3
  <2> QED BY <1>1, <1>2, <1>5, <2>1 DEF t
<1> QED BY <1>4, <1>5

LEMMA NeighboursDiffer ==
  ASSUME NEW b \in Slots, b + SlotBytes \in Slots, RegionAt(b) = RegionAt(b + SlotBytes)
  PROVE  ColorOfHeap(b) % 8 # ColorOfHeap(b + SlotBytes) % 8
<1> DEFINE c == b + SlotBytes
<1>1. PICK r \in RegionBases : b \in SlotsOf(r)
  BY SlotsIn
<1>2. PICK i \in 0..(Capacity - 1) : b = r + i * SlotBytes
  BY <1>1 DEF SlotsOf
<1>3. PICK q \in RegionBases : c \in SlotsOf(q)
  BY SlotsIn
<1>4. PICK j \in 0..(Capacity - 1) : c = q + j * SlotBytes
  BY <1>3 DEF SlotsOf
<1>5. b \in Nat /\ c \in Nat /\ InSlot(b, b) /\ InSlot(c, c)
  BY SlotPlace, ShadowConstants DEF InSlot
<1>6. RegionAt(b) = {r} /\ ColorOfHeap(b) = Color(i + 41 * RegionIndex(r))
  BY <1>2, <1>5, SlotOfByte
<1>7. RegionAt(c) = {q} /\ ColorOfHeap(c) = Color(j + 41 * RegionIndex(q))
  BY <1>4, <1>5, SlotOfByte
<1>8. q = r
  BY <1>6, <1>7
<1>9. j = i + 1
  <2>1. i \in Nat /\ j \in Nat /\ r \in Nat /\ i * SlotBytes \in Nat /\ j * SlotBytes \in Nat
    BY CapacityFits, ShadowConstants
  <2>2. j * SlotBytes = i * SlotBytes + SlotBytes
    BY <1>2, <1>4, <1>8, <2>1, ShadowConstants
  <2>3. (j * SlotBytes) \div SlotBytes = j
    BY <2>1, PieceOf, ShadowConstants
  <2>4. (i + 1) * SlotBytes = i * SlotBytes + SlotBytes
    BY <2>1, ShadowConstants
  <2>5. (i * SlotBytes + SlotBytes) \div SlotBytes = i + 1
    <3> DEFINE n == i + 1
               y == i * SlotBytes + SlotBytes
    <3>1. n \in Nat /\ y \in Nat /\ n * SlotBytes <= y /\ y < n * SlotBytes + SlotBytes
      BY <2>1, <2>4, ShadowConstants
    <3> HIDE DEF n, y
    <3>2. y \div SlotBytes = n
      BY <3>1, PieceOf, ShadowConstants
    <3> QED BY <3>2 DEF n, y
  <2> QED BY <2>2, <2>3, <2>5
<1>10. RegionIndex(r) \in Nat
  <2>1. IsFiniteSet(RegionBases)
    BY ShadowAssumption DEF ShadowAssumption
  <2>2. IsFiniteSet({p \in RegionBases : p < r})
    BY <2>1, FS_Subset
  <2> QED BY <2>2, FS_CardinalityType DEF RegionIndex
<1>11. i + 41 * RegionIndex(r) \in Nat /\ j + 41 * RegionIndex(q) = (i + 41 * RegionIndex(r)) + 1
  BY <1>8, <1>9, <1>10, CapacityFits
<1> QED BY <1>6, <1>7, <1>11, NextClassDiffers

LEMMA KeepsObject ==
  ASSUME ShadowInv, ColorInv, NEW o \in Objects, o.at \notin pooled,
         NEW a \in Bytes(o.at, o.n), a \in allowed, a \notin pooled
  PROVE  JumpOk(a, o.at, o.v0, Here)
<1>1. FramesStacked /\ SizesKept /\ AllowedPass /\ GlobalToned /\ FramesToned
  BY DEF ShadowInv, ColorInv
<1>2. a \in Nat /\ a < Window /\ ShadowAt(a) = shadow[Floor(a)]
  BY <1>1 DEF AllowedPass, ShadowAt, InWindow
<1>3. o.at \in Nat /\ o.n \in Nat
  BY ObjectPlace
<1>4. o.at <= a /\ a < o.at + o.n
  BY <1>2, <1>3 DEF Bytes
<1>5. ASSUME NEW b \in Slots, size[b] >= 0, o.at = b, o.n = size[b]
      PROVE  JumpOk(a, o.at, o.v0, Here)
  <2>1. size[b] \in Nat /\ size[b] < SlotBytes /\ b \in Nat
    BY <1>1, <1>5, LiveSize
  <2>2. InSlot(a, b) /\ InSlot(b, b)
    BY <1>2, <1>4, <1>5, <2>1, ShadowConstants DEF InSlot
  <2>3. InArena(a) /\ SlotAt(a) = b /\ InArena(b) /\ SlotAt(b) = b
    BY <1>2, <2>1, <2>2, SlotOf
  <2>4. Found(b)
    BY <1>5, <2>1, <2>3 DEF Found, Never
  <2> QED BY <1>5, <2>3, <2>4 DEF JumpOk
<1>6. ASSUME registered, o.at = GlobalAt, o.n = GlobalSize, o.v0 = shadow[GlobalAt]
      PROVE  JumpOk(a, o.at, o.v0, Here)
  <2>1. InGlobal(a) /\ GlobalSize > 0
    BY <1>2, <1>4, <1>6, ShadowConstants DEF InGlobal
  <2>2. /\ Toned(o.v0, Color(0)) \/ o.v0 = UserPoison
        /\ Toned(shadow[Floor(a)], Color(0))
    BY <1>1, <1>2, <1>6, <2>1 DEF GlobalToned
  <2>3. CASE o.v0 = UserPoison
    <3>1. ShadowPoison(o.v0)
      BY <2>3, PoisonFails
    <3> QED BY <3>1 DEF JumpOk
  <2>4. CASE Toned(o.v0, Color(0))
    <3>1. IsColor(Color(0))
      BY ColorIs
    <3> QED BY <1>2, <2>2, <2>4, <3>1, TonedAlike DEF JumpOk
  <2> QED BY <2>2, <2>3, <2>4
<1>7. ASSUME NEW k \in 1..Len(frames), frames[k].tracked, o.at = Static(frames[k]), o.n = frames[k].obj,
             o.v0 = FrameColor(k - 1)
      PROVE  JumpOk(a, o.at, o.v0, Here)
  <2>1. InLocal(a, frames[k])
    BY <1>4, <1>7 DEF InLocal
  <2>2. Sp <= a /\ a < StackTop
    BY <1>1, <1>2, <1>7, <2>1, LocalPlace
  <2>3. Toned(shadow[Floor(a)], o.v0) \/ (lost /\ shadow[Floor(a)] = 0)
    BY <1>1, <1>2, <1>7, <2>1 DEF FramesToned, FrameToned
  <2>4. IsColor(o.v0)
    <3>1. k - 1 \in Nat
      BY <1>1, StackPointer
    <3> QED BY <1>7, <3>1, FrameColorIs
  <2>5. CASE Toned(shadow[Floor(a)], o.v0)
    <3>1. Toned(o.v0, o.v0)
      BY DEF Toned
    <3> QED BY <1>2, <2>4, <2>5, <3>1, TonedAlike DEF JumpOk
  <2>6. CASE lost /\ shadow[Floor(a)] = 0
    <3>1. OnStack(a, Here)
      <4>1. Sp \in Nat /\ Here = Sp - EntryBytes
        BY <1>1, StackPointer
      <4> QED BY <1>2, <2>2, <4>1, ShadowConstants DEF OnStack
    <3> QED BY <1>2, <2>6, <3>1 DEF JumpOk
  <2> QED BY <2>3, <2>5, <2>6
<1> QED BY <1>5, <1>6, <1>7, ObjectKinds

LEMMA SeparatesNeighbours ==
  ASSUME ShadowInv, ColorInv, NEW b \in Slots, size[b] >= 0, b + SlotBytes \in Slots,
         RegionAt(b) = RegionAt(b + SlotBytes), shadow[b] # 0, ~ShadowPoison(shadow[b]),
         NEW a \in Bytes(b + SlotBytes, SlotBytes), a \in allowed \ spoiled, shadow[Floor(a)] \notin {0, Returned}
  PROVE  ~JumpOk(a, b, shadow[b], Here)
<1> DEFINE c == b + SlotBytes
           v == shadow[Floor(a)]
<1>1. ShadowKinds /\ AllowedPass /\ SlotsToned
  BY DEF ShadowInv, ColorInv
<1>2. a \in Nat /\ a < Window /\ ShadowAt(a) = v /\ InWindow(a) /\ GranulePasses(a)
  BY <1>1 DEF AllowedPass, ShadowAt, InWindow
<1>3. /\ b \in Nat /\ b < Window /\ Floor(b) = b /\ c \in Nat /\ c # b
      /\ InSlot(b, b) /\ InSlot(a, c)
  <2>1. b \in Nat /\ Aligned(b) /\ b + SlotBytes <= Window /\ c \in Nat
    BY SlotPlace
  <2>2. Floor(b) = b
    BY <2>1, FloorFacts
  <2> QED BY <1>2, <2>1, <2>2, ShadowConstants DEF InSlot, Bytes
<1>4. ~ShadowPoison(v)
  <2>1. v \in Nat
    BY <1>1, <1>2, InWindowFloor DEF ShadowKinds, IsKind
  <2> QED BY <1>2, <2>1 DEF GranulePasses, LastSpanned, ShadowPoison, ShadowFull
<1>5. Toned(v, ColorOfHeap(c)) /\ Toned(shadow[b], ColorOfHeap(b))
  BY <1>1, <1>2, <1>3, <1>4 DEF SlotsToned, Shade
<1>6. IsColor(ColorOfHeap(c)) /\ IsColor(ColorOfHeap(b))
  BY <1>3, HeapColorIs
<1>7. ShadowClass(v) # ShadowClass(shadow[b])
  BY <1>5, <1>6, TonedClass, NeighboursDiffer
<1>8. SlotAt(a) = c /\ SlotAt(b) = b
  BY <1>2, <1>3, SlotOf
<1> HIDE DEF c, v
<1> QED BY <1>2, <1>3, <1>4, <1>7, <1>8 DEF JumpOk, v

LEMMA ColorsFollow ==
  ASSUME ShadowInv, ColorInv
  PROVE  ColorsExact
<1>1. ColorsKeepObject
  BY KeepsObject DEF ColorsKeepObject
<1>2. ColorsSeparateNeighbours
  BY SeparatesNeighbours DEF ColorsSeparateNeighbours
<1> QED BY <1>1, <1>2 DEF ColorsExact

LEMMA ColorInitInv == ShadowInit => ColorInv
<1> SUFFICES ASSUME ShadowInit PROVE ColorInv
  OBVIOUS
<1>1. SlotsToned
  <2>1. SUFFICES ASSUME NEW b \in Slots, NEW x \in Nat, InSlot(x, b) PROVE shadow[Floor(x)] = 0
    BY DEF SlotsToned, Shade
  <2>2. x < Window
    BY <2>1, SlotPlace, ShadowConstants DEF InSlot
  <2> QED BY <2>2, InWindowFloor DEF ShadowInit
<1>2. GlobalToned
  BY DEF ShadowInit, GlobalToned
<1>3. FramesToned
  BY DEF ShadowInit, FramesToned
<1> QED BY <1>1, <1>2, <1>3 DEF ShadowInit, ColorInv

LEMMA ColorStepInv == ShadowInv /\ ColorInv /\ [ShadowNext]_shadowVars => ColorInv'
<1> SUFFICES ASSUME ShadowInv, ColorInv, [ShadowNext]_shadowVars PROVE ColorInv'
  OBVIOUS
<1>1. CASE UNCHANGED shadowVars
  BY <1>1 DEF shadowVars, ColorInv, SlotsToned, GlobalToned, FramesToned, FrameToned
<1>2. CASE Step
  <2>1. ASSUME NEW r \in RegionBases, NEW b \in Slots, NEW n \in Sizes, Malloc(r, b, n) PROVE ColorInv'
    BY <2>1, MallocColors
  <2>2. ASSUME NEW b \in Slots, FreeSlot(b) PROVE ColorInv'
    BY <2>2, FreeSlotColors
  <2>3. ASSUME NEW b \in Slots, ReturnOnBlock(b) PROVE ColorInv'
    BY <2>3, ReturnOnBlockColors
  <2>4. ASSUME GlobalsRegister PROVE ColorInv'
    BY <2>4, RegisterColors
  <2>5. ASSUME GlobalsUnregister PROVE ColorInv'
    BY <2>5, UnregisterColors
  <2>6. ASSUME NEW n \in Sizes, EnterTracked(n) PROVE ColorInv'
    BY <2>6, EnterTrackedColors
  <2>7. ASSUME NEW n \in Sizes, AllocaPoison(n) PROVE ColorInv'
    BY <2>7, AllocaColors
  <2>8. ASSUME EnterUntracked PROVE ColorInv'
    BY <2>8, EnterUntrackedColors
  <2>9. ASSUME Leave PROVE ColorInv'
    BY <2>9, LeaveColors
  <2>10. ASSUME NEW k \in 1..Len(frames), LongJump(k) PROVE ColorInv'
    BY <2>10, LongJumpColors
  <2>11. ASSUME NEW o \in Objects, NEW n \in UserBytes, NEW a \in o.at..(o.at + o.n - n), AsanPoison(a, n)
         PROVE  ColorInv'
    BY <2>11, AsanPoisonColors
  <2>12. ASSUME NEW o \in Objects, NEW n \in UserBytes, NEW a \in o.at..(o.at + o.n - n), AsanUnpoison(a, n)
         PROVE  ColorInv'
    BY <2>12, AsanUnpoisonColors
  <2>13. ASSUME NEW g \in Granules, GuardSlow(g) PROVE ColorInv'
    BY <2>13, GuardSlowColors
  <2> QED BY <1>2, <2>1, <2>2, <2>3, <2>4, <2>5, <2>6, <2>7, <2>8, <2>9, <2>10, <2>11, <2>12, <2>13 DEF Step
<1> QED BY <1>1, <1>2 DEF ShadowNext

\* Whatever the program does to its memory, a pointer computed from an object
\* passes its color check inside the object and fails it in the next slot's
\* (weavecRtColorOfHeap, jumpKind).
THEOREM ColorsStayExact == ShadowSpec => []ColorsExact
<1> DEFINE Inv == ShadowInv /\ Disjoint /\ ColorInv
<1>1. ShadowInit => Inv
  BY ShadowInitInv, DisjointInit, ColorInitInv
<1>2. Inv /\ [ShadowNext]_shadowVars => Inv'
  BY ShadowStepInv, DisjointStep, ColorStepInv
<1>3. Inv => ColorsExact
  BY ColorsFollow
<1> QED BY <1>1, <1>2, <1>3, PTL DEF ShadowSpec
=============================================================================
