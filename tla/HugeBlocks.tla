----------------------------- MODULE HugeBlocks -----------------------------
(***************************************************************************)
(* The table of huge blocks (hugeAlloc, hugeFind, hugeFree and the part of  *)
(* the sweep that recycles them, runtime/weavec_alloc.c), the memory they   *)
(* are mapped in, and its shadow.                                           *)
(*                                                                          *)
(* Memory is granules, PageG of them a page.  Threads map memory before     *)
(* they take hugeLock and publish the block under it; the program and the   *)
(* C library map and unmap other memory at the same addresses meanwhile.  A *)
(* block's mapping is its pages and one inaccessible page after them.       *)
(***************************************************************************)
EXTENDS Integers, Sequences, FiniteSets, FiniteSetsExt, SequencesExt

CONSTANTS
    Callers,      \* threads
    Pages,        \* pages of the address space
    PageG,        \* granules per page
    HugeSizes,    \* sizes in granules
    HugeAligns,   \* alignments in pages
    EndLimit,     \* TailLimit, in granules
    FirstCapacity \* capacity of the first table (256)

ASSUME HugeAssumption ==
    /\ {Pages, PageG, EndLimit, FirstCapacity} \subseteq Nat \ {0}
    /\ HugeSizes \subseteq Nat /\ HugeAligns \subseteq Nat \ {0}

VARIABLES
    hugeBlocks,   \* the table, in address order
    hugeCapacity, \* how many entries it has room for
    hugeLow, hugeHigh,
    pageOwner,    \* who has each page mapped
    pagePoison,   \* the shadow of each granule: "clear", "tail" or "freed"
    mapping       \* each thread: the mapping it has not published yet

hugeVars == <<hugeBlocks, hugeCapacity, hugeLow, hugeHigh, pageOwner,
              pagePoison, mapping>>

HugeGranules == 0 .. Pages * PageG - 1
HugePage(g) == g \div PageG
BlockPages(n) == IF n = 0 THEN 1 ELSE (n + PageG - 1) \div PageG

(* The pages of a mapping: the block's, one after it, and room to align it. *)
MapPages(p, n, a) == p .. p + BlockPages(n) + (IF a > 1 THEN a ELSE 0)
AlignedPage(p, a) == ((p + a - 1) \div a) * a

NoMap == [page |-> -1, size |-> 0, align |-> 1]

Painted(s, low, n, value) ==
    [g \in HugeGranules |-> IF g >= low /\ g < low + n THEN value ELSE s[g]]

(* shadowLive(base, size, bytes) *)
LiveBlock(s, base, n) ==
    Painted(Painted(s, base, n, "clear"), base + n, BlockPages(n) * PageG - n, "tail")

(* Mutant: a large block's middle is cleared to its end. *)
DeadBlockOneEnd(s, base, n) ==
    IF n > 2 * EndLimit
    THEN Painted(Painted(s, base, EndLimit, "freed"),
                 base + EndLimit, n - EndLimit, "clear")
    ELSE Painted(s, base, n, "freed")

(* hugeFree's shadow: a large block's ends, its middle cleared. *)
DeadBlock(s, base, n) ==
    IF n > 2 * EndLimit
    THEN Painted(Painted(Painted(s, base, EndLimit, "freed"),
                 base + EndLimit, n - 2 * EndLimit, "clear"),
             base + n - EndLimit, EndLimit, "freed")
    ELSE Painted(s, base, n, "freed")

(* recycle's weavecRtShadowClear(base, base + size + 16). *)
Cleared(b) == b.base .. b.base + b.size

(* Mutant: the search stops one entry early. *)
HalvedShort(s, g) ==
    LET mid == s.low + (s.high - s.low) \div 2
    IN  IF s.low + 1 >= s.high THEN s
        ELSE IF hugeBlocks[mid + 1].map <= g THEN [s EXCEPT !.low = mid + 1]
        ELSE [s EXCEPT !.high = mid]

(* A round of the search, which changes nothing when it is over. *)
Halved(s, g) ==
    LET mid == s.low + (s.high - s.low) \div 2
    IN  IF s.low >= s.high THEN s
        ELSE IF hugeBlocks[mid + 1].map <= g THEN [s EXCEPT !.low = mid + 1]
        ELSE [s EXCEPT !.high = mid]

(* hugeIndex: the last block whose mapping starts at or before g, 0 if none;*)
(* a search of n blocks is over after n rounds at most.                     *)
Search(g) ==
    LET round[k \in 0 .. Len(hugeBlocks)] ==
            IF k = 0 THEN [low |-> 0, high |-> Len(hugeBlocks)]
            ELSE Halved(round[k - 1], g)
    IN  round

HugeIndex(g) == Search(g)[Len(hugeBlocks)].low

MaybeHuge(g) == g >= hugeLow /\ g < hugeHigh

(* hugeFind: the index of the block that holds g, 0 if none. *)
HugeFind(g) ==
    LET i == HugeIndex(g)
    IN  IF MaybeHuge(g) /\ i > 0 /\ g < hugeBlocks[i].map + hugeBlocks[i].mapBytes
        THEN i ELSE 0

-----------------------------------------------------------------------------
HugeInit ==
    /\ hugeBlocks = <<>>
    /\ hugeCapacity = 0
    /\ hugeLow = Pages * PageG
    /\ hugeHigh = 0
    /\ pageOwner = [p \in 0 .. Pages - 1 |-> "none"]
    /\ pagePoison = [g \in HugeGranules |-> "clear"]
    /\ mapping = [t \in Callers |-> NoMap]

(* hugeAlloc maps n granules at page p, before it takes the lock. *)
HugeMap(t, p, n, a) ==
    /\ mapping[t] = NoMap
    /\ MapPages(p, n, a) \subseteq 0 .. Pages - 1
    /\ \A q \in MapPages(p, n, a) : pageOwner[q] = "none"
    /\ pageOwner' = [q \in DOMAIN pageOwner |->
                        IF q \in MapPages(p, n, a) THEN "huge" ELSE pageOwner[q]]
    /\ mapping' = [mapping EXCEPT ![t] = [page |-> p, size |-> n, align |-> a]]
    /\ UNCHANGED <<hugeBlocks, hugeCapacity, hugeLow, hugeHigh, pagePoison>>

MappedPages(t) == MapPages(mapping[t].page, mapping[t].size, mapping[t].align)

(* The table is full and cannot grow: the mapping goes back. *)
HugeGrowFails(t) ==
    /\ mapping[t] # NoMap
    /\ Len(hugeBlocks) = hugeCapacity
    /\ pageOwner' = [q \in DOMAIN pageOwner |->
                        IF q \in MappedPages(t) THEN "none" ELSE pageOwner[q]]
    /\ mapping' = [mapping EXCEPT ![t] = NoMap]
    /\ UNCHANGED <<hugeBlocks, hugeCapacity, hugeLow, hugeHigh, pagePoison>>

NewBlock(t) ==
    [map |-> mapping[t].page * PageG,
     mapBytes |-> Cardinality(MappedPages(t)) * PageG,
     base |-> AlignedPage(mapping[t].page, mapping[t].align) * PageG,
     size |-> mapping[t].size, dead |-> FALSE, marked |-> FALSE]

GrownCapacity ==
    IF Len(hugeBlocks) < hugeCapacity THEN hugeCapacity
    ELSE IF hugeCapacity = 0 THEN FirstCapacity ELSE hugeCapacity * 2

(* hugeAlloc under the lock: the table grows, the block is inserted in      *)
(* address order, its shadow is written and the bounds widened.             *)
HugePublish(t) ==
    LET b == NewBlock(t)
    IN  /\ mapping[t] # NoMap
        /\ hugeCapacity' = GrownCapacity
        /\ hugeBlocks' = InsertAt(hugeBlocks, HugeIndex(b.map) + 1, b)
        /\ pagePoison' = LiveBlock(pagePoison, b.base, b.size)
        /\ hugeLow' = Min({hugeLow, b.map})
        /\ hugeHigh' = Max({hugeHigh, b.map + b.mapBytes})
        /\ mapping' = [mapping EXCEPT ![t] = NoMap]
        /\ UNCHANGED pageOwner

(* hugeFree of the address g: a live block that starts there is released,   *)
(* its pages made inaccessible; of another address it changes nothing.      *)
HugeFree(g) ==
    LET i == HugeIndex(g)
    IN  /\ MaybeHuge(g)
        /\ i > 0 /\ hugeBlocks[i].base = g /\ ~hugeBlocks[i].dead
        /\ hugeBlocks' = [hugeBlocks EXCEPT ![i].dead = TRUE]
        /\ pagePoison' = DeadBlock(pagePoison, g, hugeBlocks[i].size)
        /\ UNCHANGED <<hugeCapacity, hugeLow, hugeHigh, pageOwner, mapping>>

(* The mark phase found a pointer into a released block's mapping           *)
(* (markAddress).                                                           *)
HugeMark(g) ==
    LET i == HugeFind(g)
    IN  /\ i > 0 /\ hugeBlocks[i].dead /\ ~hugeBlocks[i].marked
        /\ hugeBlocks' = [hugeBlocks EXCEPT ![i].marked = TRUE]
        /\ UNCHANGED <<hugeCapacity, hugeLow, hugeHigh, pageOwner, pagePoison,
                       mapping>>

(* Mutant: marks are not looked at. *)
StaysDead(b, recycle) == ~b.dead \/ ~recycle

(* Whether a block stays in the table. *)
Stays(b, recycle) == ~b.dead \/ b.marked \/ ~recycle

BlockGranules(b) == b.map .. b.map + b.mapBytes - 1

(* The blocks that stay among the first i, their marks cleared. *)
KeptUpTo(recycle) ==
    LET kept[i \in 0 .. Len(hugeBlocks)] ==
            IF i = 0 THEN <<>>
            ELSE IF Stays(hugeBlocks[i], recycle)
            THEN Append(kept[i - 1], [hugeBlocks[i] EXCEPT !.marked = FALSE])
            ELSE kept[i - 1]
    IN  kept

(* recycle, with every lock held: the released blocks that nothing points   *)
(* to are unmapped, unless the sweep could not stop every thread, and the   *)
(* marks cleared.                                                           *)
HugeRecycle(recycle) ==
    LET gone == {i \in DOMAIN hugeBlocks : ~Stays(hugeBlocks[i], recycle)}
    IN  /\ pagePoison' = [g \in HugeGranules |->
                             IF \E i \in gone : g \in Cleared(hugeBlocks[i])
                             THEN "clear" ELSE pagePoison[g]]
        /\ hugeBlocks' = KeptUpTo(recycle)[Len(hugeBlocks)]
        /\ pageOwner' = [q \in DOMAIN pageOwner |->
                            IF \E i \in gone : \E g \in BlockGranules(hugeBlocks[i]) :
                                  HugePage(g) = q
                            THEN "none" ELSE pageOwner[q]]
        /\ UNCHANGED <<hugeCapacity, hugeLow, hugeHigh, mapping>>

(* The program maps page q with __weavec_rt_mmap, which clears its shadow.  *)
ProgramMap(q) ==
    /\ pageOwner[q] = "none"
    /\ pageOwner' = [pageOwner EXCEPT ![q] = "program"]
    /\ pagePoison' = Painted(pagePoison, q * PageG, PageG, "clear")
    /\ UNCHANGED <<hugeBlocks, hugeCapacity, hugeLow, hugeHigh, mapping>>

ProgramUnmap(q) ==
    /\ pageOwner[q] = "program"
    /\ pageOwner' = [pageOwner EXCEPT ![q] = "none"]
    /\ pagePoison' = Painted(pagePoison, q * PageG, PageG, "clear")
    /\ UNCHANGED <<hugeBlocks, hugeCapacity, hugeLow, hugeHigh, mapping>>

(* The C library or the loader maps page q: a thread's stack, an image. *)
OtherMap(q) ==
    /\ pageOwner[q] = "none"
    /\ pageOwner' = [pageOwner EXCEPT ![q] = "other"]
    /\ UNCHANGED <<hugeBlocks, hugeCapacity, hugeLow, hugeHigh, pagePoison, mapping>>

HugeNext ==
    \/ \E t \in Callers :
          \/ \E p \in 0 .. Pages - 1, n \in HugeSizes, a \in HugeAligns :
                HugeMap(t, p, n, a)
          \/ HugeGrowFails(t) \/ HugePublish(t)
    \/ \E g \in HugeGranules : HugeFree(g) \/ HugeMark(g)
    \/ \E recycle \in BOOLEAN : HugeRecycle(recycle)
    \/ \E q \in 0 .. Pages - 1 : ProgramMap(q) \/ ProgramUnmap(q) \/ OtherMap(q)

HugeSpec == HugeInit /\ [][HugeNext]_hugeVars

-----------------------------------------------------------------------------
(* Properties *)

(* Every address in a block's mapping finds that block, and no other        *)
(* address finds one, whatever was inserted, recycled and grown since: the  *)
(* sweep's marks, a release and a guard's report rest on it (hugeIndex,     *)
(* hugeLow and hugeHigh, which are never narrowed).                         *)
FoundExactly ==
    \A g \in HugeGranules :
        LET holders == {i \in DOMAIN hugeBlocks : g \in BlockGranules(hugeBlocks[i])}
        IN  IF holders = {} THEN HugeFind(g) = 0 ELSE holders = {HugeFind(g)}

(* The pages of the huge blocks, published or not, are exactly those of the *)
(* table's and the threads' mappings: a block that waits for a sweep keeps  *)
(* its addresses, and no page is left behind by one that was recycled.      *)
PagesKept ==
    \A q \in 0 .. Pages - 1 :
        pageOwner[q] = "huge" <=>
            \/ \E i \in DOMAIN hugeBlocks :
                  \E g \in BlockGranules(hugeBlocks[i]) : HugePage(g) = q
            \/ \E t \in Callers : mapping[t] # NoMap /\ q \in MappedPages(t)

(* The table is right about memory: it finds the blocks, whose pages are    *)
(* theirs alone.                                                            *)
HugeFoundExactly == FoundExactly /\ PagesKept

(* A live block's own granules are addressable and the rest of its last     *)
(* page is not; a released one's ends are not, whatever was mapped, cleared *)
(* and recycled beside them (shadowLive, hugeFree, recycle).                *)
BlockShadowExact ==
    \A i \in DOMAIN hugeBlocks :
        LET b == hugeBlocks[i]
            own == b.base .. b.base + b.size - 1
        IN  IF ~b.dead
            THEN /\ \A g \in own : pagePoison[g] = "clear"
                 /\ \A g \in (b.base + b.size) ..
                             (b.base + BlockPages(b.size) * PageG - 1) :
                       pagePoison[g] = "tail"
            ELSE b.size > 0 => pagePoison[b.base] = "freed"
                               /\ pagePoison[b.base + b.size - 1] = "freed"

(* Memory that the program maps with the wrapped mmap reads as addressable, *)
(* whatever huge block was recycled there (clearMapped).                    *)
ProgramMemoryAddressable ==
    \A g \in HugeGranules :
        pageOwner[HugePage(g)] = "program" => pagePoison[g] = "clear"

(* The shadow agrees with who has the memory, blocks and program alike.     *)
HugeShadowExact == BlockShadowExact /\ ProgramMemoryAddressable

(* A block leaves the table only when it was released and no pointer to it  *)
(* was found since (hugeFree, weavecRtMark, recycle).                       *)
HugeStays ==
    [][\A i \in DOMAIN hugeBlocks :
          ~hugeBlocks[i].dead \/ hugeBlocks[i].marked
          => \E j \in DOMAIN hugeBlocks' :
                hugeBlocks'[j].map = hugeBlocks[i].map]_hugeVars
=============================================================================
