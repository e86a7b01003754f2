------------------------------ MODULE Classes -------------------------------
(***************************************************************************)
(* Size classes, the slot of an address, and the entry points that choose   *)
(* them (runtime/weavec_alloc.c, weavec_malloc.c): the arithmetic between a *)
(* request and the slot that answers it.                                    *)
(*                                                                          *)
(* The powers of two of the code are parameters, so that TLC can try every  *)
(* request: a region of 2^RegionShift bytes (2^31), classes up to           *)
(* 2^MaxShift bytes (2^30), a multiplier of MagicBits bits (32), size_t of  *)
(* SizeBits bits (64).                                                      *)
(***************************************************************************)
EXTENDS Naturals, FiniteSets

CONSTANTS RegionShift, MaxShift, MagicBits, SizeBits, PageBytes, PointerBytes,
          Counts

VARIABLE request   \* the arguments of a call: size, alignment, count

ASSUME ClassAssumption == MagicBits > RegionShift /\ MaxShift >= 7

SmallClasses == 8
ClassCount == SmallClasses + 4 * (MaxShift - 7)
Wrap == 2 ^ SizeBits

(* 63 - clz(n): the position of the highest bit of n > 0. *)
HighBit(n) == CHOOSE k \in 0 .. SizeBits : 2 ^ k <= n /\ n < 2 ^ (k + 1)

(* Mutant: the class of a size that fills a slot, with no byte to spare. *)
ClassForFull(size) ==
    LET need == size
    IN  IF need <= 128 THEN (IF need = 0 THEN 0 ELSE (need - 1) \div 16)
        ELSE IF need > 2 ^ MaxShift THEN ClassCount
        ELSE LET k == HighBit(need - 1) - 2
                 m == ((need - 1) \div 2 ^ k) + 1
             IN  SmallClasses + 4 * (k - 5) + (m - 5)

(* classFor; ClassCount or more when no class is larger than size.  At the  *)
(* end of size_t need is 0 and the quotient is past every class.            *)
ClassFor(size) ==
    LET need == (size + 1) % Wrap
    IN  IF need <= 128 THEN ((need - 1) % Wrap) \div 16
        ELSE IF need > 2 ^ MaxShift THEN ClassCount
        ELSE LET k == HighBit(need - 1) - 2
                 m == ((need - 1) \div 2 ^ k) + 1
             IN  SmallClasses + 4 * (k - 5) + (m - 5)

PowerClass(bytes) == ClassFor(bytes - 1)

(* The odd part of m, and how often 2 divides it (buildClasses' loop). *)
Halvings(m) == CHOOSE j \in 0 .. 3 : m % 2 ^ j = 0 /\ (m \div 2 ^ j) % 2 = 1

(* An entry of the table that buildClasses makes. *)
ClassEntry(c) ==
    LET m == IF c < SmallClasses THEN c + 1 ELSE 5 + ((c - SmallClasses) % 4)
        k == IF c < SmallClasses THEN 4 ELSE 5 + (c - SmallClasses) \div 4
        odd == m \div 2 ^ Halvings(m)
        shift == k + Halvings(m)
    IN  [size |-> odd * 2 ^ shift, shift |-> shift,
         magic |-> IF odd = 1 THEN 0 ELSE (2 ^ MagicBits + odd - 1) \div odd,
         capacity |-> 2 ^ RegionShift \div (odd * 2 ^ shift)]

(* The classes it creates: none larger than a quarter of a region. *)
CreatedClasses ==
    Cardinality({c \in 0 .. ClassCount - 1 :
                    \A d \in 0 .. c : ClassEntry(d).size <= 2 ^ (RegionShift - 2)})

(* slotOf: the slot of an offset in a region of class c. *)
SlotOf(c, offset) ==
    LET e == ClassEntry(c)
        units == offset \div 2 ^ e.shift
    IN  IF e.magic = 0 THEN units ELSE (units * e.magic) \div 2 ^ MagicBits

IsPowerOfTwo(n) == \E k \in 0 .. SizeBits : n = 2 ^ k

(* allocate with an alignment above 16: the power of two it doubles to. *)
Doubled(size, align) ==
    LET K == {k \in 0 .. SizeBits : 2 ^ k >= align
                 /\ (2 ^ k > size \/ 2 ^ k >= 2 ^ MaxShift)}
    IN  CHOOSE b \in {2 ^ k : k \in K} : \A k \in K : b <= 2 ^ k

HugeBlock == [kind |-> "huge", class |-> 0, errno |-> "none"]
NoBlock(errno) == [kind |-> "null", class |-> 0, errno |-> errno]
SlotBlock(c) == [kind |-> "slot", class |-> c, errno |-> "none"]

(* allocate, where memory does not run out. *)
Allocate(size, align) ==
    LET bytes == Doubled(size, align)
        c == IF align <= 16 THEN ClassFor(size)
             ELSE IF bytes > size THEN PowerClass(bytes) ELSE ClassCount
    IN  IF align > 16 /\ ~IsPowerOfTwo(align) THEN NoBlock("EINVAL")
        ELSE IF c < CreatedClasses THEN SlotBlock(c) ELSE HugeBlock

(* calloc and reallocarray *)
Calloc(count, size) ==
    IF count * size >= Wrap THEN NoBlock("ENOMEM") ELSE Allocate(count * size, 0)

(* aligned_alloc and memalign; posix_memalign; pvalloc *)
AlignedAlloc(align, size) ==
    IF IsPowerOfTwo(align) THEN Allocate(size, align) ELSE NoBlock("EINVAL")

PosixMemalign(align, size) ==
    IF IsPowerOfTwo(align) /\ align % PointerBytes = 0
    THEN Allocate(size, align) ELSE NoBlock("EINVAL")

Pvalloc(size) ==
    IF size + PageBytes - 1 >= Wrap THEN NoBlock("ENOMEM")
    ELSE Allocate(((size + PageBytes - 1) \div PageBytes) * PageBytes, PageBytes)

-----------------------------------------------------------------------------
Aligns == {0, 3} \cup {2 ^ k : k \in 0 .. MaxShift}

ClassInit == request \in [size : 0 .. Wrap - 1, align : {0}, count : {0}]

(* Each size is asked for with each alignment and count. *)
ClassNext ==
    /\ request.align = 0 /\ request.count = 0
    /\ \E a \in Aligns, n \in Counts :
          request' = [request EXCEPT !.align = a, !.count = n]

-----------------------------------------------------------------------------
(* Properties *)

(* The slot of a request is strictly larger than it, so that every object   *)
(* has a poisoned byte after it, and no smaller class has such slots        *)
(* (classFor against the table of buildClasses).                            *)
SmallestClass ==
    LET c == ClassFor(request.size)
    IN  /\ c < ClassCount => ClassEntry(c).size > request.size
        /\ \A d \in 0 .. ClassCount - 1 :
              ClassEntry(d).size > request.size => c <= d

(* The multiplication of slotOf divides exactly: an address in a slot finds *)
(* that slot, up to the last byte of its region, for the class that serves  *)
(* the request.                                                             *)
SlotExact ==
    LET c == ClassFor(request.size)
        S == ClassEntry(c).size
    IN  c < CreatedClasses /\ request.size % 16 = 0 /\ request.align = 0
        => \A offset \in 0 .. 2 ^ RegionShift - 1 :
              SlotOf(c, offset) = offset \div S

(* A slot that an aligned request gets is aligned: slots start at multiples *)
(* of their size, and regions at multiples of theirs.                       *)
AlignedSlots ==
    LET r == AlignedAlloc(request.align, request.size)
    IN  r.kind = "slot" =>
            /\ ClassEntry(r.class).size > request.size
            /\ request.align > 16 => ClassEntry(r.class).size % request.align = 0
            /\ PosixMemalign(request.align, request.size) \in
                  {r, NoBlock("EINVAL")}

(* calloc never gives a block smaller than the product of its arguments,    *)
(* nor pvalloc one smaller than whole pages, at the end of size_t too.      *)
NoShortBlock ==
    LET r == Calloc(request.count, request.size)
        v == Pvalloc(request.size)
    IN  /\ r.kind = "slot" =>
              ClassEntry(r.class).size > request.count * request.size
        /\ v.kind = "slot" => ClassEntry(v.class).size > request.size

(* What a request is served with is right from its class to the address of  *)
(* its slot (classFor, slotOf, allocate, the entry points of malloc.c).     *)
RequestServed == SmallestClass /\ SlotExact /\ AlignedSlots /\ NoShortBlock
=============================================================================
