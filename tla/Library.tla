------------------------------ MODULE Library -------------------------------
(***************************************************************************)
(* The checked versions of the C library's calls (runtime/weavec_libc.c):   *)
(* each checks the bytes its call reads and writes, before the call where   *)
(* their extent is known then, after it where only the call tells.          *)
(*                                                                          *)
(* Memory is a row of cells; `usable` are the cells of the program's        *)
(* objects, which the guards pass exactly (module Shadow).  A cell holds a  *)
(* terminator, a digit, a blank, a sign, or a mark that a digit must follow *)
(* to count (the prefix of base 16, an exponent).  The last cell is a       *)
(* terminator and no object's, so that a scan ends.  A call leaves in `did` *)
(* the cells that the C library read and wrote for it, and whether a check  *)
(* stopped it.                                                              *)
(*                                                                          *)
(* A format is a sequence of conversions; an argument is the number that a  *)
(* width or a precision takes from it.                                      *)
(***************************************************************************)
EXTENDS Integers, Sequences, FiniteSets, FiniteSetsExt, SequencesExt

CONSTANTS
    Cells,        \* how many cells
    Element,      \* cells per element of a wide string
    MaxLength,    \* longest text a formatted write or a stream gives
    Texts,        \* what memory may hold before a call
    Limit,        \* the object size that a fortified call passes
    FormatArguments,    \* arguments that a format is followed to (64)
    NumberLimit,        \* the largest number read in a format (100000)
    Numbers,      \* numbers that formats spell
    ValuesGiven,  \* arguments of a width or a precision
    Places        \* how many conversions a format has at most

VARIABLES
    cell,         \* what each cell holds
    usable,       \* the cells of objects
    did,          \* what the last call did
    format,       \* the format checkFormat reads
    values        \* its arguments

libVars == <<cell, usable, did, format, values>>

Zero == 0
Digit == 1
Blank == 2
Sign == 3
Mark == 4
Row == 0 .. Cells - 1
Unbounded == -1

ASSUME LibraryAssumption ==
    /\ {Cells, Element} \subseteq Nat \ {0}
    /\ {MaxLength, Limit} \subseteq Nat
    /\ \A f \in Texts : /\ f \in [Row -> {Zero, Digit, Blank, Sign, Mark}]
                        /\ f[Cells - 1] = Zero

Span(a, n) == {a + i : i \in 0 .. n - 1}

(* The first terminator at or after s. *)
End(s) == Min({i \in Row : i >= s /\ cell[i] = Zero})

(* A check of n bytes at a passes (checkRange, __weavec_rt_range_ok). *)
Passes(a, n) == Span(a, n) \subseteq usable

(* strlen and strnlen scan up to max cells. *)
Scanned(s, max) ==
    LET n == End(s) - s
    IN  IF max = Unbounded \/ n < max THEN n + 1 ELSE max

-----------------------------------------------------------------------------
(* What the C library's call reads, and what it writes *)

Nothing == [reads |-> {}, writes |-> {}, stopped |-> FALSE, late |-> FALSE,
            need |-> {}, ahead |-> {}, broken |-> FALSE]

Overlap(a, b, n) == a # b /\ Span(a, n) \cap Span(b, n) # {}

(* A call that scans the cells `scanned` to find how far it goes, checks,   *)
(* and then reads and writes; `broken` says that it breaks another rule     *)
(* than its extent (a fortified size, operands that overlap).               *)
Finish(checks, broken, scanned, reads, writes, mem) ==
    /\ did' = [Nothing EXCEPT
                  !.reads = IF checks /\ ~broken THEN scanned \cup reads
                            ELSE scanned,
                  !.writes = IF checks /\ ~broken THEN writes ELSE {},
                  !.stopped = ~checks \/ broken,
                  !.need = scanned \cup reads \cup writes,
                  !.broken = broken]
    /\ cell' = IF checks /\ ~broken THEN mem ELSE cell

(* A call that only reads, and checks what it read. *)
Reads(checks, reads) ==
    /\ did' = [Nothing EXCEPT !.reads = reads, !.stopped = ~checks,
                              !.need = reads]
    /\ UNCHANGED cell

Copied(d, s, n) ==
    [i \in Row |-> IF i \in Span(d, n) THEN cell[s + (i - d)] ELSE cell[i]]

Filled(d, n) ==
    [i \in Row |-> IF i \in Span(d, n) THEN Digit
                   ELSE IF i = d + n THEN Zero ELSE cell[i]]

(* __weavec_rt_strcpy, stpcpy: copyString *)
Strcpy(d, s) ==
    LET n == End(s) - s + 1
    IN  /\ d + n < Cells
        /\ Finish(Passes(s, n) /\ Passes(d, n),
                  n > Limit \/ Overlap(d, s, n),
                  Span(s, n), Span(s, n), Span(d, n), Copied(d, s, n))

(* Mutant: the bytes strcat writes are checked without the terminator. *)
StrcatNoEnd(d, s) ==
    LET at == End(d) - d
        n == End(s) - s
    IN  /\ d + at + n + 1 < Cells
        /\ Finish(Passes(d, at + 1) /\ Passes(s, n + 1) /\ Passes(d, at + n),
                  at + n + 1 > Limit,
                  Span(d, at + 1) \cup Span(s, n + 1), {},
                  Span(d + at, n + 1), Copied(d + at, s, n + 1))

(* The destination's cells do not reach the source's: strcat does not look. *)
Strcat(d, s) ==
    LET at == End(d) - d
        n == End(s) - s
    IN  /\ d + at + n + 1 < Cells
        /\ Finish(Passes(d, at + 1) /\ Passes(s, n + 1)
                  /\ Passes(d, at + n + 1),
                  at + n + 1 > Limit,
                  Span(d, at + 1) \cup Span(s, n + 1), {},
                  Span(d + at, n + 1), Copied(d + at, s, n + 1))

(* The cells of a and b that differ, or end both: the last one compared. *)
Compared(a, b, n) ==
    LET stop == {i \in 0 .. n - 1 : a + i >= Cells - 1 \/ b + i >= Cells - 1
                                    \/ cell[a + i] # cell[b + i]
                                    \/ cell[a + i] = Zero}
    IN  IF stop = {} THEN n ELSE Min(stop) + 1

(* strcmp and its kin read first and check what they read. *)
Compare(a, b, n) ==
    LET i == Compared(a, b, n)
    IN  Reads(Passes(a, i) /\ Passes(b, i), Span(a, i) \cup Span(b, i))

(* The first cell at or after i that holds another kind; i or the next one. *)
After(i, kind) == Min({j \in Row : j >= i /\ cell[j] # kind})
Past(i, kind) == IF cell[i] = kind THEN i + 1 ELSE i

(* A number parser skips blanks and a sign, takes digits, a mark and what   *)
(* may follow it, and reads what refused.  A mark without a digit is none   *)
(* of the number, though it and what refused then have been read.  parsed   *)
(* checks the number and one cell, or what was skipped and one cell.        *)
Parse(s) ==
    LET first == Past(After(s, Blank), Sign)
        body == After(first, Digit)
        tail == IF cell[body] = Mark THEN Past(body + 1, Sign) ELSE body
        refused == After(tail, Digit)
        end == IF refused # tail THEN refused
               ELSE IF body # first THEN body ELSE s
        read == IF end # s THEN end - s + 1 ELSE first - s + 1
        all == Span(s, refused - s + 1)
        unfinished == cell[body] = Mark /\ refused = tail
    IN  /\ did' = [Nothing EXCEPT
                      !.reads = all, !.need = all, !.stopped = ~Passes(s, read),
                      !.ahead = IF unfinished THEN (body + 1) .. refused ELSE {}]
        /\ UNCHANGED cell

(* snprintf of a text of `length` cells to a buffer of n. *)
Snprintf(d, n, length) ==
    LET written == Min({length + 1, n})
    IN  /\ d + written < Cells
        /\ IF n = 0 THEN did' = Nothing /\ UNCHANGED cell
           ELSE Finish((Passes(d, n) /\ n <= Limit) \/ Passes(d, written),
                       written > Limit,
                       {}, {}, Span(d, written), Filled(d, written - 1))

Sprintf(d, length) ==
    /\ d + length + 1 < Cells
    /\ Finish(Passes(d, length + 1), length + 1 > Limit,
              {}, {}, Span(d, length + 1), Filled(d, length))

(* gets stops at the first cell it may not write; what came before it is    *)
(* written.                                                                 *)
Gets(d, length) ==
    LET room == {i \in 0 .. length : Passes(d, i + 1) /\ i + 1 <= Limit}
        n == Cardinality(room)
    IN  /\ d + length + 1 < Cells
        /\ did' = [Nothing EXCEPT !.writes = Span(d, n),
                                  !.stopped = n # length + 1,
                                  !.need = Span(d, length + 1),
                                  !.broken = length + 1 > Limit]
        /\ cell' = IF n = length + 1 THEN Filled(d, length)
                   ELSE [i \in Row |-> IF i \in Span(d, n) THEN Digit
                                       ELSE cell[i]]

(* scanf's %s writes first; the string it left is checked after. *)
Scanf(d, length) ==
    /\ d + length + 1 < Cells
    /\ cell' = Filled(d, length)
    /\ did' = [Nothing EXCEPT !.writes = Span(d, length + 1),
                              !.need = Span(d, length + 1), !.late = TRUE,
                              !.stopped = ~Passes(d, length + 1)]

(* readv, recvmsg, getsockopt, stat...: extents that a length, a vector or  *)
(* a type gives.                                                            *)
Vectors(V) ==
    Finish(\A v \in V : Passes(v[1], v[2]), FALSE, {}, {},
           UNION {Span(v[1], v[2]) : v \in V}, cell)

(* wcslen checks each element before it reads it. *)
Wcslen(s, max) ==
    LET ends == {i \in 0 .. max - 1 : s + i * Element >= Cells - Element
                                      \/ cell[s + i * Element] = Zero}
        last == IF ends = {} THEN max ELSE Min(ends) + 1
        bad == {i \in 0 .. last - 1 : ~Passes(s + i * Element, Element)}
    IN  /\ did' = [Nothing EXCEPT !.need = Span(s, Element * last),
                      !.stopped = bad # {},
                      !.reads = Span(s, Element * (IF bad = {} THEN last
                                                   ELSE Min(bad)))]
        /\ UNCHANGED cell

Strlen(s, max) ==
    LET n == Scanned(s, max)
    IN  Reads(Passes(s, n), Span(s, n))

-----------------------------------------------------------------------------
(* Formats *)

(* A width or a precision: none, a number, or an argument's, the next one   *)
(* or (by place) a given one.                                               *)
Size(kind, V) == [kind : {kind}, value : V]
NoSize == Size("none", {0})

(* Conversions of a format without places, and of one with them.  Of the    *)
(* widths that are numbers only one too large to be read whole matters.     *)
Conversions(byPlace) ==
    LET star == IF byPlace THEN Size("at", 1 .. 2) ELSE Size("star", {0})
    IN  [pos : IF byPlace THEN 1 .. 2 ELSE {0},
         width : NoSize \cup star \cup Size("number", {Max(Numbers)}),
         prec : NoSize \cup star \cup Size("number", Numbers),
         conv : {"s", "n", "?"}]

Arguments == 1 .. FormatArguments
NoUse == [kind |-> "none", prec |-> Unbounded, arg |-> 0]

(* readNumber gives a number up at the first digit that takes it past the   *)
(* limit: it is not read, and the digits after that one are left.           *)
NumberRead(n) == IF n <= NumberLimit THEN n ELSE -1
ReadWhole(n) == n \div 10 <= NumberLimit

(* `use`: the kind of an argument is the first one. *)
Use(uses, i, kind) ==
    IF i \in Arguments /\ uses[i].kind = "none"
    THEN [uses EXCEPT ![i].kind = kind] ELSE uses

(* The argument that a width or a precision takes, 0 for none. *)
Taken(s, size) == CASE size.kind = "star" -> s.next
                    [] size.kind = "at" -> size.value
                    [] OTHER -> 0

(* Reading it: s.next is the next argument, s.go says that the format is    *)
(* followed so far.                                                         *)
ReadSize(s, size) ==
    IF ~s.go THEN s
    ELSE [go |-> /\ Taken(s, size) <= FormatArguments
                 /\ size.kind = "number" => ReadWhole(size.value),
          next |-> IF size.kind = "star" THEN s.next + 1 ELSE s.next,
          uses |-> Use(s.uses, Taken(s, size), "d")]

(* One conversion: the last one that names an argument sets its precision.  *)
ReadConversion(s, c) ==
    LET sized == ReadSize(s, c.width)
        read == ReadSize(sized, c.prec)
        place == IF c.pos > 0 THEN c.pos ELSE read.next
        precision == IF c.prec.kind = "number"
                     THEN Max({NumberRead(c.prec.value), 0}) ELSE Unbounded
    IN  IF ~read.go \/ c.conv = "?" \/ place \notin Arguments
        THEN [read EXCEPT !.go = FALSE]
        ELSE [go |-> TRUE,
              next |-> IF c.pos > 0 THEN read.next ELSE place + 1,
              uses |-> [Use(read.uses, place, c.conv) EXCEPT
                           ![place].prec = precision,
                           ![place].arg = Taken(sized, c.prec)]]

(* The format up to its n-th conversion. *)
ReadFormat(n) == FoldLeft(ReadConversion,
                          [go |-> TRUE, next |-> 1,
                           uses |-> [i \in Arguments |-> NoUse]],
                          SubSeq(format, 1, n))

(* The arguments are walked up to the first that nothing reads. *)
WalkedTo(uses) ==
    CHOOSE k \in 0 .. FormatArguments :
        /\ \A i \in 1 .. k : uses[i].kind # "none"
        /\ k + 1 \in Arguments => uses[k + 1].kind = "none"

(* Mutant: the argument's number, counted from 1, indexes the values. *)
PrecisionNext(uses, i, count) ==
    IF uses[i].arg \in 1 .. count
    THEN Max({values[(uses[i].arg % FormatArguments) + 1], Unbounded})
    ELSE uses[i].prec

Precision(uses, i, count) ==
    IF uses[i].arg \in 1 .. count THEN Max({values[uses[i].arg], Unbounded})
    ELSE uses[i].prec

(* What checkFormat checks: pairs of an argument and how far its string is  *)
(* scanned; and the targets of "n".                                         *)
CheckFormat ==
    LET uses == ReadFormat(Len(format)).uses
        count == WalkedTo(uses)
    IN  [strings |-> {<<i, Precision(uses, i, count)>> :
                         i \in {j \in 1 .. count : uses[j].kind = "s"}},
         targets |-> {i \in 1 .. count : uses[i].kind = "n"}]

(* What the C library's printf does with it, conversion by conversion: each *)
(* takes its width's argument, its precision's, then its own, the next one  *)
(* where no place is given.                                                 *)
ArgumentsOf(k) ==
    LET ones(P(_)) == Cardinality({j \in 1 .. k - 1 : P(format[j])})
        next == 1 + ones(LAMBDA c : c.width.kind = "star")
                  + ones(LAMBDA c : c.prec.kind = "star")
                  + ones(LAMBDA c : c.pos = 0)
        star(size) == IF size.kind = "star" THEN 1 ELSE 0
        given(size, i) == IF size.kind = "at" THEN size.value ELSE i
        c == format[k]
    IN  [width |-> given(c.width, next),
         prec |-> given(c.prec, next + star(c.width)),
         own |-> IF c.pos > 0 THEN c.pos
                 ELSE next + star(c.width) + star(c.prec)]

PrintedTo(k) ==
    LET size == format[k].prec
    IN  CASE size.kind = "none" -> Unbounded
          [] size.kind = "number" -> size.value
          [] OTHER -> Max({values[ArgumentsOf(k).prec], Unbounded})

(* The conversions that checkFormat follows: up to one it does not know, a  *)
(* number it does not read whole, or an argument past the last.             *)
Followed == {k \in DOMAIN format : ReadFormat(k).go}

(* A format the C standard defines, as far as it is followed: places        *)
(* everywhere or nowhere, no argument of two kinds, none left out.          *)
Defined ==
    LET takes(size) == size.kind \in {"star", "at"}
        kinds == {<<ArgumentsOf(k).own, format[k].conv>> : k \in Followed}
                 \cup {<<ArgumentsOf(k).prec, "d">> :
                          k \in {j \in Followed : takes(format[j].prec)}}
                 \cup {<<ArgumentsOf(k).width, "d">> :
                          k \in {j \in Followed : takes(format[j].width)}}
    IN  /\ \A p, q \in kinds : p[1] = q[1] => p = q
        /\ \A p \in kinds : \A i \in 1 .. p[1] : \E q \in kinds : q[1] = i

-----------------------------------------------------------------------------
LibInit ==
    /\ usable \in {Span(a, n) \cup Span(a + n + 1, Cells - a - n - 2) :
                      a \in {0, 1}, n \in 1 .. Cells - 3}
    /\ did = Nothing
    /\ format = <<>>
    /\ \/ /\ cell \in Texts /\ values = [i \in Arguments |-> 0]
       \/ /\ cell = [i \in Row |-> Zero]
          /\ values \in [Arguments -> ValuesGiven]

Call ==
    \/ \E a, b \in Row : Strcpy(a, b) \/ Strcat(a, b)
                         \/ \E n \in {2, Cells} : Compare(a, b, n)
    \/ \E a \in Row :
          \/ Parse(a)
          \/ \E n \in 0 .. MaxLength :
                \/ Sprintf(a, n) \/ Gets(a, n) \/ Scanf(a, n)
                \/ Snprintf(a, 2, n)
                \/ Vectors({<<a, n>>, <<0, 1>>})
          \/ \E max \in {Unbounded, 2} : Strlen(a, max)
          \/ Wcslen(a, 2)

LibCall == did = Nothing /\ format = <<>> /\ Call /\ UNCHANGED <<usable, format, values>>

LibFormat ==
    /\ did = Nothing
    /\ \A i \in Row : cell[i] = Zero
    /\ usable = Span(0, 1) \cup Span(2, Cells - 3)
    /\ Len(format) < Places
    /\ \E byPlace \in BOOLEAN :
          /\ \A k \in DOMAIN format : byPlace <=> format[k].pos > 0
          /\ \E c \in Conversions(byPlace) : format' = Append(format, c)
    /\ UNCHANGED <<cell, usable, did, values>>

LibSpec == LibInit /\ [][LibCall \/ LibFormat]_libVars

-----------------------------------------------------------------------------
(* Properties *)

(* No call writes a cell of no object before a check stops it (copyString,  *)
(* __weavec_rt_strcat, vsnprintf, gets); scanf alone checks afterwards.     *)
NoStrayWrite == did.late \/ did.writes \subseteq usable

(* Every cell of no object that a call read or wrote stops it: the program  *)
(* never sees the result of a comparison, a parse or a scan that left its   *)
(* object, but for what a parser reads after a mark that no digit follows.  *)
StrayIsStopped ==
    ~((did.reads \ did.ahead) \cup did.writes \subseteq usable) => did.stopped

(* A call is stopped only when what the C standard has it read or write     *)
(* leaves the objects, or when it breaks a fortified size or copies between *)
(* overlapping strings: every check is exact, the two halves of snprintf's  *)
(* included.                                                                *)
NoFalseStop == did.stopped => did.broken \/ ~(did.need \subseteq usable)

(* A checked call is stopped when it leaves the objects, before it writes,  *)
(* and only then (checkRange and the wrappers that use it).                 *)
StoppedExactly == NoStrayWrite /\ StrayIsStopped /\ NoFalseStop

(* checkFormat checks every string that printf reads for what it follows of *)
(* a format, as far as printf reads it, whatever its stars and places: but  *)
(* where a later conversion prints the same argument, or a precision is a   *)
(* number past the limit.                                                   *)
FormatCovered ==
    Defined =>
        \A k \in Followed :
            /\ format[k].conv = "s"
            /\ \A j \in Followed : j > k => ArgumentsOf(j).own # ArgumentsOf(k).own
            /\ format[k].prec.kind = "number" => format[k].prec.value <= NumberLimit
            => <<ArgumentsOf(k).own, PrintedTo(k)>> \in CheckFormat.strings

(* Without the exception: what the comment before parsed says.              *)
ParsedChecked == ~(did.reads \cup did.writes \subseteq usable) => did.stopped
=============================================================================
