---------------------------- MODULE LibraryTerms ----------------------------
(***************************************************************************)
(* The terms of the library table (lib/Core/LibrarySpec.cpp): how a term   *)
(* is spelled, how a spelling is read, what it is worth, and what the      *)
(* guard pass computes for it in the program (evaluate of GuardLibrary.cpp)*)
(*                                                                         *)
(* A term is a tuple headed by its kind; a spelling is a sequence of       *)
(* tokens.  Init chooses a term, and a step chooses the arguments of a     *)
(* call.  Integers have Width bits in place of 64.                         *)
(***************************************************************************)
EXTENDS Integers, Sequences

CONSTANTS Leaves,     \* leaf terms: <<"int", k>>, <<"arg", i>>, <<"len", i>>
          Numbers,    \* the integers after `-` and `/`
          Width,      \* the bits of an integer
          Amounts,    \* what an argument or a string's length may be
          Pair        \* bound: the terms a binary term combines

VARIABLES term, amount

termVars == <<term, amount>>

Leaf == {"int", "arg", "len"}
Binary == {"*", "+", "min"}

\* product, sum, difference, min, quotient: the terms over `inner`.
Over(inner) == {<<k, l, r>> : k \in Binary, l \in inner, r \in inner}
                 \cup {<<k, l, n>> : k \in {"-", "/"}, l \in inner, n \in Numbers}
Terms == Over(Leaves \cup Pair)

-----------------------------------------------------------------------------
(* LibTerm::str.                                                           *)
(***************************************************************************)
IsAdditive(t) == t[1] \in {"+", "-"}
Token(text) == << <<text, 0>> >>
Number(n) == << <<"int", n>> >>

RECURSIVE Spelling(_)

Parenthesised(t, needed) ==
  IF needed THEN Token("(") \o Spelling(t) \o Token(")") ELSE Spelling(t)

\* Mutant: the right operand of a sum is never parenthesised.
SpellSumBare(t) == Spelling(t[2]) \o Token("+") \o Spelling(t[3])

SpellSum(t) ==
  Spelling(t[2]) \o Token("+") \o Parenthesised(t[3], IsAdditive(t[3]))

Spelling(t) ==
  CASE t[1] \in Leaf -> <<t>>
    [] t[1] = "*" -> Parenthesised(t[2], IsAdditive(t[2])) \o Token("*")
                       \o Parenthesised(t[3], IsAdditive(t[3]) \/ t[3][1] = "*")
    [] t[1] = "+" -> SpellSum(t)
    [] t[1] = "-" -> Spelling(t[2]) \o Token("-") \o Number(t[3])
    [] t[1] = "/" -> Parenthesised(t[2], IsAdditive(t[2])) \o Token("/")
                       \o Number(t[3])
    [] t[1] = "min" -> Token("min(") \o Spelling(t[2]) \o Token(",")
                         \o Spelling(t[3]) \o Token(")")

-----------------------------------------------------------------------------
(* TermReader: each reader takes the tokens left and gives the term and    *)
(* the tokens after it, or Failed.                                         *)
(***************************************************************************)
Failed == [ok |-> FALSE, term |-> <<>>, rest |-> <<>>]
Found(t, rest) == [ok |-> TRUE, term |-> t, rest |-> rest]
Starts(tokens, text) == tokens # <<>> /\ tokens[1] = <<text, 0>>
StartsInt(tokens) == tokens # <<>> /\ tokens[1][1] = "int"

RECURSIVE ReadSum(_), MoreTerms(_), ReadAtom(_), MoreFactors(_)

ReadProduct(tokens) == MoreFactors(ReadAtom(tokens))
ReadSum(tokens) == MoreTerms(ReadProduct(tokens))

\* The loop of sum(), after the first product.
MoreTerms(left) ==
  IF ~left.ok THEN Failed
  ELSE IF Starts(left.rest, "+")
  THEN LET right == ReadProduct(Tail(left.rest))
       IN IF right.ok
          THEN MoreTerms(Found(<<"+", left.term, right.term>>, right.rest))
          ELSE Failed
  ELSE IF Starts(left.rest, "-")
  THEN IF StartsInt(Tail(left.rest))
       THEN MoreTerms(Found(<<"-", left.term, left.rest[2][2]>>,
                            SubSeq(left.rest, 3, Len(left.rest))))
       ELSE Failed
  ELSE left

\* The loop of product(), after the first atom.
MoreFactors(left) ==
  IF ~left.ok THEN Failed
  ELSE IF Starts(left.rest, "*")
  THEN LET right == ReadAtom(Tail(left.rest))
       IN IF right.ok
          THEN MoreFactors(Found(<<"*", left.term, right.term>>, right.rest))
          ELSE Failed
  ELSE IF Starts(left.rest, "/")
  THEN IF StartsInt(Tail(left.rest)) /\ left.rest[2][2] > 0
       THEN MoreFactors(Found(<<"/", left.term, left.rest[2][2]>>,
                              SubSeq(left.rest, 3, Len(left.rest))))
       ELSE Failed
  ELSE left

ReadAtom(tokens) ==
  IF tokens = <<>> THEN Failed
  ELSE IF tokens[1][1] \in Leaf THEN Found(tokens[1], Tail(tokens))
  ELSE IF Starts(tokens, "(")
  THEN LET inner == ReadSum(Tail(tokens))
       IN IF inner.ok /\ Starts(inner.rest, ")")
          THEN Found(inner.term, Tail(inner.rest)) ELSE Failed
  ELSE IF Starts(tokens, "min(")
  THEN LET left == ReadSum(Tail(tokens))
           right == IF left.ok /\ Starts(left.rest, ",")
                    THEN ReadSum(Tail(left.rest)) ELSE Failed
       IN IF right.ok /\ Starts(right.rest, ")")
          THEN Found(<<"min", left.term, right.term>>, Tail(right.rest))
          ELSE Failed
  ELSE Failed

\* LibTerm::parse: a whole term.
Parse(tokens) == LET read == ReadSum(tokens)
                 IN IF read.rest = <<>> THEN read ELSE Failed

-----------------------------------------------------------------------------
(* What a term is worth: as a mathematical integer, by LibTerm::evaluate,  *)
(* and by the code the guard pass makes.                                   *)
(***************************************************************************)
Max64 == 2 ^ (Width - 1) - 1
Min64 == -(2 ^ (Width - 1))
AllOnes == 2 ^ Width - 1
InRange(v) == v \in Min64..Max64
Least(a, b) == IF a < b THEN a ELSE b
Most(a, b) == IF a < b THEN b ELSE a

\* A length is cut to the first operand of the min around it where `cut`
\* says so (LibrarySpec.h: "it is the bounded length `strnlen(aN, t)`").
NoBound == 2 ^ (4 * Width)
RECURSIVE Worth(_, _, _)
Worth(t, cut, bound) ==
  CASE t[1] = "int" -> t[2]
    [] t[1] = "arg" -> amount[t[2]]
    [] t[1] = "len" -> Least(amount[t[2]], bound)
    [] t[1] = "*" -> Worth(t[2], cut, bound) * Worth(t[3], cut, bound)
    [] t[1] = "+" -> Worth(t[2], cut, bound) + Worth(t[3], cut, bound)
    [] t[1] = "-" -> Worth(t[2], cut, bound) - t[3]
    [] t[1] = "/" -> Worth(t[2], cut, bound) \div t[3]
    [] t[1] = "min" -> LET left == Worth(t[2], cut, bound)
                       IN Least(left, Worth(t[3], cut, IF cut THEN left ELSE bound))
Exactly(t) == Worth(t, FALSE, NoBound)

Unknown == [known |-> FALSE, value |-> 0]
Value(v) == [known |-> TRUE, value |-> v]

\* checkedMultiply and checkedAdd: the tests before each operation are
\* those of its result against the range, with C's truncating division.
Truncated(n, d) == IF (n < 0) = (d < 0) \/ n = 0
                   THEN (IF n < 0 THEN -n ELSE n) \div (IF d < 0 THEN -d ELSE d)
                   ELSE -((IF n < 0 THEN -n ELSE n) \div (IF d < 0 THEN -d ELSE d))

CheckedMultiply(l, r) ==
  LET overflows == IF l > 0
                   THEN (IF r > 0 THEN l > Truncated(Max64, r)
                                  ELSE r < Truncated(Min64, l))
                   ELSE (IF r > 0 THEN l < Truncated(Min64, r)
                                  ELSE l < Truncated(Max64, r))
  IN IF l = 0 \/ r = 0 THEN Value(0)
     ELSE IF overflows THEN Unknown ELSE Value(l * r)

CheckedAdd(l, r) ==
  IF (r > 0 /\ l > Max64 - r) \/ (r < 0 /\ l < Min64 - r)
  THEN Unknown ELSE Value(l + r)

\* A negative value is rounded down through its opposite, which overflows
\* near the least integer: undefined, and wrapped in an ordinary build.
Wrapped(v) == Min64 + ((v - Min64) % (2 ^ Width))
Divided(l, d) ==
  IF l >= 0 THEN l \div d
  ELSE Wrapped(-Truncated(Wrapped(Wrapped(-l) + d - 1), d))

RECURSIVE Evaluate(_)
Evaluate(t) ==
  IF t[1] = "int" THEN Value(t[2])
  ELSE IF t[1] \in {"arg", "len"} THEN Value(amount[t[2]])
  ELSE LET left == Evaluate(t[2])
       IN IF ~left.known THEN Unknown
          ELSE IF t[1] = "-" THEN CheckedAdd(left.value, -t[3])
          ELSE IF t[1] = "/" THEN Value(Divided(left.value, t[3]))
          ELSE LET right == Evaluate(t[3])
               IN IF ~right.known THEN Unknown
                  ELSE CASE t[1] = "min" -> Value(Least(left.value, right.value))
                         [] t[1] = "+" -> CheckedAdd(left.value, right.value)
                         [] t[1] = "*" -> CheckedMultiply(left.value, right.value)

\* Mutant: a product that overflows wraps.
SaturatedWraps(v) == v % (2 ^ Width)

\* The selects after the *_with_overflow intrinsics.
Saturated(v) == Least(v, AllOnes)

\* LibraryCall::evaluate on unsigned values: `bound` bounds the lengths of
\* strings inside min.
RECURSIVE Computed(_, _)
Computed(t, bound) ==
  CASE t[1] = "int" -> t[2]
    [] t[1] = "arg" -> amount[t[2]] % (2 ^ Width)
    [] t[1] = "len" -> Least(amount[t[2]], bound)
    [] t[1] = "*" -> Saturated(Computed(t[2], bound) * Computed(t[3], bound))
    [] t[1] = "+" -> Saturated(Computed(t[2], bound) + Computed(t[3], bound))
    [] t[1] = "-" -> Most(0, Computed(t[2], bound) - t[3])
    [] t[1] = "/" -> Computed(t[2], bound) \div t[3]
    [] t[1] = "min" -> LET left == Computed(t[2], bound)
                       IN Least(left, Computed(t[3], left))

-----------------------------------------------------------------------------
Unasked == [i \in {0, 1} |-> 0]

TermsInit == term \in Terms /\ amount = Unasked

\* A call: argument 0 is an integer, which may be negative, and argument 1
\* a string, of some length.
Ask ==
  /\ amount = Unasked
  /\ \E n \in Amounts, length \in {a \in Amounts : a >= 0} :
       amount' = [i \in {0, 1} |-> IF i = 0 THEN n ELSE length]
  /\ UNCHANGED term

TermsNext == Ask

-----------------------------------------------------------------------------
(* Properties.                                                             *)
(***************************************************************************)
RECURSIVE SubTerms(_)
SubTerms(t) ==
  IF t[1] \in Leaf THEN {t}
  ELSE {t} \cup SubTerms(t[2]) \cup (IF t[1] \in Binary THEN SubTerms(t[3]) ELSE {})

DividesRight(t) ==
  \E s \in SubTerms(t) : s[1] = "*" /\ s[3][1] = "/"

\* The spelling is read back to an equal term, unless a product has a
\* quotient on its right (DividesRight): precedence, associativity
\* and the parentheses of str() agree with sum(), product() and atom().
SpellingReadsBack ==
  amount = Unasked /\ ~DividesRight(term) => Parse(Spelling(term)) = Found(term, <<>>)

\* LibTerm::evaluate gives the mathematical value, and gives none only where
\* a value on the way to it leaves the range of the integers; a quotient of
\* a value within its divisor of the least integer is left out.
EvaluatedExactly ==
  LET result == Evaluate(term)
      subs == SubTerms(term)
  IN (\A s \in subs : s[1] = "/" => Exactly(s[2]) > Min64 + s[3])
       => IF result.known
          THEN result.value = Exactly(term) /\ InRange(result.value)
          ELSE \E s \in subs : ~InRange(Exactly(s))

\* For a count and a length that are not negative, the code computes the
\* term's value, or more bytes than any object has (a fourth of the address
\* space): no overflow makes the range a guard checks smaller than the one
\* the call touches.
ComputedCovers ==
  /\ amount[0] >= 0
  /\ \A s \in SubTerms(term) : s[1] = "-" => Worth(s, TRUE, NoBound) >= 0
  => Computed(term, AllOnes) >= Least(Worth(term, TRUE, NoBound), AllOnes \div 4)

\* What a term says, what evaluate folds it to and what the program computes
\* for it agree.
TermsExact == EvaluatedExactly /\ ComputedCovers
=============================================================================
