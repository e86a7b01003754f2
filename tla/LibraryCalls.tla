---------------------------- MODULE LibraryCalls ----------------------------
(***************************************************************************)
(* What becomes of a call of a library function                            *)
(* (lib/Frontend/GuardLibrary.cpp): the early pass guards its arguments,   *)
(* redirects it to the runtime's checked version, replaces it by what it   *)
(* computes, or leaves it to the late pass; the optimizer works between.   *)
(*                                                                         *)
(* Init is a row of the table, a call and the memory its two pointers and  *)
(* its count name.  The steps are the passes and the call itself.  Memory  *)
(* behind a pointer is how many elements are addressable and where the     *)
(* first zero is; an element is a byte.                                    *)
(***************************************************************************)
EXTENDS Naturals, FiniteSets

CONSTANTS CallRows,   \* rows of the table
          MaxRoom,    \* bound: addressable elements behind a pointer
          SmallCount  \* the largest constant count checked inline (113)

VARIABLES row, call, memory, count,  \* the call and what it is made on
          halt,                      \* where a search or comparison stops
          form, checks, callStage        \* what the passes made of it

callVars == <<row, call, memory, count, halt, form, checks, callStage>>
inputVars == <<row, call, memory, count, halt>>

\* What the shipped table (lib/Core/LibrarySpec.txt) says of its rows, cut to
\* two parameters: a string is accessed, up to its terminator or as a copy is
\* appended to it, and null is not tied to a count; what is released is not
\* searched; a comparison that stops early has a checked version, reads
\* strings, bounded or not, and no plain one may be null.
ASSUME CallRowsAssumption ==
  /\ MaxRoom \in Nat \ {0} /\ SmallCount \in Nat
  /\ \A r \in CallRows :
       /\ DOMAIN r.params = {1, 2}
       /\ {r.wrapper, r.value, r.stops, r.limited} \subseteq BOOLEAN
       /\ r.stops => r.wrapper
       /\ \A i \in {1, 2} :
            LET param == r.params[i]
            IN /\ param.access \in {"r", "w", "rw", "none"}
               /\ param.term \in {"none", "one", "count", "bounded", "copy", "append"}
               /\ param.null \in {"no", "ok", "zero"}
               /\ {param.string, param.scan} \subseteq BOOLEAN
               /\ param.string => /\ param.access # "none" /\ param.effect # "release"
                                  /\ param.term \in {"none", "append"}
                                  /\ param.null # "zero"
               /\ param.scan => param.effect # "release"
               /\ r.stops => /\ param.access \in {"r", "none"}
                             /\ param.term \notin {"one", "count"}
                             /\ param.string => param.null = "no"

\* A string literal has no redzone (isTracked of GuardGlobals.cpp): what is
\* around it is untracked memory, which is addressable.
Untracked == 3 * MaxRoom

Params == DOMAIN row.params
Other(i) == 3 - i
Less(a, b) == IF a < b THEN a ELSE b

\* strncmp: what is read is bounded by an argument.
BoundedRow(r) == \E i \in DOMAIN r.params : r.params[i].term = "bounded"

-----------------------------------------------------------------------------
(* What a call touches, as C defines it.                                   *)
(***************************************************************************)
Terminated(i) == memory[i].zero + 1

\* The value of a parameter's term.
TermOf(i) ==
  CASE row.params[i].term = "one" -> 1
    [] row.params[i].term = "count" -> count
    [] row.params[i].term = "bounded" -> Less(count, Terminated(i))
    [] row.params[i].term = "copy" -> Terminated(Other(i))
    [] row.params[i].term = "append" -> memory[i].zero + Terminated(Other(i))

\* The elements behind pointer i, if the call does not stop early.
Extent(i) ==
  LET param == row.params[i]
  IN IF param.access = "none" \/ param.effect = "release" THEN 0
     ELSE IF memory[i].null /\ param.null = "ok" THEN 0
     ELSE IF param.term # "none" THEN TermOf(i)
     ELSE IF param.string THEN Terminated(i) ELSE 1

\* A search stops at `halt` if it finds something there, and a comparison
\* at the first difference.
BytesTouched(i) ==
  IF row.params[i].scan \/ row.stops THEN Less(halt + 1, Extent(i)) ELSE Extent(i)

Unusable(i, bytes) == bytes > 0 /\ (memory[i].null \/ bytes > memory[i].room)

\* RFC 0036: the bytes written past the size a fortified form states.
Written == {i \in Params : row.params[i].access \in {"w", "rw"}}
OverSize == /\ row.limited /\ call.size <= MaxRoom
            /\ \E i \in Written : /\ \A j \in Written : i <= j
                                  /\ BytesTouched(i) > call.size

StrayCall == (\E i \in Params : Unusable(i, BytesTouched(i))) \/ OverSize

-----------------------------------------------------------------------------
(* The tests of the passes.                                                *)
(***************************************************************************)
OnlyReads == \A i \in Params : row.params[i].access \in {"r", "none"}

\* A read-only call with a checked version waits for the late pass.
Deferred == row.wrapper /\ OnlyReads

SmallTerm(i) ==
  \/ row.params[i].term = "one"
  \/ row.params[i].term = "count" /\ call.constant /\ count <= SmallCount

CheapToGuard ==
  LET used == {i \in Params : row.params[i].access # "none"}
  IN /\ used # {}
     /\ \A i \in used : /\ row.params[i].access = "r"
                        /\ memory[i].literal \/ SmallTerm(i)

ComputesItsValue == row.value /\ ~row.wrapper /\ OnlyReads

\* redirect takes every row that names a checked version.
Redirects == row.wrapper

-----------------------------------------------------------------------------
(* The guards: <<kind, parameter>>, and the elements each checks.          *)
(***************************************************************************)

\* guardFirstBytes: each string that must not be null and is no literal.
\* Mutant: none.
FirstBytesNone == {}
FirstBytes ==
  {<<"first", i>> : i \in {j \in Params : /\ row.params[j].string
                                          /\ row.params[j].null = "no"
                                          /\ ~memory[j].literal}}

\* guardArguments, for one parameter.
ArgumentGuards(i) ==
  LET param == row.params[i]
  IN IF param.access = "none" THEN {}
     ELSE IF param.scan
     THEN IF memory[i].literal THEN {} ELSE {<<"start", i>>, <<"scan", i>>}
     ELSE IF param.effect = "release" THEN {}
     ELSE (IF param.string /\ ~memory[i].literal THEN {<<"string", i>>} ELSE {})
          \cup (IF param.term = "bounded" THEN {<<"bounded", i>>}
                ELSE IF param.term # "none" \/ ~param.string THEN {<<"range", i>>}
                ELSE {})

GuardArguments ==
  (UNION {ArgumentGuards(i) : i \in Params})
    \cup (IF row.limited /\ call.size <= MaxRoom THEN {<<"limit", 1>>} ELSE {})

\* The elements a guard checks: none for a null the row allows, unless the
\* guard is a string's, which has a flag for it.
Elements(guard) ==
  LET i == guard[2]
      term == IF row.params[i].term = "none" THEN 1 ELSE TermOf(i)
      nullOk == memory[i].null /\ row.params[i].null # "no"
  IN CASE guard[1] = "first" -> 1
       [] guard[1] = "string" -> IF nullOk THEN 0 ELSE Terminated(i)
       [] guard[1] = "bounded" -> IF nullOk THEN 0 ELSE TermOf(i)
       [] guard[1] = "range" ->
            IF memory[i].null /\ row.params[i].null = "ok" THEN 0 ELSE term
       [] guard[1] = "start" ->
            IF memory[i].null /\ row.params[i].null = "ok" THEN 0 ELSE Less(term, 1)
       [] guard[1] = "scan" ->
            IF halt < Extent(i) THEN halt + 1 ELSE Extent(i)

Fails(guard) == IF guard[1] = "limit" THEN OverSize ELSE Unusable(guard[2], Elements(guard))

-----------------------------------------------------------------------------
CallsInit ==
  /\ row \in CallRows
  /\ call \in [unsafe : BOOLEAN, constant : BOOLEAN, size : 1..(MaxRoom + 1)]
  /\ memory \in [Params -> {m \in [room : 0..MaxRoom \cup {Untracked}, zero : 0..MaxRoom,
                                   null : BOOLEAN, literal : BOOLEAN] :
                              /\ m.null => m.room = 0 /\ m.zero = 0
                              /\ m.literal <=> m.room = Untracked}]
  /\ \A i \in Params : memory[i].literal => row.params[i].access = "r"
  /\ count \in 0..(MaxRoom + 1)
  /\ halt \in 0..MaxRoom
  \* What a row does not use is fixed.
  /\ row.limited \/ call.size > MaxRoom
  /\ halt = 0 \/ row.stops \/ \E i \in Params : row.params[i].scan
  /\ \A i \in Params : row.params[i].access = "none" => memory[i].null
  /\ form = "call" /\ checks = {} /\ callStage = "early"

\* guardLibraryCalls(late = false) on the call.
EarlyPass ==
  /\ callStage = "early"
  /\ IF call.unsafe THEN UNCHANGED <<form, checks>>
     ELSE IF Deferred THEN checks' = FirstBytes /\ UNCHANGED form
     ELSE IF ~CheapToGuard /\ Redirects THEN form' = "checked" /\ UNCHANGED checks
     ELSE /\ form' = IF ComputesItsValue THEN "value" ELSE "call"
          /\ checks' = GuardArguments
  /\ callStage' = "optimize"
  /\ UNCHANGED inputVars

\* The optimizer (external) leaves the call, or computes a comparison: from
\* nothing, from its first elements if a string is empty or the bound is one,
\* or, against a literal, by loads of one element after another.
Optimize ==
  /\ callStage = "optimize"
  /\ \/ UNCHANGED form
     \/ /\ form = "call" /\ row.stops
        /\ BoundedRow(row) => call.constant
        /\ \/ form' = "gone"
           \/ /\ form' = "folded" /\ (BoundedRow(row) => count > 0)
              /\ \/ \E i \in Params : memory[i].literal /\ memory[i].zero = 0
                 \/ BoundedRow(row) /\ count = 1
           \/ form' = "inlined" /\ \E i \in Params : memory[i].literal
  /\ callStage' = "late"
  /\ UNCHANGED <<inputVars, checks>>

\* guardLibraryCalls(late = true), where the call is still there.
LatePass ==
  /\ callStage = "late"
  /\ IF call.unsafe \/ form # "call" \/ ~Deferred THEN UNCHANGED <<form, checks>>
     ELSE IF CheapToGuard
     THEN checks' = checks \cup GuardArguments /\ UNCHANGED form
     ELSE form' = "checked" /\ UNCHANGED checks
  /\ callStage' = "ready"
  /\ UNCHANGED inputVars

CallsNext == EarlyPass \/ Optimize \/ LatePass
CallsSpec == CallsInit /\ [][CallsNext]_callVars

-----------------------------------------------------------------------------
(* Properties.  The checked versions report exactly the calls that touch   *)
(* what they must not (module Library).                                    *)
(***************************************************************************)
Reported == (form = "checked" /\ StrayCall) \/ \E guard \in checks : Fails(guard)

\* What the call in the program touches, after the optimizer.
StrayNow == CASE form = "folded" -> \E i \in Params : Unusable(i, 1)
              [] form = "gone" -> FALSE
              [] OTHER -> StrayCall

\* nullOk of the code: a string guard accepts every null its row may accept.
NullAccepted == \E i \in Params : /\ memory[i].null /\ row.params[i].null = "zero"
                                  /\ row.params[i].term = "bounded"

\* What guardFirstBytes covers of a comparison the optimizer computes by
\* loads: the first element of a string that is not bounded.
Loads == form \in {"folded", "inlined"}
FirstUnusable == \E i \in Params : row.params[i].string /\ Unusable(i, 1)

\* A call that touches memory it must not is reported, on every way the
\* passes and the optimizer take it, unless its source is marked unsafe, or
\* a bounded string is null, which the guard accepts for any bound, or it
\* became loads whose first from an unbounded string is good.
StrayCallStopped ==
  /\ callStage = "ready" /\ StrayNow
  /\ ~call.unsafe /\ ~NullAccepted /\ (Loads => FirstUnusable)
  => Reported

\* A call that touches only what it may is never reported: a guard checks no
\* element that the call as written would not have touched.
CallNotStopped == callStage = "ready" /\ ~StrayCall => ~Reported

\* The passes stop a call exactly when it strays, with these exceptions.
CallStoppedExactly == StrayCallStopped /\ CallNotStopped

\* Without the last: what the comment at guardFirstBytes' call claims.
FoldedCallStopped ==
  callStage = "ready" /\ StrayNow /\ ~call.unsafe /\ ~NullAccepted => Reported
=============================================================================
