----------------------------- MODULE MCCompiler -----------------------------
(***************************************************************************)
(* The compiler's passes and its library specification on small instances:  *)
(* frame layout, the rules that drop guards, ranged loops, inline checks,   *)
(* the terms and rows of the specification, guarded library calls and the   *)
(* ledger.  Each behaviour is one of one part; the others rest in a state   *)
(* that says nothing of them (no locals, an empty function, no row).        *)
(***************************************************************************)
EXTENDS Frames, GuardRules, LoopGuards, InlineChecks, LibraryTerms,
        LibraryRows, LibraryCalls, Ledger

VARIABLE part

-----------------------------------------------------------------------------
(* Functions of three blocks: a line, a branch, loops of one and two blocks. *)
MCShapes == {<<{2}, {3}, {}>>, <<{2, 3}, {3}, {}>>, <<{2}, {2, 3}, {}>>,
             <<{2}, {3}, {2}>>, <<{2, 3}, {3}, {2}>>}
Empty(op) == Instruction(op, None)
OnBase == {Instruction("guard", s) : s \in {<<0, 2>>, <<0, 4>>, <<6, 8>>}}
            \cup {Empty("kill"), Empty("stop")}
OnLocal == {Instruction("local", s) : s \in {<<0, 2>>, <<3, 5>>}}
             \cup {Empty("start"), Empty("end")}
CodeOf(ops, n) == UNION {[1..k -> ops] : k \in 0..n}
MCPrograms ==
    UNION {{[flow |-> s, code |-> <<one, two, three>>] :
              s \in MCShapes, one \in CodeOf(ops, n[1]),
              two \in CodeOf(ops, n[2]), three \in CodeOf(ops, n[3])} :
           ops \in {OnBase, OnLocal}, n \in {<<1, 2, 1>>, <<0, 3, 0>>}}

(* Blocks of one color, a global of another, and uncolored memory that ends *)
(* where the global begins, in a space of 32 addresses; strides cross it.   *)
Object(f, e, c, heap, lost) ==
    [first |-> f, end |-> e, color |-> c, heap |-> heap, lost |-> lost]
MCObjects == <<Object(2, 5, 8, TRUE, FALSE), Object(6, 8, 0, FALSE, FALSE),
               Object(8, 13, 3, FALSE, FALSE), Object(14, 19, 8, TRUE, FALSE),
               Object(20, 22, 0, FALSE, TRUE)>>
MCLoopRoots == {0, 2, 4, 6, 8, 14, 20}
MCSteps == {-3, 0, 2, 7}

Byte(k, class, color, bytes) ==
    [kind |-> k, class |-> class, color |-> color, bytes |-> bytes]
MCValues == {Byte("whole", 1, 0, 0), Byte("whole", 1, 1, 0),
             Byte("partial", 1, 0, 3), Byte("poison", 0, 0, 0)}
MCRoots == {{}, {Byte("whole", 1, 0, 0)}, {Byte("partial", 1, 0, 3)},
            {Byte("partial", 2, 0, 3)}, {Byte("poison", 0, 0, 0)}}

MCLeaves == {<<"int", 3>>, <<"arg", 0>>, <<"len", 1>>}
MCNumbers == {1, 2}
MCPair == Over(MCLeaves)
MCAmounts == {-8, -7, -1, 0, 1, 3, 7}

-----------------------------------------------------------------------------
(* Entries of a table, right and wrong, and the names that calls use. *)
Param(head, flags, leaves) == [head |-> head, flags |-> flags, leaves |-> leaves]
IntParam == Param("int", {}, {})
Text == Param("r", {"str"}, {})
Plain(n, ps, variadic, chk) ==
    [name |-> <<FALSE, n>>, params |-> ps, variadic |-> variadic,
     result |-> "int", value |-> {}, wide |-> FALSE, disjoint |-> {},
     format |-> {}, wrapper |-> {}, chk |-> chk]
Alias(n, map, s) == [name |-> n, argumentOf |-> map, sizes |-> s]
Sized(head) == Param(head, {"bytes"}, {<<"arg", 3>>})
CopyParams == <<Sized("w"), Sized("r"), IntParam>>

MCEntries == {
    Plain("copy", CopyParams, FALSE, <<Alias(<<TRUE, "copy_chk">>, <<1, 2, 3, 0>>, {4})>>),
    [Plain("copy", CopyParams, FALSE, <<>>) EXCEPT !.disjoint =
        {[first |-> 1, second |-> 4, length |-> {}]}],
    [Plain("copy", CopyParams, FALSE, <<>>) EXCEPT !.disjoint =
        {[first |-> 1, second |-> 2, length |-> {<<"arg", 4>>}]}],
    Plain("error", <<IntParam, Sized("w"), IntParam>>, FALSE, <<>>),
    Plain("error", <<IntParam, Param("w", {}, {})>>, FALSE,
          <<Alias(<<FALSE, "copy_chk">>, <<1, 0, 2>>, {})>>),
    Plain("copy_chk", <<IntParam>>, FALSE, <<>>),
    [Plain("print", <<Param("w", {}, {}), Text>>, TRUE,
           <<Alias(<<FALSE, "print_chk">>, <<1, 0, 0, 2>>, {3}),
             Alias(<<TRUE, "print_chk">>, <<1, 2, 0>>, {})>>)
        EXCEPT !.format = {[format |-> 2, first |-> 3]},
               !.wrapper = {<<FALSE, "print">>}],
    [Plain("print", <<Text>>, FALSE, <<>>)
        EXCEPT !.format = {[format |-> 2, first |-> 3]}],
    Plain("length", <<Param("r", {"str", "scan"}, {}), IntParam>>, FALSE, <<>>),
    [Plain("length", <<Param("r", {"scan"}, {<<"len", 2>>}), Text>>, FALSE, <<>>)
        EXCEPT !.result = "void"],
    [Plain("length", <<Param("r", {"scan"}, {<<"len", 2>>}), IntParam>>, FALSE, <<>>)
        EXCEPT !.value = {<<"len", 1>>}],
    [Plain("length", <<Param("r", {"count"}, {})>>, FALSE, <<>>)
        EXCEPT !.wide = TRUE],
    Plain("open", <<Param("r", {"null-ok", "null-if-zero"}, {})>>, FALSE, <<>>),
    Plain("open", <<Text, IntParam>>, TRUE, <<Alias(<<FALSE, "open_2">>, <<1, 2>>, {1, 2})>>)}

MCCallees == {<<builtin, n>> : builtin \in BOOLEAN,
                n \in {"copy", "copy_chk", "error", "print_chk", "print",
                       "length", "other"}}

(* Rows of the shipped table, cut to two parameters. *)
PointerParam(mode, string, extent, null) ==
    [access |-> mode, string |-> string, term |-> extent, null |-> null,
     scan |-> FALSE, effect |-> "borrow"]
NoParam == PointerParam("none", FALSE, "none", "ok")
Str == PointerParam("r", TRUE, "none", "no")
Bounded == PointerParam("r", FALSE, "bounded", "zero")
Counted == PointerParam("r", FALSE, "count", "zero")
CallRow(p, q, facts) ==
    [params |-> <<p, q>>, wrapper |-> "wrapper" \in facts,
     value |-> "value" \in facts, stops |-> "stops" \in facts,
     limited |-> "limited" \in facts]

MCCallRows == {
    CallRow([Counted EXCEPT !.access = "w"], Counted, {"limited"}), \* memcpy
    CallRow(PointerParam("w", FALSE, "copy", "no"), Str, {"wrapper", "limited"}), \* strcpy
    CallRow(PointerParam("rw", TRUE, "append", "no"), Str, {"wrapper", "limited"}), \* strcat
    CallRow(Str, Str, {"wrapper", "stops"}), \* strcmp
    CallRow(Bounded, Bounded, {"wrapper", "stops"}), \* strncmp
    CallRow(Counted, Counted, {}), \* memcmp
    CallRow(Str, NoParam, {"value"}), \* strlen
    CallRow(Bounded, NoParam, {"value"}), \* strnlen
    CallRow([Str EXCEPT !.scan = TRUE], NoParam, {}), \* strchr
    CallRow([Counted EXCEPT !.scan = TRUE], NoParam, {}), \* memchr
    CallRow([Str EXCEPT !.null = "ok"], NoParam, {}), \* puts
    CallRow([Str EXCEPT !.null = "ok"], PointerParam("w", FALSE, "none", "ok"), {}), \* realpath
    CallRow(Str, PointerParam("w", FALSE, "one", "ok"), {}), \* strtok_r
    CallRow([PointerParam("rw", FALSE, "none", "ok") EXCEPT !.effect = "release"],
            NoParam, {}), \* free
    CallRow(PointerParam("r", FALSE, "one", "no"), NoParam, {"wrapper"})} \* gmtime_r

-----------------------------------------------------------------------------
FramesIdle ==
    /\ locals = <<>> /\ mayMeet = {} /\ offsets = <<>> /\ frameSize = LeftZone
    /\ frameAt = "out" /\ inScope = {} /\ frameShadow = ReturnedFrame
    /\ stackPointer = 0 /\ allocas = <<>> /\ stackShadow = <<>>

RulesIdle ==
    /\ flow = <<{2}, {3}, {}>> /\ code = <<<<>>, <<>>, <<>>>>
    /\ decision = <<>> /\ hull = <<>> /\ pc = <<Entry, 1>>
    /\ checked = {} /\ owed = {} /\ scope = "before"

LoopsIdle ==
    /\ loop = [start |-> 0, step |-> 0, bytes |-> 0, count |-> 0, root |-> {},
               nullBase |-> FALSE, releases |-> FALSE]
    /\ live = DOMAIN Objects /\ loopAt = "check" /\ iteration = 0

InlineIdle ==
    /\ shadowBytes = [i \in 1 .. Chunk + 1 |-> Byte("whole", 1, 0, 0)]
    /\ access = [offset |-> 0, width |-> 0, null |-> FALSE,
                 baseIsRoot |-> FALSE, aligned |-> FALSE,
                 runtime |-> FALSE, root |-> {}, jumpOk |-> FALSE, members |-> {}]
    /\ verdict = "none"

TermsIdle == term = <<"arg", 0>> /\ amount = Unasked

CallsIdle ==
    /\ row = CallRow(NoParam, NoParam, {})
    /\ call = [unsafe |-> FALSE, constant |-> FALSE, size |-> 1]
    /\ memory = [i \in Params |-> [room |-> 0, zero |-> 0, null |-> TRUE,
                                   literal |-> FALSE]]
    /\ count = 0 /\ halt = 0
    /\ form = "call" /\ checks = {} /\ callStage = "early"

Init ==
    /\ part \in {"frames", "rules", "loops", "inline", "terms", "rows", "calls",
                 "ledger"}
    /\ IF part = "frames" THEN FramesInit ELSE FramesIdle
    /\ IF part = "rules" THEN RulesInit ELSE RulesIdle
    /\ IF part = "loops" THEN LoopsInit ELSE LoopsIdle
    /\ IF part = "inline" THEN InlineInit ELSE InlineIdle
    /\ IF part = "terms" THEN TermsInit ELSE TermsIdle
    /\ RowsInit
    /\ IF part = "calls" THEN CallsInit ELSE CallsIdle
    /\ LedgerInit

Next ==
    \/ /\ part = "frames" /\ FramesNext
       /\ UNCHANGED <<part, ruleVars, loopVars, inlineVars, termVars,
                      rowVars, callVars, ledgerVars>>
    \/ /\ part = "rules" /\ RulesNext
       /\ UNCHANGED <<part, frameVars, loopVars, inlineVars, termVars,
                      rowVars, callVars, ledgerVars>>
    \/ /\ part = "loops" /\ LoopsNext
       /\ UNCHANGED <<part, frameVars, ruleVars, inlineVars, termVars,
                      rowVars, callVars, ledgerVars>>
    \/ /\ part = "inline" /\ InlineNext
       /\ UNCHANGED <<part, frameVars, ruleVars, loopVars, termVars,
                      rowVars, callVars, ledgerVars>>
    \/ /\ part = "terms" /\ TermsNext
       /\ UNCHANGED <<part, frameVars, ruleVars, loopVars, inlineVars,
                      rowVars, callVars, ledgerVars>>
    \/ /\ part = "rows" /\ RowsNext
       /\ UNCHANGED <<part, frameVars, ruleVars, loopVars, inlineVars,
                      termVars, callVars, ledgerVars>>
    \/ /\ part = "calls" /\ CallsNext
       /\ UNCHANGED <<part, frameVars, ruleVars, loopVars, inlineVars,
                      termVars, rowVars, ledgerVars>>
    \/ /\ part = "ledger" /\ LedgerNext
       /\ UNCHANGED <<part, frameVars, ruleVars, loopVars, inlineVars,
                      termVars, rowVars, callVars>>

Spec ==
    Init /\ [][Next]_<<part, frameVars, ruleVars, loopVars, inlineVars, termVars,
                      rowVars, callVars, ledgerVars>>
=============================================================================
