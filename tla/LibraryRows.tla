----------------------------- MODULE LibraryRows -----------------------------
(***************************************************************************)
(* The library table (lib/Core/LibrarySpec.cpp): rows read one by one and  *)
(* validated, their fortified aliases entered at the end, and the lookup   *)
(* of a call's row with the numbering of its arguments through an alias.   *)
(*                                                                         *)
(* An entry is what its text says, after the lexical work: parameters with *)
(* their flags and the leaves of their terms, a result and clauses.  A     *)
(* name is a pair of whether it has the prefix `__builtin_` and the rest.  *)
(* Arguments are numbered from 1 (the code counts from 0), and a dropped   *)
(* argument is 0 (-1 in the code).                                         *)
(***************************************************************************)
EXTENDS Naturals, Sequences, FiniteSets

CONSTANTS Entries,  \* the entries a table may have
          Callees,  \* the names of called functions
          Counts,   \* the argument counts of calls
          MaxRows   \* bound: the entries of a table

VARIABLES rows,   \* spec.rows
          table,  \* "reading", "read" or "refused"
          asked, match  \* the last lookup and its result

rowVars == <<rows, table, asked, match>>

\* What reading the text of an entry leaves: lists, and arguments counted
\* from 1.
ASSUME EntriesAssumption ==
  \A entry \in Entries :
    /\ Len(entry.params) \in Nat /\ DOMAIN entry.params = 1..Len(entry.params)
    /\ \A f \in entry.format : f.format \in Nat \ {0}
    /\ \A a \in DOMAIN entry.chk :
         a \in Nat \ {0} /\ entry.chk[a].argumentOf \in Seq(Nat)

NoMatch == [row |-> 0, alias |-> 0]
NotAsked == [name |-> <<FALSE, "none">>, count |-> 0]

-----------------------------------------------------------------------------
(* Reading a row.                                                          *)
(***************************************************************************)
Pointer(param) == param.head \in {"r", "w", "rw", "none"}

\* parseParam: the exclusions among a parameter's flags, which only a
\* pointer has.
ParamParses(param) ==
  /\ ~Pointer(param) => param.flags = {}
  /\ ~({"null-ok", "null-if-zero"} \subseteq param.flags)
  /\ ~({"bytes", "count"} \subseteq param.flags)
  /\ "str" \in param.flags => param.head \in {"r", "rw"}
  /\ "scan" \in param.flags => param.head = "r"

\* validateTerm: the leaves of a term name parameters, strlen a pointer.
TermValid(entry, leaves) ==
  \A leaf \in leaves : /\ leaf[2] \in DOMAIN entry.params
                       /\ leaf[1] = "len" => Pointer(entry.params[leaf[2]])

Scans(entry) ==
  {i \in DOMAIN entry.params : "scan" \in entry.params[i].flags}

EntryValid(entry) ==
  LET past == Len(entry.params)
  IN /\ \A i \in DOMAIN entry.params :
          /\ TermValid(entry, entry.params[i].leaves)
          /\ "count" \in entry.params[i].flags => entry.wide
     /\ TermValid(entry, entry.value)
     /\ \A d \in entry.disjoint :
          {d.first, d.second} \subseteq 1..past /\ TermValid(entry, d.length)
     /\ \A f \in entry.format :
          f.format <= past /\ (~entry.variadic => f.first <= past)
     /\ Scans(entry) # {} => entry.result # "void" /\ entry.wrapper = {}
     /\ entry.wrapper \subseteq {entry.name}
     /\ \A a \in DOMAIN entry.chk : \A i \in DOMAIN entry.chk[a].argumentOf :
          ~entry.variadic => entry.chk[a].argumentOf[i] <= past

\* parseClause: at most one object size among the arguments of an alias.
ClausesParse(entry) ==
  \A a \in DOMAIN entry.chk : Cardinality(entry.chk[a].sizes) <= 1

ParseEntry ==
  /\ table = "reading" /\ Len(rows) < MaxRows
  /\ \E entry \in Entries :
       IF /\ \A i \in DOMAIN entry.params : ParamParses(entry.params[i])
          /\ ClausesParse(entry)
          /\ EntryValid(entry)
       THEN rows' = Append(rows, entry) /\ UNCHANGED table
       ELSE table' = "refused" /\ UNCHANGED rows
  /\ UNCHANGED <<asked, match>>

\* Every alias of the table as <<row, alias>>, and its name.
AllAliases == UNION {{r} \X DOMAIN rows[r].chk : r \in DOMAIN rows}
AliasName(ra) == rows[ra[1]].chk[ra[2]].name
RowsNamed(name) == {r \in DOMAIN rows : rows[r].name = name}

\* Mutant: an alias is only compared with the other aliases.
AliasesFreeOfAliases ==
  \A ra \in AllAliases : \A rb \in AllAliases \ {ra} : AliasName(rb) # AliasName(ra)

AliasesFree ==
  \A ra \in AllAliases :
    /\ RowsNamed(AliasName(ra)) = {}
    /\ \A rb \in AllAliases \ {ra} : AliasName(rb) # AliasName(ra)

\* The end of parse: the aliases are entered, if each name is free.
EnterAliases ==
  /\ table = "reading"
  /\ table' = IF AliasesFree THEN "read" ELSE "refused"
  /\ UNCHANGED <<rows, asked, match>>

-----------------------------------------------------------------------------
(* LibrarySpec::lookup.                                                    *)
(***************************************************************************)
Fits(entry, count) == IF entry.variadic THEN count >= Len(entry.params)
                      ELSE count = Len(entry.params)

First(set) == CHOOSE r \in set : \A s \in set : r <= s

\* The first row of the name that fits, or the first.
RowFor(named, count) ==
  LET fitting == {r \in named : Fits(rows[r], count)}
  IN First(IF fitting = {} THEN named ELSE fitting)

\* The name as it is, then without its prefix.
Resolve(name, count) ==
  LET tries == IF name[1] THEN {name, <<FALSE, name[2]>>} ELSE {name}
      known(n) == \/ RowsNamed(n) # {}
                  \/ \E ra \in AllAliases : AliasName(ra) = n
      found(n) == IF \E ra \in AllAliases : AliasName(ra) = n
                  THEN LET ra == CHOOSE ra \in AllAliases : AliasName(ra) = n
                       IN [row |-> ra[1], alias |-> ra[2]]
                  ELSE [row |-> RowFor(RowsNamed(n), count), alias |-> 0]
  IN IF known(name) THEN found(name)
     ELSE IF \E n \in tries : known(n) THEN found(<<FALSE, name[2]>>)
     ELSE NoMatch

Lookup ==
  /\ table = "read"
  /\ \E name \in Callees, count \in Counts :
       /\ asked' = [name |-> name, count |-> count]
       /\ match' = Resolve(name, count)
  /\ UNCHANGED <<rows, table>>

RowsInit == rows = <<>> /\ table = "reading" /\ asked = NotAsked /\ match = NoMatch
RowsNext == ParseEntry \/ EnterAliases \/ Lookup
RowsSpec == RowsInit /\ [][RowsNext]_rowVars

-----------------------------------------------------------------------------
(* LibraryMatch: the numbering of arguments.                               *)
(***************************************************************************)
MatchedRow == rows[match.row]
ArgumentOf == MatchedRow.chk[match.alias].argumentOf

RowArgument(at) ==
  IF match.alias = 0 THEN at
  ELSE LET map == ArgumentOf
       IN IF at <= Len(map) THEN map[at]
          ELSE IF ~MatchedRow.variadic \/ map = <<>> \/ map[Len(map)] = 0 THEN 0
          ELSE map[Len(map)] + (at - Len(map))

CallArgument(index) ==
  IF match.alias = 0 THEN index
  ELSE LET map == ArgumentOf
           direct == {i \in DOMAIN map : map[i] = index}
       IN IF direct # {} THEN First(direct)
          ELSE IF \/ ~MatchedRow.variadic \/ map = <<>>
                  \/ map[Len(map)] = 0 \/ index <= map[Len(map)] THEN 0
          ELSE Len(map) + (index - map[Len(map)])

-----------------------------------------------------------------------------
(* Properties.                                                             *)
(***************************************************************************)
Matched == table = "read" /\ match # NoMatch

\* A name means one thing: what is looked up by a row's own name is a row of
\* that name, and is one that fits the call if any does (LibrarySpec.h, on
\* lookup: "the first overload whose arity the call matches").
NameMeansRow ==
  table = "read" /\ asked # NotAsked =>
    LET named == RowsNamed(asked.name)
    IN named # {} =>
         /\ match.alias = 0 /\ match.row \in named
         /\ (\E r \in named : Fits(rows[r], asked.count))
              => Fits(MatchedRow, asked.count)

\* The two numberings agree: the argument of the call that carries a row's
\* argument is carried back to it, in the variable part too.
NumberingsAgree ==
  Matched =>
    \A index \in 1..(Len(MatchedRow.params) + 2) :
      CallArgument(index) # 0 => RowArgument(CallArgument(index)) = index

\* A row that was accepted can be used: every leaf of its terms names a
\* parameter of it, the format too, and a scan has a result that says where
\* the call stopped and a call that is not replaced.
RowsUsable ==
  \A r \in DOMAIN rows :
    LET entry == rows[r]
        named == (UNION {entry.params[i].leaves : i \in DOMAIN entry.params})
                   \cup entry.value
    IN /\ {leaf[2] : leaf \in named} \subseteq DOMAIN entry.params
       /\ \A f \in entry.format : f.format \in DOMAIN entry.params
       /\ Scans(entry) # {} => entry.result # "void" /\ entry.wrapper = {}

\* A table that was accepted means what it says: its names, its aliases'
\* numberings and its clauses (LibrarySpec::parse, lookup, LibraryMatch).
RowsExact == NameMeansRow /\ NumberingsAgree /\ RowsUsable
=============================================================================
