----------------------------- MODULE GuardRules -----------------------------
(***************************************************************************)
(* Which guards are left in a function (lib/Frontend/GuardInsert.cpp,      *)
(* GuardPass.cpp, GuardExpand.cpp): a guard is removed when its access is  *)
(* inside its local and in scope (rule 6.1), when guards that cover it     *)
(* have run on every path since the last kill (6.2), or when one guard of  *)
(* a block checks the hull of several (6.3).                               *)
(*                                                                         *)
(* Init is a function: blocks, the edges between them, and in each block   *)
(* the instructions the rules tell apart: guards of constant bytes of one  *)
(* base, guards of a local, kills, calls that may not return, and the      *)
(* markers of the local's scope.  The steps are its executions, an access  *)
(* right after each guard, and what a guard checked is remembered until    *)
(* something may release it.                                               *)
(***************************************************************************)
EXTENDS Naturals, Sequences, FiniteSets, FiniteSetsExt

CONSTANTS Programs,    \* the functions: blocks' code, and their successors
          LocalSize,   \* the bytes of the local
          MaxHull      \* the widest hull

Entry == 1
None == <<0, 0>>
Ops == {"guard", "local", "kill", "stop", "start", "end"}

\* An instruction: a guard covers the bytes [low, high) of its base.
Instruction(op, span) == [op |-> op, low |-> span[1], high |-> span[2]]
Instructions == [op : Ops, low : Nat, high : Nat]

ASSUME RulesAssumption ==
  /\ LocalSize \in Nat /\ MaxHull \in Nat
  /\ \A f \in Programs :
       /\ Entry \in DOMAIN f.flow
       /\ f.flow \in [DOMAIN f.flow -> SUBSET DOMAIN f.flow]
       /\ DOMAIN f.code = DOMAIN f.flow
       /\ \A b \in DOMAIN f.flow : f.code[b] \in Seq(Instructions)

VARIABLES code, flow,          \* the function
          decision, hull,      \* what became of each guard, and its bytes
          pc, checked, owed, scope

ruleVars == <<code, flow, decision, hull, pc, checked, owed, scope>>
functionVars == <<code, flow, decision, hull>>

Blocks == DOMAIN flow
Sites == UNION {{<<b, i>> : i \in DOMAIN code[b]} : b \in Blocks}
EntryAtPoint(p) == code[p[1]][p[2]]
BaseGuards == {p \in Sites : EntryAtPoint(p).op = "guard"}
LocalGuards == {p \in Sites : EntryAtPoint(p).op = "local"}

-----------------------------------------------------------------------------
(* Rule 6.1.  Scopes::mayBeOutOfScope: a block is entered out of scope     *)
(* when a predecessor is left after an end with no start after it.         *)
(***************************************************************************)

\* Before instruction i of block b, entered dead or not: an end with no
\* marker after it, or none at all.
DeadBefore(b, i, entered) ==
  LET unmarked(j) == \A k \in j..(i - 1) : code[b][k].op \notin {"start", "end"}
  IN \/ \E k \in 1..(i - 1) : code[b][k].op = "end" /\ unmarked(k + 1)
     \/ entered /\ unmarked(1)

LeavesDead(b, entered) == DeadBefore(b, Len(code[b]) + 1, entered)

\* The least set of blocks that has the successors of those left dead.
DeadAtEntry ==
  {b \in Blocks :
     \A dead \in SUBSET Blocks :
       (\A a \in Blocks : LeavesDead(a, a \in dead) => flow[a] \subseteq dead)
         => b \in dead}

MayBeOutOfScope(p) == DeadBefore(p[1], p[2], p[1] \in DeadAtEntry)

InBounds(p) == /\ EntryAtPoint(p).high <= LocalSize
               /\ ~MayBeOutOfScope(p)

-----------------------------------------------------------------------------
(* Rule 6.2: the guards that have run on every path, with no kill since.   *)
(***************************************************************************)

\* killsGuards: a call that may release memory, and a lifetime marker.  A
\* call that may not return is one that does not release.
KillsGuards(i) == i.op \in {"kill", "start", "end"}

Reachable ==
  {b \in Blocks : \A seen \in SUBSET Blocks :
                    Entry \in seen /\ UNION {flow[a] : a \in seen} \subseteq seen
                      => b \in seen}

\* No kill in block b from instruction j up to i.
Unkilled(b, j, i) == \A k \in j..(i - 1) : ~KillsGuards(code[b][k])

\* Mutant: a kill does not reset what was available at the block's entry.
PassesKill(p, b, i, entered) ==
  (p[1] = b /\ p[2] < i /\ Unkilled(b, p[2], i)) \/ entered

\* The transfer of a block up to its instruction i: guard p is available
\* there if it ran since the last kill, or was available at the entry and
\* there was none.
Passes(p, b, i, entered) ==
  \/ p[1] = b /\ p[2] < i /\ Unkilled(b, p[2], i)
  \/ entered /\ Unkilled(b, 1, i)

\* The greatest fixpoint: every predecessor that is reached leaves p
\* available to the blocks that are entered with it.
AvailableIn(p) ==
  UNION {entered \in SUBSET (Blocks \ {Entry}) :
           \A b \in entered : \A a \in Reachable :
             b \in flow[a] => Passes(p, a, Len(code[a]) + 1, a \in entered)}

\* Covered by another guard of the same base that is available; `left` are
\* the guards that rule 6.1 did not remove.
Dominated(left) ==
  {p \in left : p[1] \in Reachable /\ \E q \in left \ {p} :
     /\ EntryAtPoint(q).op = EntryAtPoint(p).op
     /\ EntryAtPoint(q).low <= EntryAtPoint(p).low /\ EntryAtPoint(p).high <= EntryAtPoint(q).high
     /\ Passes(q, p[1], p[2], p[1] \in AvailableIn(q))}

-----------------------------------------------------------------------------
(* Rule 6.3.  mergeInBlocks walks each block with one open guard of the    *)
(* base; `left` are the guards the other rules kept.                       *)
(***************************************************************************)

\* Mutant: a call that may not return leaves the guard open.
ClosesKill(i) == KillsGuards(i)

Closes(i) == KillsGuards(i) \/ i.op = "stop"

\* The walk: the open guard of each base, the bytes of each guard, and the
\* guards each leader checks for.
NoneOpen == [base \in {"guard", "local"} |-> None]
WalkStart == [open |-> NoneOpen, leads |-> {},
              bytes |-> [p \in Sites |-> <<EntryAtPoint(p).low, EntryAtPoint(p).high>>]]

WalkGuard(w, p) ==
  LET open == w.open[EntryAtPoint(p).op]
      low == Min({w.bytes[open][1], EntryAtPoint(p).low})
      high == Max({w.bytes[open][2], EntryAtPoint(p).high})
  IN IF open # None /\ high - low <= MaxHull
     THEN [w EXCEPT !.bytes[open] = <<low, high>>, !.leads = @ \cup {<<open, p>>}]
     ELSE [w EXCEPT !.open[EntryAtPoint(p).op] = p]

WalkStep(w, b, i, left) ==
  IF <<b, i>> \in left THEN WalkGuard(w, <<b, i>>)
  ELSE IF Closes(code[b][i]) THEN [w EXCEPT !.open = NoneOpen]
  ELSE w

Walk(b, left) ==
  LET upTo[i \in 0..Len(code[b])] ==
        IF i = 0 THEN WalkStart ELSE WalkStep(upTo[i - 1], b, i, left)
  IN upTo

Walked(b, left) == Walk(b, left)[Len(code[b])]

\* expandGuards: the three rules in turn.  A removed guard says which rule
\* removed it; a guard that stays has its hull and the guards it leads.
Decided ==
  LET inside == {p \in LocalGuards : InBounds(p)}
      left == (BaseGuards \cup LocalGuards) \ inside
      kept == left \ Dominated(left)
      walks == [b \in Blocks |-> Walked(b, kept)]
      leads == UNION {walks[b].leads : b \in Blocks}
  IN [p \in BaseGuards \cup LocalGuards |->
        IF p \in inside THEN "in-bounds"
        ELSE IF p \notin kept THEN "dominated"
        ELSE IF \E l \in leads : l[2] = p THEN "merged" ELSE "guard"]

Hulls ==
  LET left == {p \in DOMAIN decision : decision[p] \in {"guard", "merged"}}
      walks == [b \in Blocks |-> Walked(b, left)]
  IN [p \in DOMAIN decision |->
        [bytes |-> walks[p[1]].bytes[p],
         leads |-> {l[2] : l \in {k \in walks[p[1]].leads : k[1] = p}}]]

-----------------------------------------------------------------------------
(* Executions.                                                             *)
(***************************************************************************)
RulesInit ==
  /\ \E f \in Programs : flow = f.flow /\ code = f.code
  /\ decision = Decided
  /\ hull = Hulls
  /\ pc = <<Entry, 1>>
  /\ checked = {} /\ owed = {} /\ scope = "before"

Running == pc[2] \in DOMAIN code[pc[1]]
Onward == pc' = <<pc[1], pc[2] + 1>>
Bytes(op, span) == {<<op, k>> : k \in span[1]..(span[2] - 1)}

\* A guard that stays checks its hull, and the access is made; where the
\* guard was removed only the access is.
Access ==
  /\ Running /\ EntryAtPoint(pc).op \in {"guard", "local"}
  /\ LET stays == decision[pc] = "guard"
     IN /\ checked' = IF stays
                      THEN checked \cup Bytes(EntryAtPoint(pc).op, hull[pc].bytes)
                      ELSE checked
        /\ owed' = (IF stays THEN owed \cup hull[pc].leads ELSE owed) \ {pc}
  /\ Onward
  /\ UNCHANGED <<functionVars, scope>>

\* A call that may release: what was checked may be gone after it.
Kill ==
  /\ Running /\ EntryAtPoint(pc).op = "kill"
  /\ checked' = {}
  /\ Onward
  /\ UNCHANGED <<functionVars, owed, scope>>

ScopeMarker ==
  /\ Running /\ EntryAtPoint(pc).op \in {"start", "end"}
  /\ checked' = {} /\ scope' = EntryAtPoint(pc).op
  /\ Onward
  /\ UNCHANGED <<functionVars, owed>>

\* A call that may leave the function (exit, longjmp), and here comes back.
Stop ==
  /\ Running /\ EntryAtPoint(pc).op = "stop"
  /\ Onward
  /\ UNCHANGED <<functionVars, checked, owed, scope>>

Branch ==
  /\ ~Running
  /\ \E b \in flow[pc[1]] : pc' = <<b, 1>>
  /\ UNCHANGED <<functionVars, checked, owed, scope>>

RulesNext == Access \/ Kill \/ ScopeMarker \/ Stop \/ Branch

RulesSpec == RulesInit /\ [][RulesNext]_ruleVars

-----------------------------------------------------------------------------
(* Properties.                                                             *)
(***************************************************************************)

\* An access whose guard was removed is safe on every path: because of other
\* guards, its bytes are checked with nothing since that could have released
\* them (removeDominated, mergeInBlocks); as in bounds, its local's scope has
\* not ended (Scopes::mayBeOutOfScope).
AccessChecked ==
  LET i == EntryAtPoint(pc)
  IN Running /\ i.op \in {"guard", "local"} =>
       /\ decision[pc] \in {"dominated", "merged"} =>
            Bytes(i.op, <<i.low, i.high>>) \subseteq checked
       /\ i.op = "local" /\ decision[pc] = "in-bounds" => scope # "end"

\* A merged guard checks bytes early only for accesses that follow: none is
\* outstanding where the execution may leave the block or memory may be
\* released, so that no access is reported that would not be made.
NothingCheckedEarly ==
  (IF Running THEN EntryAtPoint(pc).op \in {"kill", "stop", "start", "end"} ELSE TRUE)
    => owed = {}
=============================================================================
