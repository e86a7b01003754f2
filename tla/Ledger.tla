------------------------------- MODULE Ledger -------------------------------
(***************************************************************************)
(* The enforcement ledger (lib/Frontend/EnforcementLedger.cpp and the      *)
(* passes that fill it): a row for each access when its guard is inserted, *)
(* a note for each copy of the guard the optimizer left, the settling of   *)
(* the rows, and the writing of the file by compilers that run in          *)
(* parallel.                                                               *)
(*                                                                         *)
(* `program` is what the ledger is about: how many checks of each row are  *)
(* in the program.                                                         *)
(***************************************************************************)
EXTENDS Naturals, Sequences

CONSTANTS Writers,    \* compilers that write the same ledger file
          MaxLedgerRows, MaxCopies  \* bounds

VARIABLES ledger, copies,     \* EnforcementLedger
          program, marked,  \* checks of each row, and markers not expanded
          stage,
          temporary, file, writing

ledgerVars == <<ledger, copies, program, marked, stage, temporary, file, writing>>
tableVars == <<ledger, copies, program, marked, stage>>
fileVars == <<temporary, file, writing>>

Reasons == {"access", "range", "string", "checked-call"}

-----------------------------------------------------------------------------
(* The rows.                                                                 *)
(***************************************************************************)
\* `inserted` is the reason the row had when it was added.
Row(outcome, reason) ==
  [outcome |-> outcome, reason |-> reason, inserted |-> reason]
Proven(row, reason) == [row EXCEPT !.outcome = "proven", !.reason = reason]
NoCopies == [stay |-> 0, removed |-> 0, reason |-> ""]

\* EnforcementLedger::add.
Add(row, checks, markers) ==
  /\ Len(ledger) < MaxLedgerRows
  /\ ledger' = Append(ledger, row)
  /\ program' = Append(program, checks)
  /\ marked' = Append(marked, markers)

\* EnforcementLedger::copy.
Copy(seen, stays, reason) ==
  IF stays THEN [seen EXCEPT !.stay = @ + 1]
  ELSE [seen EXCEPT !.removed = @ + 1, !.reason = reason]

\* insertGuards and the early library calls: a guard with a marker, a
\* string guard, or a call of a checked version, which has no marker.
Insert(reason) ==
  /\ stage = "insert"
  /\ Add(Row("guarded", reason), 1, IF reason = "checked-call" THEN 0 ELSE 1)
  /\ copies' = Append(copies, NoCopies)
  /\ UNCHANGED <<stage, fileVars>>

InsertUnsafe ==
  /\ stage = "insert"
  /\ Add(Row("unguarded", "unsafe"), 0, 0)
  /\ copies' = Append(copies, NoCopies)
  /\ UNCHANGED <<stage, fileVars>>

\* The optimizer (external) copies a check with the code around it, or
\* removes it with code that is not reached; a marker goes with its check.
Duplicate(r) ==
  /\ stage = "insert" /\ program[r] > 0
  /\ program[r] + copies[r].removed < MaxCopies
  /\ program' = [program EXCEPT ![r] = @ + 1]
  /\ marked' = [marked EXCEPT ![r] = IF @ = 0 THEN 0 ELSE @ + 1]
  /\ UNCHANGED <<ledger, copies, stage, fileVars>>

Unreached(r) ==
  /\ stage = "insert" /\ program[r] > 0
  /\ program' = [program EXCEPT ![r] = @ - 1]
  /\ marked' = [marked EXCEPT ![r] = IF @ = 0 THEN 0 ELSE @ - 1]
  /\ UNCHANGED <<ledger, copies, stage, fileVars>>

\* pruneGuards, between the optimizer's passes: a guard of an access, or of
\* an argument's bytes when they are constant.
Prune(r) ==
  /\ stage = "insert" /\ ledger[r].reason \in {"access", "range"} /\ marked[r] > 0
  /\ program' = [program EXCEPT ![r] = @ - 1]
  /\ marked' = [marked EXCEPT ![r] = @ - 1]
  /\ copies' = [copies EXCEPT ![r] = Copy(@, FALSE, "in-bounds")]
  /\ UNCHANGED <<ledger, stage, fileVars>>

BeginExpand ==
  /\ stage = "insert" /\ ledger # <<>>
  /\ stage' = "expand"
  /\ UNCHANGED <<ledger, copies, program, marked, fileVars>>

\* A read-only call redirected by the late pass "has its one copy already".
LateCall ==
  /\ stage = "expand"
  /\ Add(Row("guarded", "checked-call"), 1, 0)
  /\ copies' = Append(copies, Copy(NoCopies, TRUE, "checked-call"))
  /\ UNCHANGED <<stage, fileVars>>

\* expandGuards: a marker's check stays or a rule removes it.  A string's
\* marker is expanded too, but no copy is noted for it.
Expand(r, rule) ==
  /\ stage = "expand" /\ marked[r] > 0
  /\ marked' = [marked EXCEPT ![r] = @ - 1]
  /\ IF ledger[r].reason = "string"
     THEN UNCHANGED <<program, copies>>
     ELSE /\ program' = [program EXCEPT ![r] = IF rule = "stays" THEN @ ELSE @ - 1]
          /\ copies' = [copies EXCEPT ![r] = Copy(@, rule = "stays", rule)]
  /\ UNCHANGED <<ledger, stage, fileVars>>

\* Mutant: one removed copy settles the row.
SettleRemoved(row, seen) ==
  IF row.outcome = "guarded" /\ (seen.stay = 0 \/ seen.removed > 0)
  THEN Proven(row, seen.reason) ELSE row

\* EnforcementLedger::finish, for one row.
Settle(row, seen) ==
  IF row.outcome = "guarded" /\ seen.stay = 0
  THEN Proven(row, IF seen.removed # 0 THEN seen.reason ELSE "optimized")
  ELSE row

Finish ==
  /\ stage = "expand" /\ \A r \in DOMAIN ledger : marked[r] = 0
  /\ ledger' = [r \in DOMAIN ledger |-> Settle(ledger[r], copies[r])]
  /\ stage' = "finished"
  /\ UNCHANGED <<copies, program, marked, fileVars>>

-----------------------------------------------------------------------------
(* writeFileAtomically, in each of the writers.                            *)
(***************************************************************************)
NoFile == [of |-> "nobody", whole |-> TRUE]

Create(w) ==
  /\ stage = "finished" /\ writing[w] = "idle"
  /\ \/ /\ temporary' = [temporary EXCEPT ![w] = "empty"]
        /\ writing' = [writing EXCEPT ![w] = "created"]
     \/ /\ writing' = [writing EXCEPT ![w] = "failed"]
        /\ UNCHANGED temporary
  /\ UNCHANGED <<tableVars, file>>

\* Mutant: an error of the stream is not looked at.
WriteUnchecked(w) ==
  /\ writing[w] = "created"
  /\ \E amount \in {"part", "whole"} :
       temporary' = [temporary EXCEPT ![w] = amount]
  /\ writing' = [writing EXCEPT ![w] = "written"]
  /\ UNCHANGED <<tableVars, file>>

\* The whole text is written, or the stream has an error and the temporary
\* file is removed.
Write(w) ==
  /\ writing[w] = "created"
  /\ \/ /\ temporary' = [temporary EXCEPT ![w] = "whole"]
        /\ writing' = [writing EXCEPT ![w] = "written"]
     \/ /\ temporary' = [temporary EXCEPT ![w] = "absent"]
        /\ writing' = [writing EXCEPT ![w] = "failed"]
  /\ UNCHANGED <<tableVars, file>>

Rename(w) ==
  /\ writing[w] = "written"
  /\ \/ /\ file' = [of |-> w, whole |-> temporary[w] = "whole"]
        /\ writing' = [writing EXCEPT ![w] = "done"]
     \/ writing' = [writing EXCEPT ![w] = "failed"] /\ UNCHANGED file
  /\ temporary' = [temporary EXCEPT ![w] = "absent"]
  /\ UNCHANGED tableVars

\* A compiler may be killed while it writes.
Killed(w) ==
  /\ writing[w] \in {"created", "written"}
  /\ writing' = [writing EXCEPT ![w] = "killed"]
  /\ temporary' = [temporary EXCEPT ![w] = IF @ = "empty" THEN "part" ELSE @]
  /\ UNCHANGED <<tableVars, file>>

-----------------------------------------------------------------------------
LedgerInit ==
  /\ ledger = <<>> /\ copies = <<>> /\ program = <<>> /\ marked = <<>>
  /\ stage = "insert"
  /\ temporary = [w \in Writers |-> "absent"]
  /\ writing = [w \in Writers |-> "idle"]
  /\ file = NoFile

LedgerNext ==
  \/ \E reason \in Reasons : Insert(reason)
  \/ InsertUnsafe
  \/ \E r \in DOMAIN ledger : Duplicate(r) \/ Unreached(r) \/ Prune(r)
  \/ BeginExpand
  \/ LateCall
  \/ \E r \in DOMAIN ledger, rule \in {"stays", "dominated", "merged"} :
       Expand(r, rule)
  \/ Finish
  \/ \E w \in Writers : Create(w) \/ Write(w) \/ Rename(w) \/ Killed(w)

LedgerSpec == LedgerInit /\ [][LedgerNext]_ledgerVars

-----------------------------------------------------------------------------
(* Properties.                                                             *)
(***************************************************************************)

\* A row the ledger calls guarded has a check in the program, whatever the
\* optimizer copied and removed.
GuardedIsChecked ==
  stage = "finished" =>
    \A r \in DOMAIN ledger : ledger[r].outcome = "guarded" => program[r] > 0

\* An access the ledger calls proven has no check left: no copy that stays
\* is forgotten.
ProvenIsUnchecked ==
  stage = "finished" =>
    \A r \in DOMAIN ledger :
      ledger[r].outcome = "proven" /\ ledger[r].inserted \in {"access", "range"}
        => program[r] = 0

\* What the ledger says of a row is so (EnforcementLedger::finish).
LedgerExact == GuardedIsChecked /\ ProvenIsUnchecked

\* The ledger file is one writer's whole text, whoever fails or is killed,
\* and a writer that was not killed leaves no temporary file.
LedgerFileWhole ==
  /\ file.whole
  /\ \A w \in Writers :
       writing[w] \in {"done", "failed"} => temporary[w] = "absent"
=============================================================================
