---------------------------- MODULE LedgerProofs ----------------------------
(***************************************************************************)
(* Proofs about Ledger for any number of rows, copies and writers, and     *)
(* about LibraryRows and LibraryCalls for any entries, names and rows of   *)
(* the table and any memory.                                               *)
(***************************************************************************)
EXTENDS Ledger, LibraryRows, LibraryCalls, SequenceTheorems,
        NaturalsInduction, WellFoundedInduction, TLAPS

-----------------------------------------------------------------------------
(* The inductive invariant.  Until the ledger is settled its four columns  *)
(* are sequences of one length, and the rows are as they were added.       *)
(***************************************************************************)
RowSet == [outcome : {"guarded", "unguarded"}, reason : Reasons \cup {"unsafe"},
           inserted : Reasons \cup {"unsafe"}]
CopyReasons == {"", "in-bounds", "stays", "dominated", "merged", "checked-call"}
CopySet == [stay : Nat, removed : Nat, reason : CopyReasons]

Open == stage \in {"insert", "expand"}

ColumnsOK ==
  /\ stage \in {"insert", "expand", "finished"}
  /\ Open =>
       /\ ledger \in Seq(RowSet) /\ copies \in Seq(CopySet)
       /\ program \in Seq(Nat) /\ marked \in Seq(Nat)
       /\ Len(copies) = Len(ledger) /\ Len(program) = Len(ledger)
       /\ Len(marked) = Len(ledger)
       /\ \A r \in 1..Len(ledger) : ledger[r].reason = ledger[r].inserted

\* What the columns of one row say of each other.  The checks of an access
\* are those that still have a marker and those that were noted to stay; no
\* copy of a string's guard is noted, and a call has no marker.
RowExact(line, seen, tests, markers, at) ==
  /\ line.inserted \in {"access", "range"} => tests = markers + seen.stay
  /\ line.inserted = "string" => seen.stay = 0
  /\ line.inserted \in {"checked-call", "unsafe"} =>
       markers = 0 /\ (seen.stay > 0 => tests > 0)
  /\ at = "insert" => seen.stay = 0

ColumnsExact ==
  Open => \A r \in 1..Len(ledger) :
            RowExact(ledger[r], copies[r], program[r], marked[r], stage)

\* A temporary file is whole once written, and gone when its writer ends.
WritersExact ==
  /\ temporary \in [Writers -> {"absent", "empty", "part", "whole"}]
  /\ writing \in [Writers -> {"idle", "created", "written", "done", "failed", "killed"}]
  /\ \A w \in Writers : writing[w] = "written" => temporary[w] = "whole"
  /\ \A w \in Writers : writing[w] \in {"idle", "done", "failed"} => temporary[w] = "absent"

LedgerInv ==
  /\ ColumnsOK
  /\ ColumnsExact
  /\ LedgerExact
  /\ WritersExact
  /\ file.whole

-----------------------------------------------------------------------------
(* The rows.                                                               *)
(***************************************************************************)

\* EnforcementLedger::add, with a row whose columns agree.
LEMMA AddInv ==
  ASSUME LedgerInv, Open, stage' = stage, UNCHANGED fileVars,
         NEW line \in RowSet, line.reason = line.inserted, NEW seen \in CopySet,
         NEW tests \in Nat, NEW markers \in Nat,
         RowExact(line, seen, tests, markers, stage),
         Add(line, tests, markers), copies' = Append(copies, seen)
  PROVE  LedgerInv'
<1>. DEFINE n == Len(ledger)
<1>1. /\ ledger \in Seq(RowSet) /\ copies \in Seq(CopySet) /\ program \in Seq(Nat)
      /\ marked \in Seq(Nat) /\ Len(copies) = n /\ Len(program) = n /\ Len(marked) = n
      /\ n \in Nat
  BY LenProperties DEF LedgerInv, ColumnsOK
<1>2. /\ ledger' = Append(ledger, line) /\ program' = Append(program, tests)
      /\ marked' = Append(marked, markers)
  BY DEF Add
<1>3. /\ ledger' \in Seq(RowSet) /\ copies' \in Seq(CopySet) /\ program' \in Seq(Nat)
      /\ marked' \in Seq(Nat) /\ Len(ledger') = n + 1 /\ Len(copies') = n + 1
      /\ Len(program') = n + 1 /\ Len(marked') = n + 1
  BY <1>1, <1>2, AppendProperties
<1>4. /\ ledger'[n + 1] = line /\ copies'[n + 1] = seen /\ program'[n + 1] = tests
      /\ marked'[n + 1] = markers
  BY <1>1, <1>2, AppendProperties
<1>5. \A r \in 1..n : /\ ledger'[r] = ledger[r] /\ copies'[r] = copies[r]
                      /\ program'[r] = program[r] /\ marked'[r] = marked[r]
  BY <1>1, <1>2, AppendProperties
<1>6. \A r \in 1..(n + 1) : r \in 1..n \/ r = n + 1
  BY <1>1
<1>7. Open' /\ stage' # "finished" /\ (stage' = "insert" <=> stage = "insert")
  BY DEF Open
<1>8. ColumnsOK'
  <2>1. \A r \in 1..(n + 1) : ledger'[r].reason = ledger'[r].inserted
    BY <1>4, <1>5, <1>6 DEF LedgerInv, ColumnsOK
  <2>. QED
    BY <1>3, <1>7, <2>1 DEF ColumnsOK, Open
<1>9. ColumnsExact'
  <2>1. \A r \in 1..(n + 1) :
          RowExact(ledger'[r], copies'[r], program'[r], marked'[r], stage)
    BY <1>4, <1>5, <1>6 DEF LedgerInv, ColumnsExact
  <2>. QED
    BY <1>3, <2>1 DEF ColumnsExact
<1>10. LedgerExact'
  BY <1>7 DEF LedgerExact, GuardedIsChecked, ProvenIsUnchecked
<1>11. WritersExact' /\ file'.whole
  BY DEF LedgerInv, WritersExact, fileVars
<1>. QED
  BY <1>8, <1>9, <1>10, <1>11 DEF LedgerInv

\* A step that changes the checks, markers and copies of one row, and leaves
\* its columns in agreement.
LEMMA ChangeInv ==
  ASSUME LedgerInv, Open, UNCHANGED <<ledger, stage>>, UNCHANGED fileVars,
         NEW r \in 1..Len(ledger), NEW seen \in CopySet, NEW tests \in Nat,
         NEW markers \in Nat, RowExact(ledger[r], seen, tests, markers, stage),
         copies' = [copies EXCEPT ![r] = seen] \/ (copies' = copies /\ seen = copies[r]),
         program' = [program EXCEPT ![r] = tests]
           \/ (program' = program /\ tests = program[r]),
         marked' = [marked EXCEPT ![r] = markers]
  PROVE  LedgerInv'
<1>. DEFINE n == Len(ledger)
<1>1. /\ ledger \in Seq(RowSet) /\ copies \in Seq(CopySet) /\ program \in Seq(Nat)
      /\ marked \in Seq(Nat) /\ Len(copies) = n /\ Len(program) = n /\ Len(marked) = n
      /\ n \in Nat
  BY LenProperties DEF LedgerInv, ColumnsOK
<1>2. /\ copies' \in Seq(CopySet) /\ Len(copies') = n /\ copies'[r] = seen
      /\ \A q \in 1..n : q # r => copies'[q] = copies[q]
  <2>1. CASE copies' = [copies EXCEPT ![r] = seen]
    BY <1>1, <2>1, ExceptSeq
  <2>2. CASE copies' = copies /\ seen = copies[r]
    BY <1>1, <2>2
  <2>. QED
    BY <2>1, <2>2
<1>3. /\ program' \in Seq(Nat) /\ Len(program') = n /\ program'[r] = tests
      /\ \A q \in 1..n : q # r => program'[q] = program[q]
  <2>1. CASE program' = [program EXCEPT ![r] = tests]
    BY <1>1, <2>1, ExceptSeq
  <2>2. CASE program' = program /\ tests = program[r]
    BY <1>1, <2>2
  <2>. QED
    BY <2>1, <2>2
<1>4. /\ marked' \in Seq(Nat) /\ Len(marked') = n /\ marked'[r] = markers
      /\ \A q \in 1..n : q # r => marked'[q] = marked[q]
  BY <1>1, ExceptSeq
<1>5. Open' /\ stage' # "finished"
  BY DEF Open
<1>6. ColumnsOK'
  BY <1>1, <1>2, <1>3, <1>4, <1>5 DEF LedgerInv, ColumnsOK, Open
<1>7. ColumnsExact'
  <2>1. \A q \in 1..n : RowExact(ledger[q], copies'[q], program'[q], marked'[q], stage)
    <3>. SUFFICES ASSUME NEW q \in 1..n
                  PROVE  RowExact(ledger[q], copies'[q], program'[q], marked'[q], stage)
      OBVIOUS
    <3>1. CASE q = r
      BY <1>2, <1>3, <1>4, <3>1
    <3>2. CASE q # r
      BY <1>2, <1>3, <1>4, <3>2 DEF LedgerInv, ColumnsExact
    <3>. QED
      BY <3>1, <3>2
  <2>. QED
    BY <2>1 DEF ColumnsExact
<1>8. LedgerExact'
  BY <1>5 DEF LedgerExact, GuardedIsChecked, ProvenIsUnchecked
<1>9. WritersExact' /\ file'.whole
  BY DEF LedgerInv, WritersExact, fileVars
<1>. QED
  BY <1>6, <1>7, <1>8, <1>9 DEF LedgerInv

\* What is known of one row of an open ledger.
LEMMA RowFacts ==
  ASSUME LedgerInv, Open, NEW r \in DOMAIN ledger
  PROVE  /\ r \in 1..Len(ledger)
         /\ ledger[r] \in RowSet /\ ledger[r].reason = ledger[r].inserted
         /\ copies[r] \in CopySet /\ program[r] \in Nat /\ marked[r] \in Nat
         /\ RowExact(ledger[r], copies[r], program[r], marked[r], stage)
<1>1. /\ ledger \in Seq(RowSet) /\ copies \in Seq(CopySet) /\ program \in Seq(Nat)
      /\ marked \in Seq(Nat) /\ Len(copies) = Len(ledger) /\ Len(program) = Len(ledger)
      /\ Len(marked) = Len(ledger)
  BY DEF LedgerInv, ColumnsOK
<1>2. r \in 1..Len(ledger)
  BY <1>1, LenProperties
<1>. QED
  BY <1>1, <1>2, LenProperties DEF LedgerInv, ColumnsOK, ColumnsExact

\* EnforcementLedger::copy counts a copy that stays, or one removed.
LEMMA CopyCounts ==
  ASSUME NEW seen \in CopySet, NEW why \in CopyReasons
  PROVE  /\ Copy(seen, TRUE, why) \in CopySet
         /\ Copy(seen, TRUE, why).stay = seen.stay + 1
         /\ Copy(seen, FALSE, why) \in CopySet
         /\ Copy(seen, FALSE, why).stay = seen.stay
<1>1. Copy(seen, TRUE, why) = [seen EXCEPT !.stay = seen.stay + 1]
  BY DEF Copy
<1>2. Copy(seen, FALSE, why) = [seen EXCEPT !.removed = seen.removed + 1, !.reason = why]
  BY DEF Copy
<1>3. seen.stay + 1 \in Nat /\ seen.removed + 1 \in Nat
  BY DEF CopySet
<1>4. /\ [seen EXCEPT !.stay = seen.stay + 1] \in CopySet
      /\ [seen EXCEPT !.stay = seen.stay + 1].stay = seen.stay + 1
  BY <1>3 DEF CopySet
<1>5. /\ [seen EXCEPT !.removed = seen.removed + 1, !.reason = why] \in CopySet
      /\ [seen EXCEPT !.removed = seen.removed + 1, !.reason = why].stay = seen.stay
  BY <1>3 DEF CopySet
<1>. QED
  BY <1>1, <1>2, <1>4, <1>5

\* The rows that are added: guards, unsafe accesses and late calls.
LEMMA InsertInv ==
  ASSUME LedgerInv,
         (\E reason \in Reasons : Insert(reason)) \/ InsertUnsafe \/ LateCall
  PROVE  LedgerInv'
<1>1. NoCopies \in CopySet /\ NoCopies.stay = 0
  BY DEF NoCopies, CopySet, CopyReasons
<1>2. ASSUME NEW reason \in Reasons, Insert(reason) PROVE LedgerInv'
  <2>. DEFINE line == Row("guarded", reason)
              markers == IF reason = "checked-call" THEN 0 ELSE 1
  <2>1. line \in RowSet /\ line.reason = reason /\ line.inserted = reason
    BY DEF Row, RowSet
  <2>2. /\ Open /\ stage' = stage /\ UNCHANGED fileVars /\ Add(line, 1, markers)
        /\ copies' = Append(copies, NoCopies) /\ markers \in Nat
        /\ (reason = "checked-call" => markers = 0)
        /\ (reason # "checked-call" => markers = 1)
    BY <1>2 DEF Insert, Open
  <2>. HIDE DEF line, markers
  <2>3. RowExact(line, NoCopies, 1, markers, stage)
    <3>1. NoCopies.stay = 0 /\ 1 = 1 + NoCopies.stay
      BY <1>1
    <3>2. CASE reason = "checked-call"
      BY <2>1, <2>2, <3>1, <3>2 DEF RowExact
    <3>3. CASE reason # "checked-call"
      <4>1. markers = 1 /\ reason \in {"access", "range", "string"}
        BY <2>2, <3>3 DEF Reasons
      <4>. QED
        BY <2>1, <3>1, <4>1 DEF RowExact
    <3>. QED
      BY <3>2, <3>3
  <2>. QED
    BY <1>1, <2>1, <2>2, <2>3, AddInv
<1>3. CASE InsertUnsafe
  <2>. DEFINE line == Row("unguarded", "unsafe")
  <2>1. line \in RowSet /\ line.reason = "unsafe" /\ line.inserted = "unsafe"
    BY DEF Row, RowSet
  <2>2. /\ Open /\ stage' = stage /\ UNCHANGED fileVars /\ Add(line, 0, 0)
        /\ copies' = Append(copies, NoCopies)
    BY <1>3 DEF InsertUnsafe, Open
  <2>. HIDE DEF line
  <2>3. RowExact(line, NoCopies, 0, 0, stage)
    BY <1>1, <2>1 DEF RowExact
  <2>. QED
    BY <1>1, <2>1, <2>2, <2>3, AddInv
<1>4. CASE LateCall
  <2>. DEFINE line == Row("guarded", "checked-call")
              seen == Copy(NoCopies, TRUE, "checked-call")
  <2>1. line \in RowSet /\ line.reason = "checked-call" /\ line.inserted = "checked-call"
    BY DEF Row, RowSet, Reasons
  <2>2. /\ Open /\ stage = "expand" /\ stage' = stage /\ UNCHANGED fileVars
        /\ Add(line, 1, 0) /\ copies' = Append(copies, seen)
    BY <1>4 DEF LateCall, Open
  <2>3. seen \in CopySet /\ seen.stay = 1
    <3>1. seen \in CopySet /\ seen.stay = NoCopies.stay + 1
      BY <1>1, CopyCounts DEF CopyReasons
    <3>. HIDE DEF seen
    <3>. QED
      BY <1>1, <3>1
  <2>. HIDE DEF line, seen
  <2>4. RowExact(line, seen, 1, 0, stage)
    BY <2>1, <2>2, <2>3 DEF RowExact
  <2>. QED
    BY <2>1, <2>2, <2>3, <2>4, AddInv
<1>. QED
  BY <1>2, <1>3, <1>4

\* The optimizer's copies and removals, and pruneGuards.
LEMMA OptimizeInv ==
  ASSUME LedgerInv, NEW r \in DOMAIN ledger, Duplicate(r) \/ Unreached(r) \/ Prune(r)
  PROVE  LedgerInv'
<1>1. Open /\ stage = "insert" /\ UNCHANGED <<ledger, stage>> /\ UNCHANGED fileVars
  BY DEF Duplicate, Unreached, Prune, Open
<1>2. /\ r \in 1..Len(ledger)
      /\ ledger[r] \in RowSet /\ ledger[r].reason = ledger[r].inserted
      /\ copies[r] \in CopySet /\ program[r] \in Nat /\ marked[r] \in Nat
      /\ RowExact(ledger[r], copies[r], program[r], marked[r], stage)
  BY <1>1, RowFacts
<1>3. /\ copies[r].stay = 0
      /\ ledger[r].inserted \in {"access", "range"} => program[r] = marked[r]
      /\ ledger[r].inserted \in {"checked-call", "unsafe"} => marked[r] = 0
  <2>1. copies[r].stay = 0
    BY <1>1, <1>2 DEF RowExact
  <2>. QED
    BY <1>2, <2>1 DEF RowExact
<1>4. CASE Duplicate(r)
  <2>. DEFINE tests == program[r] + 1
              markers == IF marked[r] = 0 THEN 0 ELSE marked[r] + 1
  <2>1. /\ copies' = copies /\ program' = [program EXCEPT ![r] = tests]
        /\ marked' = [marked EXCEPT ![r] = markers] /\ program[r] > 0
    BY <1>4 DEF Duplicate
  <2>2. /\ tests \in Nat /\ markers \in Nat
        /\ (program[r] = marked[r] => tests = markers)
        /\ (marked[r] = 0 => markers = 0)
    BY <1>2, <2>1
  <2>. HIDE DEF tests, markers
  <2>3. RowExact(ledger[r], copies[r], tests, markers, stage)
    BY <1>3, <2>2 DEF RowExact
  <2>. QED
    BY <1>1, <1>2, <2>1, <2>2, <2>3, ChangeInv
<1>5. CASE Unreached(r)
  <2>. DEFINE tests == program[r] - 1
              markers == IF marked[r] = 0 THEN 0 ELSE marked[r] - 1
  <2>1. /\ copies' = copies /\ program' = [program EXCEPT ![r] = tests]
        /\ marked' = [marked EXCEPT ![r] = markers] /\ program[r] > 0
    BY <1>5 DEF Unreached
  <2>2. /\ tests \in Nat /\ markers \in Nat
        /\ (program[r] = marked[r] => tests = markers)
        /\ (marked[r] = 0 => markers = 0)
    BY <1>2, <2>1
  <2>. HIDE DEF tests, markers
  <2>3. RowExact(ledger[r], copies[r], tests, markers, stage)
    BY <1>3, <2>2 DEF RowExact
  <2>. QED
    BY <1>1, <1>2, <2>1, <2>2, <2>3, ChangeInv
<1>6. CASE Prune(r)
  <2>. DEFINE tests == program[r] - 1
              markers == marked[r] - 1
              seen == Copy(copies[r], FALSE, "in-bounds")
  <2>1. /\ copies' = [copies EXCEPT ![r] = seen]
        /\ program' = [program EXCEPT ![r] = tests]
        /\ marked' = [marked EXCEPT ![r] = markers]
        /\ marked[r] > 0 /\ ledger[r].inserted \in {"access", "range"}
    BY <1>2, <1>6 DEF Prune
  <2>2. seen \in CopySet /\ seen.stay = 0
    BY <1>2, <1>3, CopyCounts DEF CopyReasons
  <2>3. tests \in Nat /\ markers \in Nat /\ tests = markers
    BY <1>2, <1>3, <2>1
  <2>. HIDE DEF tests, markers, seen
  <2>4. RowExact(ledger[r], seen, tests, markers, stage)
    BY <2>1, <2>2, <2>3 DEF RowExact
  <2>. QED
    BY <1>1, <1>2, <2>1, <2>2, <2>3, <2>4, ChangeInv
<1>. QED
  BY <1>4, <1>5, <1>6

\* expandGuards: the marker's check is noted, whether it stays or not.
LEMMA ExpandInv ==
  ASSUME LedgerInv, NEW r \in DOMAIN ledger, NEW rule \in {"stays", "dominated", "merged"},
         Expand(r, rule)
  PROVE  LedgerInv'
<1>1. /\ Open /\ stage = "expand" /\ UNCHANGED <<ledger, stage>> /\ UNCHANGED fileVars
      /\ marked[r] > 0 /\ marked' = [marked EXCEPT ![r] = marked[r] - 1]
  BY DEF Expand, Open
<1>2. /\ r \in 1..Len(ledger)
      /\ ledger[r] \in RowSet /\ ledger[r].reason = ledger[r].inserted
      /\ copies[r] \in CopySet /\ program[r] \in Nat /\ marked[r] \in Nat
      /\ RowExact(ledger[r], copies[r], program[r], marked[r], stage)
  BY <1>1, RowFacts
<1>3. marked[r] - 1 \in Nat
  BY <1>1, <1>2
<1>4. CASE ledger[r].reason = "string"
  <2>1. copies' = copies /\ program' = program
    BY <1>4 DEF Expand
  <2>2. RowExact(ledger[r], copies[r], program[r], marked[r] - 1, stage)
    BY <1>1, <1>2, <1>4 DEF RowExact
  <2>. QED
    BY <1>1, <1>2, <1>3, <2>1, <2>2, ChangeInv
<1>5. CASE ledger[r].reason # "string"
  <2>. DEFINE tests == IF rule = "stays" THEN program[r] ELSE program[r] - 1
              seen == Copy(copies[r], rule = "stays", rule)
  <2>1. /\ copies' = [copies EXCEPT ![r] = seen]
        /\ program' = [program EXCEPT ![r] = tests]
    BY <1>5 DEF Expand
  <2>2. ledger[r].inserted \in {"access", "range"}
    BY <1>1, <1>2, <1>5 DEF RowExact, RowSet, Reasons
  <2>3. program[r] = marked[r] + copies[r].stay /\ copies[r].stay \in Nat
    BY <1>2, <2>2 DEF RowExact, CopySet
  <2>4. /\ seen \in CopySet
        /\ seen.stay = IF rule = "stays" THEN copies[r].stay + 1 ELSE copies[r].stay
    <3>1. rule \in CopyReasons
      BY DEF CopyReasons
    <3>2. CASE rule = "stays"
      BY <1>2, <3>1, <3>2, CopyCounts
    <3>3. CASE rule # "stays"
      BY <1>2, <3>1, <3>3, CopyCounts
    <3>. QED
      BY <3>2, <3>3
  <2>. HIDE DEF seen
  <2>5. tests \in Nat /\ tests = (marked[r] - 1) + seen.stay
    <3>1. CASE rule = "stays"
      BY <1>2, <2>3, <2>4, <3>1
    <3>2. CASE rule # "stays"
      BY <1>1, <1>2, <2>3, <2>4, <3>2
    <3>. QED
      BY <3>1, <3>2
  <2>6. RowExact(ledger[r], seen, tests, marked[r] - 1, stage)
    BY <1>1, <2>2, <2>5 DEF RowExact
  <2>. HIDE DEF tests
  <2>. QED
    BY <1>1, <1>2, <1>3, <2>1, <2>4, <2>5, <2>6, ChangeInv
<1>. QED
  BY <1>4, <1>5

\* EnforcementLedger::finish: no marker is left, so a row without a copy
\* that stays has no check.
LEMMA FinishInv ==
  ASSUME LedgerInv, Finish
  PROVE  LedgerInv'
<1>1. /\ Open /\ stage' = "finished" /\ \A r \in DOMAIN ledger : marked[r] = 0
      /\ ledger' = [r \in DOMAIN ledger |-> Settle(ledger[r], copies[r])]
      /\ program' = program /\ UNCHANGED fileVars
  BY DEF Finish, Open
<1>2. ColumnsOK' /\ ColumnsExact'
  BY <1>1 DEF ColumnsOK, ColumnsExact, Open
<1>3. LedgerExact'
  <2>. SUFFICES ASSUME NEW r \in DOMAIN ledger
                PROVE  /\ ledger'[r].outcome = "guarded" => program[r] > 0
                       /\ ledger'[r].outcome = "proven"
                            /\ ledger'[r].inserted \in {"access", "range"} => program[r] = 0
    BY <1>1 DEF LedgerExact, GuardedIsChecked, ProvenIsUnchecked
  <2>1. /\ ledger[r] \in RowSet /\ ledger[r].reason = ledger[r].inserted
        /\ copies[r] \in CopySet /\ program[r] \in Nat /\ marked[r] = 0
        /\ RowExact(ledger[r], copies[r], program[r], marked[r], stage)
    BY <1>1, RowFacts
  <2>2. ledger'[r] = Settle(ledger[r], copies[r])
    BY <1>1
  <2>3. copies[r].stay \in Nat
    BY <2>1 DEF CopySet
  <2>4. CASE ledger[r].outcome = "guarded" /\ copies[r].stay = 0
    <3>1. PICK why : ledger'[r] = Proven(ledger[r], why)
      BY <2>2, <2>4 DEF Settle
    <3>2. ledger'[r].outcome = "proven" /\ ledger'[r].inserted = ledger[r].inserted
      BY <2>1, <3>1 DEF Proven, RowSet
    <3>3. ledger[r].inserted \in {"access", "range"} => program[r] = 0
      BY <2>1, <2>4 DEF RowExact
    <3>. QED
      BY <3>2, <3>3
  <2>5. CASE ~(ledger[r].outcome = "guarded" /\ copies[r].stay = 0)
    <3>1. ledger'[r] = ledger[r]
      BY <2>2, <2>5 DEF Settle
    <3>2. ledger[r].outcome # "proven"
      BY <2>1 DEF RowSet
    <3>3. ledger[r].outcome = "guarded" => copies[r].stay > 0
      BY <2>3, <2>5
    <3>4. copies[r].stay > 0 => program[r] > 0
      <4>1. ledger[r].inserted \in {"access", "range", "string", "checked-call", "unsafe"}
        BY <2>1 DEF RowSet, Reasons
      <4>. QED
        BY <2>1, <2>3, <4>1 DEF RowExact
    <3>. QED
      BY <3>1, <3>2, <3>3, <3>4
  <2>. QED
    BY <2>4, <2>5
<1>4. WritersExact' /\ file'.whole
  BY <1>1 DEF LedgerInv, WritersExact, fileVars
<1>. QED
  BY <1>2, <1>3, <1>4 DEF LedgerInv

-----------------------------------------------------------------------------
(* The writers.                                                            *)
(***************************************************************************)
LEMMA WriterInv ==
  ASSUME LedgerInv, NEW w \in Writers, Create(w) \/ Write(w) \/ Rename(w) \/ Killed(w)
  PROVE  LedgerInv'
<1>1. UNCHANGED <<ledger, copies, program, marked, stage>>
  BY DEF Create, Write, Rename, Killed, tableVars
<1>2. ColumnsOK' /\ ColumnsExact' /\ LedgerExact'
  BY <1>1 DEF LedgerInv, ColumnsOK, ColumnsExact, Open, LedgerExact, GuardedIsChecked,
     ProvenIsUnchecked
<1>3. WritersExact'
  BY DEF LedgerInv, WritersExact, Create, Write, Rename, Killed
<1>4. file'.whole
  <2>1. CASE file' = file
    BY <2>1 DEF LedgerInv
  <2>2. CASE file' # file
    <3>1. file' = [of |-> w, whole |-> temporary[w] = "whole"] /\ writing[w] = "written"
      BY <2>2 DEF Create, Write, Rename, Killed
    <3>2. temporary[w] = "whole"
      BY <3>1 DEF LedgerInv, WritersExact
    <3>. QED
      BY <3>1, <3>2
  <2>. QED
    BY <2>1, <2>2
<1>. QED
  BY <1>2, <1>3, <1>4 DEF LedgerInv

-----------------------------------------------------------------------------
(* The theorems.                                                           *)
(***************************************************************************)
LEMMA LedgerInvariance == LedgerSpec => []LedgerInv
<1>1. LedgerInit => LedgerInv
  <2>. SUFFICES ASSUME LedgerInit PROVE LedgerInv
    OBVIOUS
  <2>1. ColumnsOK /\ ColumnsExact
    BY EmptySeq DEF LedgerInit, ColumnsOK, ColumnsExact
  <2>2. LedgerExact
    BY DEF LedgerInit, LedgerExact, GuardedIsChecked, ProvenIsUnchecked
  <2>3. WritersExact
    BY DEF LedgerInit, WritersExact
  <2>4. file.whole
    BY DEF LedgerInit, NoFile
  <2>. QED
    BY <2>1, <2>2, <2>3, <2>4 DEF LedgerInv
<1>2. LedgerInv /\ [LedgerNext]_ledgerVars => LedgerInv'
  <2>. SUFFICES ASSUME LedgerInv, [LedgerNext]_ledgerVars PROVE LedgerInv'
    OBVIOUS
  <2>1. CASE (\E reason \in Reasons : Insert(reason)) \/ InsertUnsafe \/ LateCall
    BY <2>1, InsertInv
  <2>2. ASSUME NEW r \in DOMAIN ledger, Duplicate(r) \/ Unreached(r) \/ Prune(r)
        PROVE  LedgerInv'
    BY <2>2, OptimizeInv
  <2>3. ASSUME NEW r \in DOMAIN ledger, NEW rule \in {"stays", "dominated", "merged"},
               Expand(r, rule)
        PROVE  LedgerInv'
    BY <2>3, ExpandInv
  <2>4. CASE BeginExpand
    <3>1. /\ stage = "insert" /\ stage' = "expand"
          /\ UNCHANGED <<ledger, copies, program, marked>> /\ UNCHANGED fileVars
      BY <2>4 DEF BeginExpand
    <3>2. ColumnsOK'
      BY <3>1 DEF LedgerInv, ColumnsOK, Open
    <3>3. ColumnsExact'
      BY <3>1 DEF LedgerInv, ColumnsExact, Open, RowExact
    <3>4. LedgerExact'
      BY <3>1 DEF LedgerExact, GuardedIsChecked, ProvenIsUnchecked
    <3>5. WritersExact' /\ file'.whole
      BY <3>1 DEF LedgerInv, WritersExact, fileVars
    <3>. QED
      BY <3>2, <3>3, <3>4, <3>5 DEF LedgerInv
  <2>5. CASE Finish
    BY <2>5, FinishInv
  <2>6. ASSUME NEW w \in Writers, Create(w) \/ Write(w) \/ Rename(w) \/ Killed(w)
        PROVE  LedgerInv'
    BY <2>6, WriterInv
  <2>7. CASE UNCHANGED ledgerVars
    BY <2>7 DEF ledgerVars, LedgerInv, ColumnsOK, ColumnsExact, Open, LedgerExact,
       GuardedIsChecked, ProvenIsUnchecked, WritersExact
  <2>. QED
    BY <2>1, <2>2, <2>3, <2>4, <2>5, <2>6, <2>7 DEF LedgerNext
<1>. QED
  BY <1>1, <1>2, PTL DEF LedgerSpec

\* A settled row says what the program has, however the optimizer copied
\* and removed its checks before and between the passes: guarded means a
\* check, proven means that none was forgotten.
THEOREM LedgerTrue == LedgerSpec => []LedgerExact
<1>1. LedgerInv => LedgerExact
  BY DEF LedgerInv
<1>. QED
  BY <1>1, LedgerInvariance, PTL

\* Compilers that write one ledger file at once, fail or are killed leave it
\* whole, and no temporary file of one that ended.
THEOREM LedgerFileNeverTorn == LedgerSpec => []LedgerFileWhole
<1>1. LedgerInv => LedgerFileWhole
  BY DEF LedgerInv, WritersExact, LedgerFileWhole
<1>. QED
  BY <1>1, LedgerInvariance, PTL

-----------------------------------------------------------------------------
(***************************************************************************)
(* LibraryRows: the table of library functions.                            *)
(***************************************************************************)

\* The rows were accepted; the aliases of a table that was read are names of
\* nothing else; and the last answer is that of the table as it is, since
\* nothing is added to a table once it was read.
RowsInv ==
  /\ rows \in Seq(Entries)
  /\ \A r \in DOMAIN rows : EntryValid(rows[r])
  /\ table = "read" => AliasesFree
  /\ \/ asked = NotAsked /\ match = NoMatch
     \/ table = "read" /\ match = Resolve(asked.name, asked.count)

\* A set of numbers has a first one.
LEMMA FirstLeast ==
  ASSUME NEW S \in SUBSET Nat, S # {}
  PROVE  First(S) \in S
<1>1. OpToRel(<, Nat) = {s \in Nat \X Nat : s[1] < s[2]}
  BY DEF OpToRel
<1>2. \E x \in S : \A y \in S : ~(<<y, x>> \in OpToRel(<, Nat))
  BY NatLessThanWellFounded, WFMin, Zenon
<1>3. PICK x \in S : \A y \in S : ~(<<y, x>> \in {s \in Nat \X Nat : s[1] < s[2]})
  BY <1>1, <1>2, Zenon
<1>4. ASSUME NEW y \in S PROVE x <= y
  <2>1. /\ <<y, x>> \in Nat \X Nat /\ <<y, x>>[1] = y /\ <<y, x>>[2] = x
        /\ x \in Nat /\ y \in Nat
    OBVIOUS
  <2> QED BY <2>1, <1>3
<1> QED BY <1>4 DEF First

LEMMA RowsInitInv == RowsInit => RowsInv
  BY DEF RowsInit, RowsInv

\* Whether names are known does not depend on the lookups.
LEMMA LookupsApart ==
  ASSUME UNCHANGED rows
  PROVE  /\ AliasesFree' = AliasesFree
         /\ \A n, c : Resolve(n, c)' = Resolve(n, c)
  BY DEF AliasesFree, AllAliases, AliasName, RowsNamed, Resolve, RowFor, Fits

LEMMA RowsNextInv ==
  ASSUME RowsInv, [RowsNext]_rowVars
  PROVE  RowsInv'
<1>1. CASE ParseEntry
  <2>1. asked = NotAsked /\ match = NoMatch /\ UNCHANGED <<asked, match>>
        /\ table' # "read"
    BY <1>1 DEF ParseEntry, RowsInv
  <2>2. PICK entry \in Entries :
          \/ EntryValid(entry) /\ rows' = Append(rows, entry)
          \/ UNCHANGED rows
    BY <1>1 DEF ParseEntry
  <2>3. rows' \in Seq(Entries) /\ \A r \in DOMAIN rows' : EntryValid(rows'[r])
    <3>1. CASE UNCHANGED rows
      BY <3>1 DEF RowsInv
    <3>2. CASE EntryValid(entry) /\ rows' = Append(rows, entry)
      <4>1. /\ rows \in Seq(Entries) /\ Append(rows, entry) \in Seq(Entries)
            /\ \A i \in 1..(Len(rows) + 1) :
                 Append(rows, entry)[i] = IF i = Len(rows) + 1 THEN entry ELSE rows[i]
            /\ DOMAIN Append(rows, entry) = 1..(Len(rows) + 1)
            /\ DOMAIN rows = 1..Len(rows) /\ Len(rows) \in Nat
        BY AppendProperties DEF RowsInv
      <4> QED BY <3>2, <4>1 DEF RowsInv
    <3> QED BY <2>2, <3>1, <3>2
  <2>4. \A r \in DOMAIN rows' : EntryValid(rows[r])'
    BY <2>3 DEF EntryValid, TermValid, Scans, Pointer
  <2> QED BY <2>1, <2>3, <2>4 DEF RowsInv
<1>2. CASE EnterAliases
  BY <1>2, LookupsApart DEF EnterAliases, RowsInv, EntryValid, TermValid, Scans, Pointer
<1>3. CASE Lookup
  <2>1. PICK name \in Callees, c \in Counts :
          asked' = [name |-> name, count |-> c] /\ match' = Resolve(name, c)
    BY <1>3 DEF Lookup
  <2>2. match' = Resolve(asked.name, asked.count)'
    <3>1. asked'.name = name /\ asked'.count = c
      BY <2>1
    <3>2. Resolve(name, c)' = Resolve(name, c)
      BY <1>3, LookupsApart DEF Lookup
    <3>3. Resolve(asked.name, asked.count)' = Resolve(name, c)'
      BY <3>1 DEF Resolve, RowFor, Fits, AllAliases, AliasName, RowsNamed
    <3> QED BY <2>1, <3>2, <3>3
  <2> QED BY <1>3, <2>2, LookupsApart DEF Lookup, RowsInv, EntryValid, TermValid, Scans, Pointer
<1>4. CASE UNCHANGED rowVars
  <2>1. Resolve(asked.name, asked.count)' = Resolve(asked.name, asked.count)
    BY <1>4 DEF rowVars, Resolve, RowFor, Fits, AllAliases, AliasName, RowsNamed
  <2> QED BY <1>4, <2>1, LookupsApart DEF rowVars, RowsInv, EntryValid, TermValid, Scans, Pointer
<1> QED BY <1>1, <1>2, <1>3, <1>4 DEF RowsNext

\* A lookup by the name of rows answers with one of them.
LEMMA NameFound ==
  ASSUME RowsInv, AliasesFree, NEW n, NEW c, RowsNamed(n) # {}
  PROVE  /\ Resolve(n, c).alias = 0 /\ Resolve(n, c).row \in RowsNamed(n)
         /\ (\E r \in RowsNamed(n) : Fits(rows[r], c)) => Fits(rows[Resolve(n, c).row], c)
<1>1. ~ \E ra \in AllAliases : AliasName(ra) = n
  BY DEF AliasesFree
<1>2. Resolve(n, c) = [row |-> RowFor(RowsNamed(n), c), alias |-> 0]
  BY <1>1 DEF Resolve
<1> DEFINE fitting == {r \in RowsNamed(n) : Fits(rows[r], c)}
           S == IF fitting = {} THEN RowsNamed(n) ELSE fitting
<1>3. S \in SUBSET Nat /\ S # {} /\ S \subseteq RowsNamed(n)
  BY DEF RowsNamed, RowsInv
<1>4. RowFor(RowsNamed(n), c) = First(S)
  BY DEF RowFor
<1>5. fitting # {} => \A r \in S : Fits(rows[r], c)
  OBVIOUS
<1> HIDE DEF S
<1>6. First(S) \in S
  BY <1>3, FirstLeast
<1>7. (\E r \in RowsNamed(n) : Fits(rows[r], c)) => fitting # {}
  OBVIOUS
<1>8. Resolve(n, c).row = First(S) /\ Resolve(n, c).alias = 0
  BY <1>2, <1>4
<1> HIDE DEF fitting
<1> QED BY <1>3, <1>5, <1>6, <1>7, <1>8

\* An answer is a row of the table, under its own name or an alias of it.
LEMMA AnswerInTable ==
  ASSUME RowsInv, AliasesFree, NEW n, NEW c, Resolve(n, c) # NoMatch
  PROVE  /\ Resolve(n, c).row \in DOMAIN rows
         /\ \/ Resolve(n, c).alias = 0
            \/ Resolve(n, c).alias \in DOMAIN rows[Resolve(n, c).row].chk
<1> DEFINE other == <<FALSE, n[2]>>
           known(m) == \/ RowsNamed(m) # {}
                       \/ \E ra \in AllAliases : AliasName(ra) = m
           found(m) == IF \E ra \in AllAliases : AliasName(ra) = m
                       THEN LET ra == CHOOSE ra \in AllAliases : AliasName(ra) = m
                            IN [row |-> ra[1], alias |-> ra[2]]
                       ELSE [row |-> RowFor(RowsNamed(m), c), alias |-> 0]
<1>1. \/ known(n) /\ Resolve(n, c) = found(n)
      \/ known(other) /\ Resolve(n, c) = found(other)
  BY DEF Resolve
<1>2. ASSUME NEW m, known(m)
      PROVE  /\ found(m).row \in DOMAIN rows
             /\ found(m).alias = 0 \/ found(m).alias \in DOMAIN rows[found(m).row].chk
  <2>1. CASE \E ra \in AllAliases : AliasName(ra) = m
    <3> DEFINE a == CHOOSE ra \in AllAliases : AliasName(ra) = m
    <3>1. a \in AllAliases
      BY <2>1
    <3> HIDE DEF a
    <3>2. a[1] \in DOMAIN rows /\ a[2] \in DOMAIN rows[a[1]].chk
      BY <3>1 DEF AllAliases
    <3>3. found(m) = [row |-> a[1], alias |-> a[2]]
      BY <2>1 DEF a
    <3> QED BY <3>2, <3>3
  <2>2. CASE ~ \E ra \in AllAliases : AliasName(ra) = m
    <3>1. RowsNamed(m) # {}
      BY <1>2, <2>2
    <3> DEFINE fitting == {r \in RowsNamed(m) : Fits(rows[r], c)}
               S == IF fitting = {} THEN RowsNamed(m) ELSE fitting
    <3>2. S \in SUBSET Nat /\ S # {} /\ S \subseteq DOMAIN rows
      BY <3>1 DEF RowsNamed, RowsInv
    <3>3. RowFor(RowsNamed(m), c) = First(S)
      BY DEF RowFor
    <3> HIDE DEF S
    <3>4. First(S) \in S
      BY <3>2, FirstLeast
    <3> QED BY <2>2, <3>2, <3>3, <3>4
  <2> QED BY <2>1, <2>2
<1> HIDE DEF known, found
<1> QED BY <1>1, <1>2

LEMMA NumberingsOfMatch == RowsInv => NumberingsAgree
<1> SUFFICES ASSUME RowsInv, Matched,
                    NEW index \in 1..(Len(MatchedRow.params) + 2),
                    CallArgument(index) # 0
             PROVE  RowArgument(CallArgument(index)) = index
  BY DEF NumberingsAgree
<1>1. /\ match.row \in DOMAIN rows
      /\ match.alias = 0 \/ match.alias \in DOMAIN MatchedRow.chk
  BY AnswerInTable DEF RowsInv, Matched, MatchedRow
<1>2. MatchedRow \in Entries
  BY <1>1 DEF RowsInv, MatchedRow
<1>3. index \in Nat
  BY <1>2, EntriesAssumption DEF EntriesAssumption
<1>4. CASE match.alias = 0
  BY <1>4 DEF RowArgument, CallArgument
<1>5. CASE match.alias # 0
  <2> DEFINE map == ArgumentOf
             direct == {i \in DOMAIN map : map[i] = index}
  <2>1. map \in Seq(Nat)
    BY <1>1, <1>2, <1>5, EntriesAssumption DEF EntriesAssumption, ArgumentOf
  <2>2. DOMAIN map = 1..Len(map) /\ Len(map) \in Nat /\ \A i \in 1..Len(map) : map[i] \in Nat
    BY <2>1
  <2>3. CASE direct # {}
    <3>1. First(direct) \in direct
      <4>1. direct \in SUBSET Nat
        BY <2>2
      <4> HIDE DEF direct
      <4> QED BY <2>3, <4>1, FirstLeast
    <3>2. CallArgument(index) = First(direct)
      BY <1>5, <2>3 DEF CallArgument
    <3>3. RowArgument(First(direct)) = map[First(direct)]
      BY <1>5, <2>2, <3>1 DEF RowArgument
    <3> QED BY <3>1, <3>2, <3>3
  <2>4. CASE direct = {}
    <3>1. /\ MatchedRow.variadic /\ map # <<>> /\ map[Len(map)] # 0
          /\ ~(index <= map[Len(map)])
          /\ CallArgument(index) = Len(map) + (index - map[Len(map)])
      BY <1>5, <2>4 DEF CallArgument
    <3>2. Len(map) # 0
      BY <2>1, <3>1, EmptySeq
    <3> DEFINE last == map[Len(map)]
               at == Len(map) + (index - last)
    <3>3. last \in Nat /\ index > last
      BY <1>3, <2>2, <3>1, <3>2
    <3>4. RowArgument(at) = last + (at - Len(map))
      <4>1. ~(at <= Len(map))
        <5> HIDE DEF last
        <5> QED BY <1>3, <2>2, <3>3
      <4> QED BY <1>5, <3>1, <4>1 DEF RowArgument
    <3>5. last + (at - Len(map)) = index
      <4> HIDE DEF last
      <4> QED BY <1>3, <2>2, <3>3
    <3> QED BY <3>1, <3>4, <3>5
  <2> QED BY <2>3, <2>4
<1> QED BY <1>4, <1>5

LEMMA RowsOfTableUsable == RowsInv => RowsUsable
<1> SUFFICES ASSUME RowsInv, NEW r \in DOMAIN rows
             PROVE  LET entry == rows[r]
                        named == (UNION {entry.params[i].leaves : i \in DOMAIN entry.params})
                                   \cup entry.value
                    IN /\ {leaf[2] : leaf \in named} \subseteq DOMAIN entry.params
                       /\ \A f \in entry.format : f.format \in DOMAIN entry.params
                       /\ Scans(entry) # {} => entry.result # "void" /\ entry.wrapper = {}
  BY DEF RowsUsable
<1>1. rows[r] \in Entries /\ EntryValid(rows[r])
  BY DEF RowsInv
<1>2. ASSUME NEW leaf \in (UNION {rows[r].params[i].leaves : i \in DOMAIN rows[r].params})
                            \cup rows[r].value
      PROVE  leaf[2] \in DOMAIN rows[r].params
  <2>1. \/ leaf \in rows[r].value
        \/ \E i \in DOMAIN rows[r].params : leaf \in rows[r].params[i].leaves
    <3> DEFINE L == {rows[r].params[i].leaves : i \in DOMAIN rows[r].params}
    <3>1. leaf \in rows[r].value \/ leaf \in UNION L
      OBVIOUS
    <3> HIDE DEF L
    <3>2. leaf \in rows[r].value \/ \E l \in L : leaf \in l
      BY <3>1
    <3> QED BY <3>2 DEF L
  <2>2. /\ TermValid(rows[r], rows[r].value)
        /\ \A i \in DOMAIN rows[r].params : TermValid(rows[r], rows[r].params[i].leaves)
    BY <1>1 DEF EntryValid
  <2> QED BY <2>1, <2>2 DEF TermValid
<1>3. \A f \in rows[r].format : f.format \in DOMAIN rows[r].params
  BY <1>1, EntriesAssumption DEF EntriesAssumption, EntryValid
<1> QED BY <1>1, <1>2, <1>3 DEF EntryValid

\* For any entries, names and number of rows: a table that was accepted
\* answers a name with its row, numbers the arguments of an alias one way,
\* and has no row that cannot be used (LibrarySpec::parse, lookup,
\* LibraryMatch).
THEOREM TableExact == RowsSpec => []RowsExact
<1>1. RowsInv => RowsExact
  <2> SUFFICES ASSUME RowsInv PROVE NameMeansRow
    BY NumberingsOfMatch, RowsOfTableUsable DEF RowsExact
  <2> QED BY NameFound DEF NameMeansRow, RowsInv, MatchedRow
<1>2. RowsInv /\ [RowsNext]_rowVars => RowsInv'
  BY RowsNextInv
<1> QED BY <1>1, <1>2, RowsInitInv, PTL DEF RowsSpec

-----------------------------------------------------------------------------
(***************************************************************************)
(* LibraryCalls: what the passes make of a call.                           *)
(***************************************************************************)

\* The call as it was made.
InputsOK ==
  /\ row \in CallRows /\ call.unsafe \in BOOLEAN /\ call.constant \in BOOLEAN
  /\ \A i \in {1, 2} :
       /\ memory[i].room \in Nat /\ memory[i].zero \in 0..MaxRoom
       /\ memory[i].null \in BOOLEAN /\ memory[i].literal \in BOOLEAN
       /\ memory[i].null => memory[i].room = 0
       /\ memory[i].literal <=> memory[i].room = Untracked
  /\ count \in 0..(MaxRoom + 1) /\ halt \in Nat

Folds == row.stops

\* What the passes have done so far, by the kind of call.
DeferredOK ==
  \/ /\ form = "call" /\ checks = FirstBytes /\ callStage # "ready"
  \/ /\ form \in {"folded", "inlined", "gone"} /\ Folds /\ checks = FirstBytes
  \/ /\ form = "call" /\ CheapToGuard /\ checks = FirstBytes \cup GuardArguments
     /\ callStage = "ready"
  \/ /\ form = "checked" /\ checks = FirstBytes /\ callStage = "ready"

PassedOK ==
  IF call.unsafe THEN checks = {} /\ form \in {"call", "folded", "inlined", "gone"}
  ELSE IF Deferred THEN DeferredOK
  ELSE IF ~CheapToGuard /\ Redirects THEN form = "checked" /\ checks = {}
  ELSE form \in {"call", "value"} /\ checks = GuardArguments

CallsInv ==
  /\ InputsOK
  /\ callStage \in {"early", "optimize", "late", "ready"}
  /\ IF callStage = "early" THEN form = "call" /\ checks = {} ELSE PassedOK

\* The row's parameters, as the table gives them.
LEMMA ParamFacts ==
  ASSUME InputsOK
  PROVE  /\ Params = {1, 2} /\ Written \subseteq {1, 2}
         /\ row.stops => Deferred
         /\ Deferred => Written = {}
  BY CallRowsAssumption
  DEF CallRowsAssumption, InputsOK, Params, Deferred, OnlyReads, Written

LEMMA CallsInitInv == CallsInit => CallsInv
<1> SUFFICES ASSUME CallsInit PROVE CallsInv
  OBVIOUS
<1>1. Params = {1, 2} /\ MaxRoom \in Nat
  BY CallRowsAssumption DEF CallsInit, CallRowsAssumption, Params
<1>2. ASSUME NEW i \in {1, 2}
      PROVE  /\ memory[i].room \in Nat /\ memory[i].zero \in 0..MaxRoom
             /\ memory[i].null \in BOOLEAN /\ memory[i].literal \in BOOLEAN
             /\ memory[i].null => memory[i].room = 0
             /\ memory[i].literal <=> memory[i].room = Untracked
  <2> DEFINE R == [room : 0..MaxRoom \cup {Untracked}, zero : 0..MaxRoom,
                   null : BOOLEAN, literal : BOOLEAN]
  <2>1. /\ memory[i] \in R
        /\ memory[i].null => memory[i].room = 0 /\ memory[i].zero = 0
        /\ memory[i].literal <=> memory[i].room = Untracked
    BY <1>1 DEF CallsInit
  <2>2. memory[i].room \in 0..MaxRoom \cup {Untracked}
    BY <2>1
  <2> QED BY <1>1, <2>1, <2>2 DEF Untracked
<1> QED BY <1>1, <1>2 DEF CallsInit, CallsInv, InputsOK

\* Only the passes' own variables change.
LEMMA InputsKept ==
  ASSUME InputsOK, UNCHANGED inputVars
  PROVE  /\ InputsOK' /\ Params' = Params
         /\ FirstBytes' = FirstBytes /\ GuardArguments' = GuardArguments
         /\ CheapToGuard' = CheapToGuard /\ Deferred' = Deferred
         /\ Redirects' = Redirects /\ Folds' = Folds
         /\ call.unsafe' = call.unsafe
  BY DEF inputVars, InputsOK, Params, FirstBytes, GuardArguments, ArgumentGuards,
         CheapToGuard, SmallTerm, Deferred, OnlyReads, Redirects, Folds, Untracked

LEMMA CallsNextInv ==
  ASSUME CallsInv, [CallsNext]_callVars
  PROVE  CallsInv'
<1>1. CASE EarlyPass
  <2>1. UNCHANGED inputVars /\ form = "call" /\ checks = {} /\ callStage' = "optimize"
    BY <1>1 DEF EarlyPass, CallsInv
  <2>2. PassedOK'
    BY <1>1, <2>1, InputsKept DEF EarlyPass, CallsInv, PassedOK, DeferredOK
  <2> QED BY <2>1, <2>2, InputsKept DEF CallsInv
<1>2. CASE Optimize
  <2>1. UNCHANGED <<inputVars, checks>> /\ callStage = "optimize" /\ callStage' = "late"
    BY <1>2 DEF Optimize
  <2>2. \/ UNCHANGED form
        \/ form = "call" /\ Folds /\ form' \in {"folded", "inlined", "gone"}
    BY <1>2 DEF Optimize, Folds
  <2>3. PassedOK
    BY <2>1 DEF CallsInv
  <2>4. Folds => Deferred
    BY ParamFacts DEF CallsInv, Folds
  <2>5. PassedOK'
    <3>1. CASE UNCHANGED form
      BY <2>1, <2>3, <3>1, InputsKept DEF CallsInv, PassedOK, DeferredOK
    <3>2. CASE form = "call" /\ Folds /\ form' \in {"folded", "inlined", "gone"}
      <4>1. CASE call.unsafe
        BY <2>1, <2>3, <3>2, <4>1, InputsKept DEF CallsInv, PassedOK
      <4>2. CASE ~call.unsafe
        <5>1. ~call.unsafe' /\ Deferred' /\ Folds' /\ FirstBytes' = FirstBytes
          BY <2>1, <2>4, <3>2, <4>2, InputsKept DEF CallsInv
        <5>2. checks = FirstBytes
          BY <2>1, <2>3, <2>4, <3>2, <4>2 DEF PassedOK, DeferredOK
        <5> QED BY <2>1, <3>2, <5>1, <5>2 DEF PassedOK, DeferredOK
      <4> QED BY <4>1, <4>2
    <3> QED BY <2>2, <3>1, <3>2
  <2> QED BY <2>1, <2>5, InputsKept DEF CallsInv
<1>3. CASE LatePass
  <2>1. UNCHANGED inputVars /\ callStage = "late" /\ callStage' = "ready"
    BY <1>3 DEF LatePass
  <2>2. PassedOK
    BY <2>1 DEF CallsInv
  <2>3. PassedOK'
    BY <1>3, <2>1, <2>2, InputsKept DEF LatePass, CallsInv, PassedOK, DeferredOK
  <2> QED BY <2>1, <2>3, InputsKept DEF CallsInv
<1>4. CASE UNCHANGED callVars
  <2>1. UNCHANGED <<inputVars, form, checks, callStage>>
    BY <1>4 DEF callVars, inputVars
  <2>2. ASSUME PassedOK PROVE PassedOK'
    BY <2>1, <2>2, InputsKept DEF CallsInv, PassedOK, DeferredOK
  <2> QED BY <2>1, <2>2, InputsKept DEF CallsInv
<1> QED BY <1>1, <1>2, <1>3, <1>4 DEF CallsNext

-----------------------------------------------------------------------------
(* What the guards check, against what the call touches.                   *)
(***************************************************************************)
LEMMA TermBounds ==
  ASSUME InputsOK, NEW i \in {1, 2}, row.params[i].term # "none"
  PROVE  /\ TermOf(i) \in Nat /\ TermOf(i) <= Untracked
         /\ row.params[i].term = "append" => Terminated(i) <= TermOf(i)
<1>1. /\ MaxRoom \in Nat \ {0}
      /\ row.params[i].term \in {"none", "one", "count", "bounded", "copy", "append"}
  BY CallRowsAssumption DEF CallRowsAssumption, InputsOK
<1>2. /\ Other(i) \in {1, 2} /\ Untracked = 3 * MaxRoom
  BY DEF Other, Untracked
<1>3. \A j \in {1, 2} : /\ memory[j].zero \in Nat /\ memory[j].zero <= MaxRoom
                        /\ Terminated(j) = memory[j].zero + 1
  BY <1>1 DEF InputsOK, Terminated
<1>4. count \in Nat /\ count <= MaxRoom + 1
  BY <1>1 DEF InputsOK
<1> QED BY <1>1, <1>2, <1>3, <1>4 DEF TermOf, Less

\* What a call touches behind a pointer is no more than its extent, and
\* something unless the extent is nothing.
LEMMA TouchedBounds ==
  ASSUME InputsOK, NEW i \in {1, 2}
  PROVE  /\ Extent(i) \in Nat /\ Extent(i) <= Untracked
         /\ BytesTouched(i) \in Nat /\ BytesTouched(i) <= Extent(i)
         /\ Extent(i) > 0 => BytesTouched(i) > 0
<1>1. MaxRoom \in Nat \ {0} /\ Untracked = 3 * MaxRoom /\ halt \in Nat
  BY CallRowsAssumption DEF CallRowsAssumption, InputsOK, Untracked
<1>2. Terminated(i) \in Nat /\ Terminated(i) <= Untracked
  BY <1>1 DEF InputsOK, Terminated
<1>3. Extent(i) \in Nat /\ Extent(i) <= Untracked
  BY <1>1, <1>2, TermBounds DEF Extent
<1> QED BY <1>1, <1>3 DEF BytesTouched, Less

\* What is behind a literal is untracked, so that nothing there is found
\* unusable.
LEMMA LiteralUsable ==
  ASSUME InputsOK, NEW i \in {1, 2}, memory[i].literal,
         NEW bytes \in Nat, bytes <= Untracked
  PROVE  ~Unusable(i, bytes)
  BY CallRowsAssumption DEF CallRowsAssumption, InputsOK, Unusable, Untracked

LEMMA UnusableMore ==
  ASSUME InputsOK, NEW i \in {1, 2}, NEW less \in Nat, NEW more \in Nat,
         less <= more, Unusable(i, less)
  PROVE  Unusable(i, more)
  BY DEF InputsOK, Unusable

LEMMA FirstBytesOfCall ==
  ASSUME InputsOK, NEW guard \in FirstBytes, Fails(guard)
  PROVE  StrayCall
<1>1. PICK i \in {1, 2} : /\ guard = <<"first", i>> /\ row.params[i].string
                          /\ row.params[i].null = "no"
  BY ParamFacts DEF FirstBytes
<1>2. Unusable(i, 1)
  BY <1>1 DEF Fails, Elements
<1>3. /\ row.params[i].access # "none" /\ row.params[i].effect # "release"
  BY <1>1, CallRowsAssumption DEF CallRowsAssumption, InputsOK
<1>4. Terminated(i) \in Nat /\ Terminated(i) >= 1
  BY CallRowsAssumption DEF CallRowsAssumption, InputsOK, Terminated
<1>5. Extent(i) > 0
  <2>1. row.params[i].term \in {"none", "append"}
    BY <1>1, CallRowsAssumption DEF CallRowsAssumption, InputsOK
  <2> QED BY <1>1, <1>3, <1>4, <2>1, TermBounds DEF Extent
<1>6. Unusable(i, BytesTouched(i))
  <2>1. BytesTouched(i) \in Nat /\ 1 <= BytesTouched(i)
    BY <1>5, TouchedBounds
  <2> QED BY <1>2, <2>1, UnusableMore
<1> QED BY <1>6, ParamFacts DEF StrayCall

\* The guards of a parameter fail only for what its whole extent touches.
LEMMA GuardWithinExtent ==
  ASSUME InputsOK, NEW i \in {1, 2}, NEW guard \in ArgumentGuards(i), Fails(guard)
  PROVE  /\ Unusable(i, Extent(i))
         /\ row.params[i].scan => Unusable(i, BytesTouched(i))
<1> DEFINE param == row.params[i]
<1>0. /\ param.access # "none" /\ guard[2] = i
      /\ param.null \in {"no", "ok", "zero"}
  BY CallRowsAssumption DEF CallRowsAssumption, InputsOK, ArgumentGuards
<1>1. Terminated(i) \in Nat /\ Terminated(i) >= 1
  BY CallRowsAssumption DEF CallRowsAssumption, InputsOK, Terminated
<1>2. Extent(i) \in Nat /\ halt \in Nat
  BY TouchedBounds DEF InputsOK
<1>3. CASE param.scan
  <2>1. param.effect # "release"
    BY <1>3, CallRowsAssumption DEF CallRowsAssumption, InputsOK
  <2>2. guard = <<"start", i>> \/ guard = <<"scan", i>>
    BY <1>0, <1>3 DEF ArgumentGuards
  <2>3. CASE guard = <<"scan", i>>
    <3>1. Elements(guard) = BytesTouched(i)
      BY <1>2, <1>3, <2>3 DEF Elements, BytesTouched, Less
    <3>2. Unusable(i, BytesTouched(i))
      BY <2>3, <3>1 DEF Fails
    <3> QED BY <3>2, TouchedBounds, UnusableMore
  <2>4. CASE guard = <<"start", i>>
    <3> DEFINE t == IF param.term = "none" THEN 1 ELSE TermOf(i)
    <3>1. Unusable(i, IF memory[i].null /\ param.null = "ok" THEN 0 ELSE Less(t, 1))
      BY <2>4 DEF Fails, Elements
    <3>2. t \in Nat
      BY TermBounds
    <3>3. ~(memory[i].null /\ param.null = "ok") /\ t > 0 /\ Unusable(i, 1)
      <4> HIDE DEF t, param
      <4> QED BY <3>1, <3>2 DEF Unusable, Less
    <3>4. Extent(i) > 0
      BY <1>0, <1>1, <2>1, <3>3, TermBounds DEF Extent
    <3> QED BY <3>3, <3>4, TouchedBounds, UnusableMore
  <2> QED BY <2>2, <2>3, <2>4
<1>4. CASE ~param.scan
  <2>1. param.effect # "release"
    BY <1>0, <1>4 DEF ArgumentGuards
  <2>2. \/ guard = <<"string", i>> /\ param.string
        \/ guard = <<"bounded", i>> /\ param.term = "bounded"
        \/ guard = <<"range", i>> /\ (param.term # "none" \/ ~param.string)
    BY <1>0, <1>4, <2>1 DEF ArgumentGuards
  <2>3. CASE guard = <<"string", i>> /\ param.string
    <3>1. param.null # "zero" /\ param.term \in {"none", "append"}
      BY <2>3, CallRowsAssumption DEF CallRowsAssumption, InputsOK
    <3>2. Unusable(i, IF memory[i].null /\ param.null # "no" THEN 0 ELSE Terminated(i))
      BY <2>3 DEF Fails, Elements
    <3>3. ~(memory[i].null /\ param.null = "ok") /\ Unusable(i, Terminated(i))
      BY <1>0, <3>1, <3>2 DEF Unusable
    <3>4. Terminated(i) <= Extent(i)
      BY <1>0, <1>1, <2>1, <2>3, <3>1, <3>3, TermBounds DEF Extent
    <3> QED BY <1>1, <1>2, <1>4, <3>3, <3>4, UnusableMore
  <2>4. CASE guard = <<"bounded", i>> /\ param.term = "bounded"
    <3>1. Unusable(i, IF memory[i].null /\ param.null # "no" THEN 0 ELSE TermOf(i))
      BY <2>4 DEF Fails, Elements
    <3>2. ~(memory[i].null /\ param.null = "ok") /\ Unusable(i, TermOf(i))
      BY <1>0, <3>1 DEF Unusable
    <3> QED BY <1>0, <1>4, <2>1, <2>4, <3>2 DEF Extent
  <2>5. CASE guard = <<"range", i>> /\ (param.term # "none" \/ ~param.string)
    <3> DEFINE t == IF param.term = "none" THEN 1 ELSE TermOf(i)
    <3>1. Unusable(i, IF memory[i].null /\ param.null = "ok" THEN 0 ELSE t)
      BY <2>5 DEF Fails, Elements
    <3>2. ~(memory[i].null /\ param.null = "ok") /\ Unusable(i, t)
      BY <3>1 DEF Unusable
    <3> QED BY <1>0, <1>4, <2>1, <2>5, <3>2 DEF Extent
  <2> QED BY <2>2, <2>3, <2>4, <2>5
<1> QED BY <1>3, <1>4

\* What a parameter's extent touches and must not, one of its guards reports.
LEMMA GuardsCoverExtent ==
  ASSUME InputsOK, NEW i \in {1, 2}, ~NullAccepted,
         Unusable(i, BytesTouched(i)), ~row.stops
  PROVE  \E guard \in ArgumentGuards(i) : Fails(guard)
<1> DEFINE param == row.params[i]
<1>0. /\ param.string \in BOOLEAN /\ param.scan \in BOOLEAN
      /\ param.null \in {"no", "ok", "zero"}
      /\ param.string => param.null # "zero" /\ param.term \in {"none", "append"}
  BY CallRowsAssumption DEF CallRowsAssumption, InputsOK
<1>1. Extent(i) \in Nat /\ Extent(i) <= Untracked /\ halt \in Nat
      /\ BytesTouched(i) \in Nat /\ BytesTouched(i) <= Extent(i)
  BY TouchedBounds DEF InputsOK
<1>2. ~memory[i].literal
  <2>1. BytesTouched(i) <= Untracked
    BY <1>1, CallRowsAssumption DEF CallRowsAssumption, Untracked
  <2> QED BY <1>1, <2>1, LiteralUsable
<1>3. Extent(i) > 0
  BY <1>1 DEF Unusable
<1>4. /\ param.access # "none" /\ param.effect # "release"
      /\ ~(memory[i].null /\ param.null = "ok")
  BY <1>3 DEF Extent
<1>5. CASE param.scan
  <2>1. <<"scan", i>> \in ArgumentGuards(i)
    BY <1>2, <1>4, <1>5 DEF ArgumentGuards
  <2>2. Elements(<<"scan", i>>) = BytesTouched(i)
    BY <1>1, <1>5 DEF Elements, BytesTouched, Less
  <2> QED BY <2>1, <2>2 DEF Fails
<1>6. CASE ~param.scan
  <2>1. BytesTouched(i) = Extent(i)
    BY <1>6 DEF BytesTouched
  <2>2. CASE param.string /\ param.term = "none"
    <3>1. <<"string", i>> \in ArgumentGuards(i)
      BY <1>2, <1>4, <1>6, <2>2 DEF ArgumentGuards
    <3>2. Elements(<<"string", i>>) = Terminated(i)
      BY <1>0, <1>4, <2>2 DEF Elements
    <3>3. Extent(i) = Terminated(i)
      BY <1>4, <2>2 DEF Extent
    <3> QED BY <2>1, <3>1, <3>2, <3>3 DEF Fails
  <2>3. CASE param.term = "bounded"
    <3>1. <<"bounded", i>> \in ArgumentGuards(i)
      BY <1>4, <1>6, <2>3 DEF ArgumentGuards
    <3>2. ~(memory[i].null /\ param.null = "zero")
      BY <2>3, ParamFacts DEF NullAccepted
    <3>3. Elements(<<"bounded", i>>) = TermOf(i)
      BY <1>0, <1>4, <3>2 DEF Elements
    <3>4. Extent(i) = TermOf(i)
      BY <1>4, <2>3 DEF Extent
    <3> QED BY <2>1, <3>1, <3>3, <3>4 DEF Fails
  <2>4. CASE param.term # "bounded" /\ (param.term # "none" \/ ~param.string)
    <3>1. <<"range", i>> \in ArgumentGuards(i)
      BY <1>4, <1>6, <2>4 DEF ArgumentGuards
    <3>2. Elements(<<"range", i>>) = IF param.term = "none" THEN 1 ELSE TermOf(i)
      BY <1>4 DEF Elements
    <3>3. Extent(i) = IF param.term = "none" THEN 1 ELSE TermOf(i)
      BY <1>4, <2>4 DEF Extent
    <3> QED BY <2>1, <3>1, <3>2, <3>3 DEF Fails
  <2> QED BY <2>2, <2>3, <2>4
<1> QED BY <1>5, <1>6

\* A comparison is cheap to guard only between literals, and touches nothing
\* that is unusable.
LEMMA CheapStopsUsable ==
  ASSUME InputsOK, row.stops, CheapToGuard, NEW i \in {1, 2},
         NEW bytes \in Nat, bytes <= Extent(i)
  PROVE  ~Unusable(i, bytes)
<1>1. Extent(i) \in Nat /\ Extent(i) <= Untracked
  BY TouchedBounds
<1>2. CASE row.params[i].access = "none"
  <2>1. Extent(i) = 0
    BY <1>2 DEF Extent
  <2> QED BY <2>1 DEF Unusable
<1>3. CASE row.params[i].access # "none"
  <2>1. row.params[i].term \notin {"one", "count"}
    BY CallRowsAssumption DEF CallRowsAssumption, InputsOK
  <2>2. memory[i].literal
    BY <1>3, <2>1, ParamFacts DEF CheapToGuard, SmallTerm
  <2>3. bytes <= Untracked
    BY <1>1, CallRowsAssumption DEF CallRowsAssumption, Untracked
  <2> QED BY <2>2, <2>3, LiteralUsable
<1> QED BY <1>2, <1>3

\* Where the arguments are guarded inline, the guards stop what strays.
LEMMA ArgumentsExact ==
  ASSUME InputsOK, row.stops => CheapToGuard
  PROVE  /\ (\E guard \in GuardArguments : Fails(guard)) => StrayCall
         /\ StrayCall /\ ~NullAccepted => \E guard \in GuardArguments : Fails(guard)
<1>1. ASSUME NEW guard \in GuardArguments, Fails(guard)
      PROVE  StrayCall
  <2>1. CASE \E i \in Params : guard \in ArgumentGuards(i)
    <3>1. PICK i \in {1, 2} : guard \in ArgumentGuards(i)
      BY <2>1, ParamFacts
    <3>2. /\ Unusable(i, Extent(i))
          /\ row.params[i].scan => Unusable(i, BytesTouched(i))
      BY <1>1, <3>1, GuardWithinExtent
    <3>3. ~row.stops
      <4>1. Extent(i) \in Nat /\ Extent(i) <= Extent(i)
        BY TouchedBounds
      <4> QED BY <3>2, <4>1, CheapStopsUsable
    <3>4. Unusable(i, BytesTouched(i))
      <4>1. ~row.params[i].scan => BytesTouched(i) = Extent(i)
        BY <3>3 DEF BytesTouched
      <4> QED BY <3>2, <4>1
    <3> QED BY <3>4, ParamFacts DEF StrayCall
  <2>2. CASE guard = <<"limit", 1>>
    BY <1>1, <2>2 DEF Fails, StrayCall
  <2>3. guard = <<"limit", 1>> \/ \E i \in Params : guard \in ArgumentGuards(i)
    <3> DEFINE G == {ArgumentGuards(i) : i \in Params}
    <3>1. guard = <<"limit", 1>> \/ guard \in UNION G
      BY DEF GuardArguments
    <3> HIDE DEF G
    <3>2. guard = <<"limit", 1>> \/ \E g \in G : guard \in g
      BY <3>1
    <3> QED BY <3>2 DEF G
  <2> QED BY <2>1, <2>2, <2>3
<1>2. ASSUME StrayCall, ~NullAccepted
      PROVE  \E guard \in GuardArguments : Fails(guard)
  <2>1. CASE OverSize
    <3>1. <<"limit", 1>> \in GuardArguments
      BY <2>1 DEF OverSize, GuardArguments
    <3> QED BY <2>1, <3>1 DEF Fails
  <2>2. CASE \E i \in Params : Unusable(i, BytesTouched(i))
    <3>1. PICK i \in {1, 2} : Unusable(i, BytesTouched(i))
      BY <2>2, ParamFacts
    <3>2. ~row.stops
      BY <3>1, TouchedBounds, CheapStopsUsable
    <3>3. PICK guard \in ArgumentGuards(i) : Fails(guard)
      BY <1>2, <3>1, <3>2, GuardsCoverExtent
    <3>4. guard \in GuardArguments
      <4> DEFINE G == {ArgumentGuards(j) : j \in Params}
      <4>1. ArgumentGuards(i) \in G
        BY ParamFacts
      <4> HIDE DEF G
      <4>2. guard \in UNION G
        BY <4>1, <3>3
      <4> QED BY <4>2 DEF GuardArguments, G
    <3> QED BY <3>3, <3>4
  <2> QED BY <1>2, <2>1, <2>2 DEF StrayCall
<1> QED BY <1>1, <1>2

\* A comparison the optimizer computes by loads: the early guards check the
\* first of each unbounded string.
LEMMA FoldedCovered ==
  ASSUME InputsOK, Folds, NEW i \in {1, 2}, row.params[i].string, Unusable(i, 1)
  PROVE  \E guard \in FirstBytes : Fails(guard)
<1>1. row.params[i].string /\ row.params[i].null = "no"
  BY ParamFacts, CallRowsAssumption DEF Folds, CallRowsAssumption, InputsOK
<1>2. ~memory[i].literal
  <2>1. 1 \in Nat /\ 1 <= Untracked
    BY CallRowsAssumption DEF CallRowsAssumption, Untracked
  <2> QED BY <2>1, LiteralUsable
<1>3. <<"first", i>> \in FirstBytes
  BY <1>1, <1>2, ParamFacts DEF FirstBytes
<1>4. Fails(<<"first", i>>)
  BY DEF Fails, Elements
<1> QED BY <1>3, <1>4

\* For any rows of the table's form and any memory: on every way the passes
\* and the optimizer take a call, what is reported is a call that strays, and
\* every one of them but what is marked unsafe, a null bounded string, and a
\* comparison that became loads whose first from an unbounded string is good
\* (guardLibraryCalls, guardArguments, guardFirstBytes).
THEOREM CallsStopped == CallsSpec => []CallStoppedExactly
<1>1. CallsInv => CallStoppedExactly
  <2> SUFFICES ASSUME CallsInv, callStage = "ready"
               PROVE  /\ StrayNow /\ ~call.unsafe /\ ~NullAccepted
                           /\ (Loads => FirstUnusable) => Reported
                      /\ ~StrayCall => ~Reported
    BY DEF CallStoppedExactly, StrayCallStopped, CallNotStopped
  <2>0. InputsOK /\ PassedOK
    BY DEF CallsInv
  <2>1. CASE call.unsafe
    BY <2>0, <2>1 DEF PassedOK, Reported
  <2>2. CASE ~call.unsafe /\ Deferred
    <3>1. (\E guard \in FirstBytes : Fails(guard)) => StrayCall
      BY <2>0, FirstBytesOfCall
    <3>2. CASE form \in {"folded", "inlined", "gone"} /\ Folds /\ checks = FirstBytes
      <4>1. StrayNow /\ (Loads => FirstUnusable)
              => \E i \in {1, 2} : row.params[i].string /\ Unusable(i, 1)
        BY <2>0, <3>2, ParamFacts DEF StrayNow, Loads, FirstUnusable
      <4> QED BY <2>0, <3>1, <3>2, <4>1, FoldedCovered DEF Reported
    <3>3. CASE /\ form = "call" /\ CheapToGuard
               /\ checks = FirstBytes \cup GuardArguments
      <4>1. /\ (\E guard \in GuardArguments : Fails(guard)) => StrayCall
            /\ StrayCall /\ ~NullAccepted => \E guard \in GuardArguments : Fails(guard)
        BY <2>0, <3>3, ArgumentsExact
      <4>2. StrayNow = StrayCall
        BY <3>3 DEF StrayNow
      <4> QED BY <3>1, <3>3, <4>1, <4>2 DEF Reported
    <3>4. CASE form = "checked" /\ checks = FirstBytes
      <4>1. StrayNow = StrayCall
        BY <3>4 DEF StrayNow
      <4> QED BY <3>1, <3>4, <4>1 DEF Reported
    <3> QED BY <2>0, <2>2, <3>2, <3>3, <3>4 DEF PassedOK, DeferredOK
  <2>3. CASE ~call.unsafe /\ ~Deferred
    <3>1. CASE form = "checked" /\ checks = {}
      <4>1. StrayNow = StrayCall
        BY <3>1 DEF StrayNow
      <4> QED BY <3>1, <4>1 DEF Reported
    <3>2. CASE form \in {"call", "value"} /\ checks = GuardArguments
      <4>1. ~row.stops
        BY <2>0, <2>3, ParamFacts
      <4>2. /\ (\E guard \in GuardArguments : Fails(guard)) => StrayCall
            /\ StrayCall /\ ~NullAccepted => \E guard \in GuardArguments : Fails(guard)
        BY <2>0, <4>1, ArgumentsExact
      <4>3. StrayNow = StrayCall
        BY <3>2 DEF StrayNow
      <4> QED BY <3>2, <4>2, <4>3 DEF Reported
    <3> QED BY <2>0, <2>3, <3>1, <3>2 DEF PassedOK
  <2> QED BY <2>1, <2>2, <2>3
<1>2. CallsInv /\ [CallsNext]_callVars => CallsInv'
  BY CallsNextInv
<1> QED BY <1>1, <1>2, CallsInitInv, PTL DEF CallsSpec
=============================================================================
