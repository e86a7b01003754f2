---------------------------- MODULE SweepProofs -----------------------------
(***************************************************************************)
(* Proofs about MarkWork for any number of workers, items, list slots and   *)
(* rounds, and about Reports for any number of threads, sites and slots,    *)
(* every collision of their hashes and a table that fills up included.      *)
(***************************************************************************)
EXTENDS MarkWork, Reports, Integers, FiniteSetTheorems, TLAPS

-----------------------------------------------------------------------------
(***************************************************************************)
(* MarkWork: the workers of the mark phase.                                *)
(***************************************************************************)

-----------------------------------------------------------------------------
(* The inductive invariant.                                                *)
(***************************************************************************)
WorkerPlaces == {"none", "begin", "wait", "take", "mark", "finish"}
SweeperPlaces == {"idle", "start", "serial", "collect", "run", "take", "mark",
                  "await", "recycle"}

\* The variables keep their types; an item is remembered only while it is
\* being marked.
MarkTypeOK ==
  /\ workCount \in Nat /\ workNext \in Nat /\ workRound \in Nat
  /\ workersFinished \in Nat
  /\ workerCount \in 0..WorkersWanted /\ workersFailed \in BOOLEAN
  /\ seenRound \in [Ids -> Nat]
  /\ worker \in [Ids -> [at : WorkerPlaces, item : Nat]]
  /\ sweeper \in [at : SweeperPlaces, item : Nat]
  /\ \A w \in Ids : worker[w].at # "mark" => worker[w] = At(worker[w].at)
  /\ sweeper.at # "mark" => sweeper = At(sweeper.at)

\* The sweeping thread is inside runWork.
InRound == sweeper.at \in {"take", "mark", "await"}

Started == 1..workerCount
Rests(w) == worker[w].at \in {"begin", "wait"}

\* The workers of this round that have counted themselves.
Done == {w \in Started : Rests(w) /\ seenRound[w] = workRound}

\* A worker that does not run has seen no round.
NotStarted ==
  \A w \in Ids : w > workerCount => worker[w] = At("none") /\ seenRound[w] = 0

\* No worker is started once there was a round, or the list is being made.
NoneStartsLate ==
  workRound > 0 \/ InRound \/ sweeper.at \in {"collect", "run"} =>
    workersFailed \/ workerCount = WorkersWanted

\* Between two rounds every worker rests, and has seen the last one.
RestBetween ==
  ~InRound => \A w \in Started : Rests(w) /\ seenRound[w] = workRound

\* In a round workersFinished counts the workers that are done with it; one
\* that rests otherwise has not seen it.
FinishedExact ==
  InRound =>
    /\ IsFiniteSet(Done) /\ workersFinished = Cardinality(Done)
    /\ \A w \in Started : worker[w].at # "none"
    /\ \A w \in Started : ~Rests(w) => seenRound[w] = workRound

\* The list holds the first items of the sweep; those past its end are
\* marked by the time it is made.
ListExact ==
  /\ \E n \in Nat : toMark = 1..n
  /\ sweeper.at = "run" \/ InRound =>
       \A i \in toMark : i > workCount => i \in markedItems

\* An item that was taken is marked, or somebody is marking it.
BeingMarked(i) ==
  \/ sweeper = [at |-> "mark", item |-> i]
  \/ \E w \in Started : worker[w] = [at |-> "mark", item |-> i]

TakenIsMarked ==
  InRound =>
    /\ \A i \in 1..workCount : i <= workNext => i \in markedItems \/ BeingMarked(i)
    /\ sweeper.at = "await" => workNext >= workCount

MarkInv ==
  /\ MarkTypeOK
  /\ NotStarted
  /\ NoneStartsLate
  /\ RestBetween
  /\ FinishedExact
  /\ ListExact
  /\ TakenIsMarked
  /\ MarkedBeforeRecycle

-----------------------------------------------------------------------------
(* Types.                                                                  *)
(***************************************************************************)

\* A worker that moves to a place without an item, or to its item.
LEMMA WorkerMoves ==
  ASSUME MarkTypeOK, NEW w \in Ids, NEW p \in WorkerPlaces \ {"mark"},
         NEW r, r = At(p) \/ (\E i \in Nat : r = [at |-> "mark", item |-> i]),
         worker' = [worker EXCEPT ![w] = r]
  PROVE  /\ worker' \in [Ids -> [at : WorkerPlaces, item : Nat]]
         /\ \A v \in Ids : worker'[v].at # "mark" => worker'[v] = At(worker'[v].at)
<1>1. r \in [at : WorkerPlaces, item : Nat] /\ (r.at # "mark" => r = At(r.at))
  BY DEF At, WorkerPlaces
<1>2. worker'[w] = r /\ \A v \in Ids : v # w => worker'[v] = worker[v]
  BY DEF MarkTypeOK
<1>3. worker' \in [Ids -> [at : WorkerPlaces, item : Nat]]
  BY <1>1 DEF MarkTypeOK
<1>. QED
  BY <1>1, <1>2, <1>3 DEF MarkTypeOK

\* The steps of a worker keep the types.
LEMMA WorkerTypeStep ==
  ASSUME MarkTypeOK, NEW w \in Ids, WorkerStep(w)
  PROVE  MarkTypeOK'
<1>. USE DEF listVars, roundVars, startVars, markVars
<1>1. /\ worker' \in [Ids -> [at : WorkerPlaces, item : Nat]]
      /\ \A v \in Ids : worker'[v].at # "mark" => worker'[v] = At(worker'[v].at)
  <2>1. CASE Notice(w)
    BY <2>1, WorkerMoves DEF Notice, WorkerPlaces
  <2>2. CASE WaitForWork(w)
    BY <2>2, WorkerMoves DEF WaitForWork, WorkerPlaces
  <2>3. CASE WorkerTakes(w)
    <3>1. Taken("finish") = At("finish")
            \/ \E i \in Nat : Taken("finish") = [at |-> "mark", item |-> i]
      <4>1. workNext + 1 \in Nat
        BY DEF MarkTypeOK
      <4>. QED
        BY <4>1 DEF Taken
    <3>2. "finish" \in WorkerPlaces \ {"mark"}
          /\ worker' = [worker EXCEPT ![w] = Taken("finish")]
      BY <2>3 DEF WorkerTakes, WorkerPlaces
    <3>. QED
      BY <3>1, <3>2, WorkerMoves
  <2>4. CASE WorkerMarks(w)
    BY <2>4, WorkerMoves DEF WorkerMarks, WorkerPlaces
  <2>5. CASE Finish(w)
    BY <2>5, WorkerMoves DEF Finish, WorkerPlaces
  <2>. QED
    BY <2>1, <2>2, <2>3, <2>4, <2>5 DEF WorkerStep
<1>2. /\ workCount' \in Nat /\ workNext' \in Nat /\ workRound' \in Nat
      /\ workersFinished' \in Nat /\ seenRound' \in [Ids -> Nat]
      /\ UNCHANGED <<workerCount, workersFailed, sweeper>>
  BY DEF MarkTypeOK, WorkerStep, Notice, WaitForWork, WorkerTakes, WorkerMarks, Finish
<1>. QED
  BY <1>1, <1>2 DEF MarkTypeOK

\* So do those of the sweeping thread, and fork.
LEMMA SweeperTypeStep ==
  ASSUME MarkTypeOK, EnterSweep \/ SweeperStep \/ ForkChild
  PROVE  MarkTypeOK'
<1>. USE DEF listVars, roundVars, startVars, markVars
<1>1. /\ sweeper' \in [at : SweeperPlaces, item : Nat]
      /\ sweeper'.at # "mark" => sweeper' = At(sweeper'.at)
  <2>1. CASE TakeWork
    BY <2>1 DEF TakeWork, Taken, At, SweeperPlaces, MarkTypeOK
  <2>2. CASE StartedAll
    BY <2>2 DEF StartedAll, At, SweeperPlaces
  <2>3. CASE StartWorker \/ StartFails \/ AddWork \/ ForkChild
    BY <2>3 DEF StartWorker, StartFails, AddWork, ForkChild, MarkTypeOK
  <2>4. CASE \/ EnterSweep \/ Serial \/ Collected \/ RunWork \/ MarkItem
             \/ AwaitWorkers \/ Recycled
    BY <2>4 DEF EnterSweep, Serial, Collected, RunWork, MarkItem, AwaitWorkers,
       Recycled, At, SweeperPlaces
  <2>. QED
    BY <2>1, <2>2, <2>3, <2>4 DEF SweeperStep
<1>2. /\ worker' \in [Ids -> [at : WorkerPlaces, item : Nat]]
      /\ \A v \in Ids : worker'[v].at # "mark" => worker'[v] = At(worker'[v].at)
      /\ workerCount' \in 0..WorkersWanted
  <2>1. CASE StartWorker
    <3>1. workerCount' \in Ids /\ workerCount' \in 0..WorkersWanted
      BY <2>1, MarkWorkAssumption DEF MarkWorkAssumption, StartWorker, MarkTypeOK, Ids
    <3>. QED
      BY <2>1, <3>1, WorkerMoves DEF StartWorker, WorkerPlaces
  <2>2. CASE ForkChild
    BY <2>2, MarkWorkAssumption
    DEF MarkWorkAssumption, ForkChild, At, WorkerPlaces, MarkTypeOK
  <2>3. CASE ~StartWorker /\ ~ForkChild
    <3>1. UNCHANGED <<worker, workerCount>>
      BY <2>3 DEF EnterSweep, SweeperStep, StartFails, StartedAll, Serial, AddWork,
         Collected, RunWork, TakeWork, MarkItem, AwaitWorkers, Recycled
    <3>. QED
      BY <3>1 DEF MarkTypeOK
  <2>. QED
    BY <2>1, <2>2, <2>3
<1>3. /\ workCount' \in Nat /\ workNext' \in Nat /\ workRound' \in Nat
      /\ workersFinished' \in Nat /\ seenRound' \in [Ids -> Nat]
  BY DEF MarkTypeOK, EnterSweep, SweeperStep, StartWorker, StartFails, StartedAll,
     Serial, AddWork, Collected, RunWork, TakeWork, MarkItem, AwaitWorkers,
     Recycled, ForkChild
<1>4. workersFailed' \in BOOLEAN
  BY Zenon DEF MarkTypeOK, EnterSweep, SweeperStep, StartWorker, StartFails,
     StartedAll, Serial, AddWork, Collected, RunWork, TakeWork, MarkItem,
     AwaitWorkers, Recycled, ForkChild
<1>. QED
  BY <1>1, <1>2, <1>3, <1>4 DEF MarkTypeOK

-----------------------------------------------------------------------------
(* The workers.                                                            *)
(***************************************************************************)

\* What every step of a worker leaves alone, and that it is one that runs.
LEMMA WorkerFrame ==
  ASSUME MarkInv, NEW w \in Ids, WorkerStep(w)
  PROVE  /\ UNCHANGED <<workCount, workRound, workerCount, workersFailed, sweeper,
                        toMark>>
         /\ w \in Started /\ Started' = Started /\ InRound' = InRound
         /\ \A v \in Ids : v # w => worker'[v] = worker[v] /\ seenRound'[v] = seenRound[v]
         /\ worker[w].at # "none"
<1>. USE DEF MarkInv, MarkTypeOK, listVars, roundVars, startVars, markVars
<1>1. /\ UNCHANGED <<workCount, workRound, workerCount, workersFailed, sweeper, toMark>>
      /\ \A v \in Ids : v # w => worker'[v] = worker[v] /\ seenRound'[v] = seenRound[v]
  BY DEF WorkerStep, Notice, WaitForWork, WorkerTakes, WorkerMarks, Finish
<1>2. worker[w].at # "none"
  BY DEF WorkerStep, Notice, WaitForWork, WorkerTakes, WorkerMarks, Finish, At
<1>3. w \in Started
  <2>1. ~(w > workerCount)
    BY <1>2 DEF NotStarted, At
  <2>2. w \in 1..WorkersWanted /\ WorkersWanted \in Nat /\ workerCount \in Nat
    BY MarkWorkAssumption DEF MarkWorkAssumption, Ids
  <2>. QED
    BY <2>1, <2>2 DEF Started
<1>4. Started' = Started /\ InRound' = InRound
  BY <1>1 DEF Started, InRound
<1>. QED
  BY <1>1, <1>2, <1>3, <1>4

\* The workers that run are among those there may be.
LEMMA StartedIds ==
  ASSUME MarkTypeOK
  PROVE  Started \subseteq Ids
  BY MarkWorkAssumption DEF MarkWorkAssumption, MarkTypeOK, Started, Ids

\* A worker's step says nothing of those that do not run.
LEMMA WorkerKeepsUnstarted ==
  ASSUME MarkInv, NEW w \in Ids, WorkerStep(w)
  PROVE  NotStarted' /\ NoneStartsLate'
<1>1. \A v \in Ids : v > workerCount => v # w
  <2>1. w \in 1..workerCount /\ workerCount \in Nat
    BY WorkerFrame DEF Started, MarkInv, MarkTypeOK
  <2>. QED
    BY <2>1 DEF Ids
<1>2. NotStarted'
  BY <1>1, WorkerFrame DEF MarkInv, NotStarted
<1>3. NoneStartsLate'
  BY WorkerFrame DEF MarkInv, NoneStartsLate, InRound
<1>. QED
  BY <1>2, <1>3

\* Between two rounds a worker can only begin to wait.
LEMMA RestingInv ==
  ASSUME MarkInv, MarkTypeOK', NEW w \in Ids, WorkerStep(w), ~InRound
  PROVE  MarkInv'
<1>. USE DEF MarkInv, listVars, roundVars, startVars, markVars
<1>1. w \in Started /\ Rests(w) /\ seenRound[w] = workRound
  BY WorkerFrame DEF RestBetween
<1>2. WaitForWork(w)
  BY <1>1 DEF Rests, WorkerStep, Notice, WorkerTakes, WorkerMarks, Finish, At
<1>3. worker'[w] = At("wait") /\ UNCHANGED <<seenRound, markedItems>>
  BY <1>2 DEF WaitForWork, MarkTypeOK
<1>4. NotStarted' /\ NoneStartsLate'
  BY WorkerFrame, WorkerKeepsUnstarted
<1>5. RestBetween'
  <2>1. \A v \in Started : Rests(v)' /\ seenRound'[v] = workRound
    BY <1>1, <1>3, WorkerFrame, StartedIds DEF RestBetween, Rests, At
  <2>. QED
    BY <2>1, WorkerFrame DEF RestBetween
<1>6. FinishedExact' /\ TakenIsMarked'
  BY WorkerFrame DEF FinishedExact, TakenIsMarked
<1>7. ListExact' /\ MarkedBeforeRecycle'
  BY <1>3, WorkerFrame DEF ListExact, MarkedBeforeRecycle
<1>. QED
  BY <1>4, <1>5, <1>6, <1>7

\* In a round it notices it, takes and marks items, and counts itself once.
LEMMA WorkingFinished ==
  ASSUME MarkInv, MarkTypeOK', NEW w \in Ids, WorkerStep(w), InRound
  PROVE  FinishedExact'
<1>. USE DEF MarkInv, listVars, roundVars, startVars, markVars
<1>1. w \in Started /\ worker[w].at # "none" /\ workRound' = workRound
      /\ Started' = Started /\ Started \subseteq Ids
      /\ \A v \in Ids : v # w => worker'[v] = worker[v] /\ seenRound'[v] = seenRound[v]
  BY WorkerFrame, StartedIds
<1>2. worker'[w].at # "none" /\ (~Rests(w)' => seenRound'[w] = workRound)
  <2>1. CASE Notice(w)
    BY <2>1 DEF Notice, At, MarkTypeOK
  <2>2. CASE ~Notice(w)
    <3>1. seenRound' = seenRound
      BY <2>2 DEF WorkerStep, WaitForWork, WorkerTakes, WorkerMarks, Finish
    <3>2. worker'[w].at # "none" /\ (~Rests(w)' => ~Rests(w))
      BY <2>2 DEF WorkerStep, WaitForWork, WorkerTakes, WorkerMarks, Finish, At,
         Taken, Rests, MarkTypeOK
    <3>. QED
      BY <1>1, <3>1, <3>2 DEF FinishedExact
  <2>. QED
    BY <2>1, <2>2
<1>3. IsFiniteSet(Done') /\ workersFinished' = Cardinality(Done')
  <2>1. IsFiniteSet(Done) /\ workersFinished = Cardinality(Done)
    BY DEF FinishedExact
  <2>2. CASE Finish(w)
    <3>1. w \notin Done /\ Done' = Done \cup {w}
      <4>1. worker'[w] = At("begin") /\ worker[w] = At("finish")
            /\ seenRound' = seenRound
        BY <2>2 DEF Finish, MarkTypeOK
      <4>2. seenRound[w] = workRound /\ ~Rests(w) /\ Rests(w)'
        BY <1>1, <4>1 DEF FinishedExact, Rests, At
      <4>. QED
        BY <1>1, <4>1, <4>2 DEF Done, Rests
    <3>. QED
      BY <2>1, <2>2, <3>1, FS_AddElement DEF Finish
  <2>3. CASE ~Finish(w)
    <3>1. workersFinished' = workersFinished
      BY <2>3 DEF WorkerStep, Notice, WaitForWork, WorkerTakes, WorkerMarks
    <3>2. w \in Done' <=> w \in Done
      <4>1. CASE Notice(w)
        BY <4>1 DEF Notice, At, MarkTypeOK, Done, Rests
      <4>2. CASE ~Notice(w)
        <5>1. seenRound' = seenRound
          BY <2>3, <4>2 DEF WorkerStep, WaitForWork, WorkerTakes, WorkerMarks
        <5>2. Rests(w)' <=> Rests(w)
          BY <2>3, <4>2 DEF WorkerStep, WaitForWork, WorkerTakes, WorkerMarks, At,
             Taken, Rests, MarkTypeOK
        <5>. QED
          BY <1>1, <5>1, <5>2 DEF Done
      <4>. QED
        BY <4>1, <4>2
    <3>3. Done' = Done
      BY <1>1, <3>2 DEF Done, Rests
    <3>. QED
      BY <2>1, <3>1, <3>3
  <2>. QED
    BY <2>2, <2>3
<1>4. \A v \in Started : /\ worker'[v].at # "none"
                         /\ ~Rests(v)' => seenRound'[v] = workRound
  BY <1>1, <1>2 DEF FinishedExact, Rests
<1>. QED
  BY <1>1, <1>3, <1>4 DEF FinishedExact

\* What a worker took stays taken until it has marked it.
LEMMA WorkingTaken ==
  ASSUME MarkInv, MarkTypeOK', NEW w \in Ids, WorkerStep(w), InRound
  PROVE  TakenIsMarked'
<1>. USE DEF MarkInv, listVars, roundVars, startVars, markVars
<1>1. /\ UNCHANGED <<workCount, sweeper>> /\ Started' = Started /\ w \in Started
      /\ \A v \in Started : v # w => worker'[v] = worker[v]
  BY WorkerFrame, StartedIds
<1>2. \A i \in Nat : BeingMarked(i) /\ worker[w] # [at |-> "mark", item |-> i]
                       => BeingMarked(i)'
  BY <1>1 DEF BeingMarked
<1>3. workNext \in Nat /\ workCount \in Nat
  BY DEF MarkTypeOK
<1>4. \A i \in 1..workCount : i <= workNext => i \in markedItems \/ BeingMarked(i)
  BY DEF TakenIsMarked
<1>5. \A i \in 1..workCount : i <= workNext' => i \in markedItems' \/ BeingMarked(i)'
  <2>. SUFFICES ASSUME NEW i \in 1..workCount, i <= workNext'
                PROVE  i \in markedItems' \/ BeingMarked(i)'
    OBVIOUS
  <2>0. i \in Nat
    BY <1>3
  <2>1. CASE WorkerTakes(w)
    <3>1. /\ worker[w] = At("take") /\ worker'[w] = Taken("finish")
          /\ workNext' = workNext + 1 /\ markedItems' = markedItems
      BY <2>1 DEF WorkerTakes, MarkTypeOK
    <3>2. CASE i <= workNext
      <4>1. worker[w] # [at |-> "mark", item |-> i]
        BY <3>1 DEF At
      <4>. QED
        BY <1>2, <1>4, <2>0, <3>1, <3>2, <4>1
    <3>3. CASE i = workNext + 1
      <4>1. worker'[w] = [at |-> "mark", item |-> i]
        BY <1>3, <3>1, <3>3 DEF Taken
      <4>. QED
        BY <1>1, <4>1 DEF BeingMarked
    <3>. QED
      BY <1>3, <3>1, <3>2, <3>3
  <2>2. CASE WorkerMarks(w)
    <3>1. workNext' = workNext /\ markedItems' = markedItems \cup {worker[w].item}
      BY <2>2 DEF WorkerMarks
    <3>2. worker[w] = [at |-> "mark", item |-> i] => i \in markedItems'
      BY <3>1
    <3>. QED
      BY <1>2, <1>4, <2>0, <3>1, <3>2
  <2>3. CASE Notice(w) \/ WaitForWork(w) \/ Finish(w)
    <3>1. UNCHANGED <<workNext, markedItems>> /\ worker[w].at # "mark"
      BY <2>3 DEF Notice, WaitForWork, Finish, At
    <3>2. worker[w] # [at |-> "mark", item |-> i]
      BY <3>1
    <3>. QED
      BY <1>2, <1>4, <2>0, <3>1, <3>2
  <2>. QED
    BY <2>1, <2>2, <2>3 DEF WorkerStep
<1>6. sweeper.at = "await" => workNext' >= workCount
  <2>1. workNext' = workNext \/ workNext' = workNext + 1
    BY DEF WorkerStep, Notice, WaitForWork, WorkerTakes, WorkerMarks, Finish
  <2>. QED
    BY <1>3, <2>1 DEF TakenIsMarked
<1>. QED
  BY <1>1, <1>5, <1>6 DEF TakenIsMarked

\* A worker's step keeps the invariant.
LEMMA WorkerInv ==
  ASSUME MarkInv, NEW w \in Ids, WorkerStep(w)
  PROVE  MarkInv'
<1>1. MarkTypeOK'
  BY WorkerTypeStep DEF MarkInv
<1>2. CASE ~InRound
  BY <1>1, <1>2, RestingInv
<1>3. CASE InRound
  <2>1. FinishedExact' /\ TakenIsMarked' /\ NotStarted' /\ NoneStartsLate'
    BY <1>1, <1>3, WorkingFinished, WorkingTaken, WorkerKeepsUnstarted
  <2>2. /\ UNCHANGED <<workCount, sweeper, toMark>> /\ InRound'
        /\ markedItems \subseteq markedItems'
    <3>1. markedItems \subseteq markedItems'
      BY DEF WorkerStep, Notice, WaitForWork, WorkerTakes, WorkerMarks, Finish,
             markVars
    <3>. QED
      BY <1>3, <3>1, WorkerFrame
  <2>3. RestBetween' /\ ListExact' /\ MarkedBeforeRecycle'
    BY <1>3, <2>2 DEF MarkInv, RestBetween, ListExact, MarkedBeforeRecycle, InRound
  <2>. QED
    BY <1>1, <2>1, <2>3 DEF MarkInv
<1>. QED
  BY <1>2, <1>3

-----------------------------------------------------------------------------
(* The sweeping thread.                                                    *)
(***************************************************************************)

\* Outside a round, and while no worker is started, the workers do not move.
LEMMA QuietInv ==
  ASSUME MarkInv, ~LiveFalls, MarkTypeOK',
         \/ EnterSweep \/ StartFails \/ StartedAll \/ Serial \/ AddWork
         \/ Collected \/ Recycled
  PROVE  MarkInv'
<1>. USE DEF listVars, roundVars, startVars, markVars
<1>1. /\ UNCHANGED <<workRound, workerCount, seenRound, worker>>
      /\ ~InRound /\ ~InRound'
  BY DEF EnterSweep, StartFails, StartedAll, Serial, AddWork, Collected, Recycled,
     InRound, At
<1>2. NotStarted' /\ RestBetween'
  BY <1>1 DEF MarkInv, NotStarted, RestBetween, Rests, Started
<1>3. FinishedExact' /\ TakenIsMarked'
  BY <1>1 DEF FinishedExact, TakenIsMarked
<1>4. NoneStartsLate'
  <2>1. CASE StartFails
    BY <2>1 DEF StartFails, NoneStartsLate
  <2>2. CASE StartedAll
    BY <1>1, <2>2 DEF MarkInv, StartedAll, Divided, NoneStartsLate, At, InRound
  <2>3. CASE EnterSweep \/ Serial \/ AddWork \/ Collected \/ Recycled
    BY <1>1, <2>3 DEF MarkInv, EnterSweep, Serial, AddWork, Collected, Recycled,
       NoneStartsLate, At
  <2>. QED
    BY <2>1, <2>2, <2>3
<1>5. ListExact'
  <2>1. \E n \in Nat : toMark' = 1..n
    <3>1. CASE StartedAll
      BY <3>1, MarkWorkAssumption DEF MarkWorkAssumption, StartedAll
    <3>2. CASE ~StartedAll
      BY <3>2 DEF MarkInv, ListExact, EnterSweep, StartFails, Serial, AddWork,
         Collected, Recycled
    <3>. QED
      BY <3>1, <3>2
  <2>2. sweeper'.at = "run" => Collected
    BY DEF EnterSweep, StartFails, StartedAll, Serial, AddWork, Recycled, At
  <2>3. sweeper'.at = "run" => \A i \in toMark' : i > workCount' => i \in markedItems'
    BY <2>2 DEF Collected, Beyond
  <2>. QED
    BY <1>1, <2>1, <2>3 DEF ListExact
<1>6. MarkedBeforeRecycle'
  <2>1. sweeper'.at = "recycle" => Serial
    BY DEF EnterSweep, StartFails, StartedAll, AddWork, Collected, Recycled, At
  <2>. QED
    BY <2>1 DEF MarkedBeforeRecycle, Serial
<1>. QED
  BY <1>2, <1>3, <1>4, <1>5, <1>6 DEF MarkInv

\* A worker is started before the first round: it has seen them all.
LEMMA StartWorkerInv ==
  ASSUME MarkInv, MarkTypeOK', StartWorker
  PROVE  MarkInv'
<1>. USE DEF listVars, roundVars, startVars, markVars
<1>1. /\ workRound = 0 /\ ~InRound /\ ~InRound' /\ sweeper.at = "start"
      /\ UNCHANGED <<sweeper, workRound, toMark, markedItems, workCount, seenRound>>
  BY DEF MarkInv, MarkTypeOK, StartWorker, NoneStartsLate, At, InRound
<1>2. /\ workerCount \in Nat /\ workerCount' = workerCount + 1
      /\ workerCount + 1 \in Ids
  BY MarkWorkAssumption DEF MarkWorkAssumption, MarkInv, MarkTypeOK, StartWorker, Ids
<1>3. /\ worker'[workerCount + 1] = At("begin")
      /\ \A v \in Ids : v # workerCount + 1 => worker'[v] = worker[v]
  BY <1>2 DEF StartWorker, MarkInv, MarkTypeOK
<1>4. NotStarted'
  <2>. SUFFICES ASSUME NEW v \in Ids, v > workerCount + 1
                PROVE  worker'[v] = At("none") /\ seenRound[v] = 0
    BY <1>1, <1>2 DEF NotStarted
  <2>1. v # workerCount + 1 /\ v > workerCount
    BY <1>2 DEF Ids
  <2>. QED
    BY <1>3, <2>1 DEF MarkInv, NotStarted
<1>5. RestBetween'
  <2>. SUFFICES ASSUME NEW v \in 1..(workerCount + 1)
                PROVE  worker'[v].at \in {"begin", "wait"} /\ seenRound[v] = 0
    BY <1>1, <1>2 DEF RestBetween, Started, Rests
  <2>1. CASE v = workerCount + 1
    <3>1. v > workerCount /\ v \in Ids
      BY <1>2, <2>1
    <3>. QED
      BY <1>3, <2>1, <3>1 DEF MarkInv, NotStarted, At
  <2>2. CASE v # workerCount + 1
    <3>1. v \in Started
      BY <1>2, <2>2 DEF Started
    <3>2. v \in Ids
      BY <3>1, StartedIds DEF MarkInv
    <3>. QED
      BY <1>1, <1>3, <2>2, <3>1, <3>2 DEF MarkInv, RestBetween, Rests
  <2>. QED
    BY <2>1, <2>2
<1>6. NoneStartsLate' /\ FinishedExact' /\ TakenIsMarked'
  BY <1>1 DEF NoneStartsLate, FinishedExact, TakenIsMarked
<1>7. ListExact' /\ MarkedBeforeRecycle'
  BY <1>1 DEF MarkInv, ListExact, MarkedBeforeRecycle
<1>. QED
  BY <1>4, <1>5, <1>6, <1>7 DEF MarkInv

\* A round starts with nothing taken and nobody done with it.
LEMMA RunWorkInv ==
  ASSUME MarkInv, MarkTypeOK', RunWork
  PROVE  MarkInv'
<1>. USE DEF listVars, roundVars, startVars, markVars
<1>1. /\ sweeper.at = "run" /\ sweeper'.at = "take" /\ ~InRound /\ InRound'
      /\ workRound' = workRound + 1 /\ workRound \in Nat
      /\ workNext' = 0 /\ workersFinished' = 0
      /\ UNCHANGED <<workCount, workerCount, workersFailed, seenRound, worker, toMark,
                     markedItems>>
  BY DEF RunWork, At, InRound, MarkInv, MarkTypeOK
<1>2. NotStarted' /\ NoneStartsLate' /\ RestBetween' /\ MarkedBeforeRecycle'
  BY <1>1 DEF MarkInv, NotStarted, NoneStartsLate, RestBetween, MarkedBeforeRecycle
<1>3. \A w \in Started : Rests(w)' /\ worker'[w].at # "none"
                          /\ seenRound'[w] # workRound'
  BY <1>1 DEF MarkInv, RestBetween, Rests
<1>4. Done' = {}
  BY <1>1, <1>3 DEF Done, Started
<1>5. FinishedExact'
  BY <1>1, <1>3, <1>4, FS_EmptySet DEF FinishedExact, Started
<1>6. ListExact'
  BY <1>1 DEF MarkInv, ListExact
<1>7. TakenIsMarked'
  BY <1>1 DEF TakenIsMarked
<1>. QED
  BY <1>2, <1>5, <1>6, <1>7 DEF MarkInv

\* The sweeping thread takes and marks items as a worker does.
LEMMA SweeperWorksInv ==
  ASSUME MarkInv, MarkTypeOK', TakeWork \/ MarkItem
  PROVE  MarkInv'
<1>. USE DEF listVars, roundVars, startVars, markVars
<1>1. /\ InRound /\ InRound' /\ markedItems \subseteq markedItems'
      /\ UNCHANGED <<workCount, workRound, workersFinished, workerCount, workersFailed,
                     seenRound, worker, toMark>>
  BY DEF TakeWork, MarkItem, Taken, At, InRound
<1>2. NotStarted' /\ NoneStartsLate' /\ RestBetween' /\ MarkedBeforeRecycle'
  BY <1>1 DEF MarkInv, NotStarted, NoneStartsLate, RestBetween, MarkedBeforeRecycle,
     InRound
<1>3. FinishedExact'
  <2>1. Done' = Done
    BY <1>1 DEF Done, Started, Rests
  <2>. QED
    BY <1>1, <2>1 DEF MarkInv, FinishedExact, Started, Rests
<1>4. ListExact'
  BY <1>1 DEF MarkInv, ListExact
<1>5. workNext \in Nat /\ workCount \in Nat
  BY DEF MarkInv, MarkTypeOK
<1>6. \A i \in Nat : BeingMarked(i) /\ sweeper # [at |-> "mark", item |-> i]
                       => BeingMarked(i)'
  BY <1>1 DEF BeingMarked, Started
<1>7. \A i \in 1..workCount : i <= workNext => i \in markedItems \/ BeingMarked(i)
  BY <1>1 DEF MarkInv, TakenIsMarked
<1>8. \A i \in 1..workCount : i <= workNext' => i \in markedItems' \/ BeingMarked(i)'
  <2>. SUFFICES ASSUME NEW i \in 1..workCount, i <= workNext'
                PROVE  i \in markedItems' \/ BeingMarked(i)'
    OBVIOUS
  <2>0. i \in Nat
    BY <1>5
  <2>1. CASE TakeWork
    <3>1. /\ sweeper = At("take") /\ sweeper' = Taken("await")
          /\ workNext' = workNext + 1
      BY <2>1 DEF TakeWork
    <3>2. CASE i <= workNext
      <4>1. sweeper # [at |-> "mark", item |-> i]
        BY <3>1 DEF At
      <4>. QED
        BY <1>1, <1>6, <1>7, <2>0, <3>2, <4>1
    <3>3. CASE i = workNext + 1
      <4>1. sweeper' = [at |-> "mark", item |-> i]
        BY <1>5, <3>1, <3>3 DEF Taken
      <4>. QED
        BY <4>1 DEF BeingMarked
    <3>. QED
      BY <1>5, <3>1, <3>2, <3>3
  <2>2. CASE MarkItem
    <3>1. workNext' = workNext /\ markedItems' = markedItems \cup {sweeper.item}
      BY <2>2 DEF MarkItem
    <3>2. sweeper = [at |-> "mark", item |-> i] => i \in markedItems'
      BY <3>1
    <3>. QED
      BY <1>1, <1>6, <1>7, <2>0, <3>1, <3>2
  <2>. QED
    BY <2>1, <2>2
<1>9. sweeper'.at = "await" => workNext' >= workCount
  BY <1>5 DEF TakeWork, MarkItem, Taken, At
<1>10. TakenIsMarked'
  BY <1>1, <1>8, <1>9 DEF TakenIsMarked
<1>. QED
  BY <1>2, <1>3, <1>4, <1>10 DEF MarkInv

\* As many workers are done as there are: all of them, and what was taken is
\* marked.
LEMMA AwaitWorkersInv ==
  ASSUME MarkInv, MarkTypeOK', AwaitWorkers
  PROVE  MarkInv'
<1>. USE DEF listVars, roundVars, startVars, markVars
<1>1. /\ sweeper = At("await") /\ sweeper'.at = "recycle" /\ InRound /\ ~InRound'
      /\ workersFinished >= workerCount
      /\ UNCHANGED <<workCount, workNext, workRound, workerCount, workersFailed,
                     seenRound, worker, toMark, markedItems>>
  BY DEF AwaitWorkers, AllFinished, At, InRound
<1>2. Done = Started
  <2>1. IsFiniteSet(Started) /\ Cardinality(Started) = workerCount
    <3>1. workerCount \in Nat
      BY DEF MarkInv, MarkTypeOK
    <3>. QED
      BY <3>1, FS_Interval DEF Started
  <2>2. Done \subseteq Started
    BY DEF Done
  <2>3. workersFinished = Cardinality(Done) /\ workersFinished \in Nat
        /\ workerCount \in Nat
    BY <1>1 DEF MarkInv, MarkTypeOK, FinishedExact
  <2>4. Cardinality(Done) <= Cardinality(Started)
        /\ (Cardinality(Done) = Cardinality(Started) => Done = Started)
    BY <2>1, <2>2, FS_Subset
  <2>. QED
    BY <1>1, <2>1, <2>3, <2>4
<1>3. \A w \in Started : Rests(w) /\ seenRound[w] = workRound
  BY <1>2 DEF Done
<1>4. RestBetween' /\ NotStarted' /\ NoneStartsLate'
  BY <1>1, <1>3 DEF MarkInv, RestBetween, Rests, Started, NotStarted, NoneStartsLate,
     InRound
<1>5. FinishedExact' /\ TakenIsMarked' /\ ListExact'
  BY <1>1 DEF MarkInv, FinishedExact, TakenIsMarked, ListExact
<1>6. MarkedBeforeRecycle'
  <2>. SUFFICES ASSUME NEW i \in toMark PROVE i \in markedItems
    BY <1>1 DEF MarkedBeforeRecycle
  <2>1. ~BeingMarked(i)
    BY <1>1, <1>3 DEF BeingMarked, Rests, At
  <2>2. workNext >= workCount
    BY <1>1 DEF MarkInv, TakenIsMarked, At
  <2>3. i \in Nat /\ i >= 1 /\ workCount \in Nat /\ workNext \in Nat
    BY DEF MarkInv, ListExact, MarkTypeOK
  <2>4. CASE i > workCount
    BY <1>1, <2>4 DEF MarkInv, ListExact
  <2>5. CASE ~(i > workCount)
    <3>1. i \in 1..workCount /\ i <= workNext
      BY <2>2, <2>3, <2>5
    <3>. QED
      BY <1>1, <2>1, <3>1 DEF MarkInv, TakenIsMarked
  <2>. QED
    BY <2>4, <2>5
<1>. QED
  BY <1>4, <1>5, <1>6 DEF MarkInv

\* A child of fork has no worker and no round.
LEMMA ForkInv ==
  ASSUME MarkInv, MarkTypeOK', ForkChild
  PROVE  MarkInv'
<1>. USE DEF listVars, roundVars, startVars, markVars
<1>1. /\ sweeper.at = "idle" /\ ~InRound' /\ workerCount' = 0 /\ workRound' = 0
      /\ worker' = [w \in Ids |-> At("none")] /\ seenRound' = [w \in Ids |-> 0]
      /\ UNCHANGED <<workCount, sweeper, toMark, markedItems>>
  BY DEF ForkChild, At, InRound
<1>2. NotStarted'
  BY <1>1 DEF NotStarted
<1>3. RestBetween'
  BY <1>1 DEF RestBetween, Started
<1>4. NoneStartsLate' /\ FinishedExact' /\ TakenIsMarked' /\ MarkedBeforeRecycle'
  BY <1>1 DEF NoneStartsLate, FinishedExact, TakenIsMarked, MarkedBeforeRecycle
<1>5. ListExact'
  BY <1>1 DEF MarkInv, ListExact, InRound
<1>. QED
  BY <1>2, <1>3, <1>4, <1>5 DEF MarkInv

-----------------------------------------------------------------------------
(* The theorems.                                                           *)
(***************************************************************************)

\* The invariant holds of a program whose live bytes do not cross
\* ParallelBytes while the workers are started.
LEMMA MarkInvariance ==
  ASSUME ~LiveFalls
  PROVE  MarkSpec => []MarkInv
<1>1. MarkInit => MarkInv
  <2>. SUFFICES ASSUME MarkInit PROVE MarkInv
    OBVIOUS
  <2>1. MarkTypeOK
    <3>1. workersFailed \in BOOLEAN
      BY Zenon DEF MarkInit
    <3>. QED
      BY <3>1, MarkWorkAssumption
      DEF MarkWorkAssumption, MarkInit, MarkTypeOK, At, WorkerPlaces, SweeperPlaces
  <2>2. /\ sweeper.at = "idle" /\ ~InRound /\ workerCount = 0 /\ workRound = 0
        /\ worker = [w \in Ids |-> At("none")] /\ seenRound = [w \in Ids |-> 0]
        /\ toMark = 1..0
    BY DEF MarkInit, At, InRound
  <2>3. NotStarted /\ NoneStartsLate
    BY <2>2 DEF NotStarted, NoneStartsLate
  <2>4. RestBetween /\ FinishedExact /\ TakenIsMarked /\ MarkedBeforeRecycle
    BY <2>2 DEF RestBetween, Started, FinishedExact, TakenIsMarked, MarkedBeforeRecycle
  <2>5. ListExact
    BY <2>2 DEF ListExact
  <2>. QED
    BY <2>1, <2>3, <2>4, <2>5 DEF MarkInv
<1>2. MarkInv /\ [MarkNext]_workVars => MarkInv'
  <2>. SUFFICES ASSUME MarkInv, [MarkNext]_workVars PROVE MarkInv'
    OBVIOUS
  <2>1. CASE EnterSweep \/ SweeperStep \/ ForkChild
    <3>1. MarkTypeOK'
      BY <2>1, SweeperTypeStep DEF MarkInv
    <3>. QED
      BY <2>1, <3>1, QuietInv, StartWorkerInv, RunWorkInv, SweeperWorksInv,
         AwaitWorkersInv, ForkInv DEF SweeperStep
  <2>2. ASSUME NEW w \in Ids, WorkerStep(w) PROVE MarkInv'
    BY <2>2, WorkerInv
  <2>3. CASE UNCHANGED workVars
    BY <2>3 DEF workVars, listVars, roundVars, startVars, markVars, MarkInv,
       MarkTypeOK, NotStarted, NoneStartsLate, RestBetween, FinishedExact, ListExact,
       TakenIsMarked, MarkedBeforeRecycle, InRound, Started, Rests, Done, BeingMarked
  <2>. QED
    BY <2>1, <2>2, <2>3 DEF MarkNext
<1>. QED
  BY <1>1, <1>2, PTL DEF MarkSpec

\* runWork returns after the last mark, whichever thread took it and
\* however many workers there are: nothing is recycled unread.
THEOREM RecyclesMarked ==
  ASSUME ~LiveFalls
  PROVE  MarkSpec => []MarkedBeforeRecycle
<1>1. MarkInv => MarkedBeforeRecycle
  BY DEF MarkInv
<1>. QED
  BY <1>1, MarkInvariance, PTL

\* No worker reads the program's memory once runWork returned: workers that
\* were not waited for would fault when a thread unmaps what they read.
THEOREM WorkersQuiet ==
  ASSUME ~LiveFalls
  PROVE  MarkSpec => []QuietAfterMark
<1>1. MarkInv => QuietAfterMark
  <2>. SUFFICES ASSUME MarkInv, ~InRound, NEW w \in Ids
                PROVE  worker[w].at # "mark"
    BY DEF QuietAfterMark, InRound
  <2>1. CASE w \in Started
    BY <2>1 DEF MarkInv, RestBetween, Rests
  <2>2. CASE w \notin Started
    <3>1. w > workerCount
      BY <2>2 DEF Started, Ids, MarkInv, MarkTypeOK
    <3>. QED
      BY <3>1 DEF MarkInv, NotStarted, At
  <2>. QED
    BY <2>1, <2>2
<1>. QED
  BY <1>1, MarkInvariance, PTL

-----------------------------------------------------------------------------
(***************************************************************************)
(* Reports: the table of reported sites.                                   *)
(***************************************************************************)

-----------------------------------------------------------------------------
(* The inductive invariant.                                                *)
(***************************************************************************)
Slots == 0..(SiteSlots - 1)
ReporterPlaces == {"run", "load", "claim", "print", "fault", "sent", "return"}

\* The thread is inside firstReport, or prints the line it owes.
Searches(t) == reporter[t].at \in {"load", "claim"}
Prints(t) == reporter[t].at = "print"

\* The variables keep their types, and a thread that reports has a site.
ReportsTypeOK ==
  /\ reportedSites \in [Slots -> Sites \cup {0}]
  /\ reporter \in [Reporters -> [at : ReporterPlaces, site : Sites \cup {0},
                                 probe : Slots, pending : BOOLEAN]]
  /\ lines \in [Sites -> Nat]
  /\ disposition \in Dispositions
  /\ \A t \in Reporters : Searches(t) \/ Prints(t) => reporter[t].site \in Sites

\* The slot of a site's q-th probe, and that the probe passed it: another
\* site has it.
Probe(s, q) == (s + q) % SiteSlots
Passed(s, q) == reportedSites[Probe(s, q)] \notin {0, s}

\* A site that has no slot and will find none.
Crowded(s) == \A k \in Slots : reportedSites[k] \notin {0, s}
Listed(s) == \E k \in Slots : reportedSites[k] = s

\* A thread has passed every slot before the one it looks at.
SearchExact ==
  \A t \in Reporters : Searches(t) =>
    \A j \in Slots : j < reporter[t].probe => Passed(reporter[t].site, j)

\* A site is found where its probes lead: every slot before it is another's.
TableExact ==
  \A s \in Sites : \A k \in Slots : reportedSites[k] = s =>
    \E p \in Slots : Probe(s, p) = k /\ \A j \in Slots : j < p => Passed(s, j)

\* In report mode a site that has, or may get, a slot has one line at most,
\* printed or owed by the thread that claimed the slot.
OwedOnce ==
  ~abortSetting =>
    \A s \in Sites : ~Crowded(s) =>
      /\ lines[s] <= 1
      /\ lines[s] = 1 => Listed(s)
      /\ \A t \in Reporters : Prints(t) /\ reporter[t].site = s =>
           /\ Listed(s) /\ lines[s] = 0
           /\ \A u \in Reporters : Prints(u) /\ reporter[u].site = s => u = t

\* With WEAVEC_RT_ABORT the first failure prints its line and traps.
AbortsOnce ==
  abortSetting =>
    /\ \A t \in Reporters : ~Searches(t) /\ ~Prints(t)
    /\ \A s \in Sites : lines[s] <= 1
    /\ Going => \A s \in Sites : lines[s] = 0

ReportsInv ==
  /\ ReportsTypeOK
  /\ SearchExact
  /\ TableExact
  /\ OwedOnce
  /\ AbortsOnce

-----------------------------------------------------------------------------
(* The probes.  The slot of a probe is a remainder, and SiteSlots probes   *)
(* in a row reach every slot.                                              *)
(***************************************************************************)

\* Division with remainder.
LEMMA ModSplit ==
  ASSUME NEW m \in Nat \ {0}, NEW x \in Nat
  PROVE  /\ x % m \in 0..(m - 1) /\ x \div m \in Nat
         /\ x = m * (x \div m) + (x % m)
  OBVIOUS

LEMMA ModOf ==
  ASSUME NEW m \in Nat \ {0}, NEW d \in Nat, NEW r \in 0..(m - 1)
  PROVE  (m * d + r) % m = r
  OBVIOUS

\* Some probe of a site reaches each slot.
LEMMA ModOnto ==
  ASSUME NEW m \in Nat \ {0}, NEW s \in Nat, NEW k \in 0..(m - 1)
  PROVE  \E q \in 0..(m - 1) : (s + q) % m = k
<1>. DEFINE r == s % m
            d == s \div m
<1>1. r \in 0..(m - 1) /\ d \in Nat /\ s = m * d + r
  BY ModSplit
<1>. HIDE DEF r, d
<1>2. CASE k >= r
  <2>1. k - r \in 0..(m - 1) /\ s + (k - r) = m * d + k
    BY <1>1, <1>2
  <2>2. (s + (k - r)) % m = k
    BY <1>1, <2>1, ModOf
  <2>. QED
    BY <2>1, <2>2
<1>3. CASE k < r
  <2>1. /\ (k + m) - r \in 0..(m - 1) /\ d + 1 \in Nat
        /\ s + ((k + m) - r) = m * (d + 1) + k
    BY <1>1, <1>3
  <2>2. (s + ((k + m) - r)) % m = k
    BY <1>1, <2>1, ModOf
  <2>. QED
    BY <2>1, <2>2
<1>. QED
  BY <1>1, <1>2, <1>3

LEMMA ProbeSlot ==
  ASSUME NEW s \in Sites, NEW q \in Slots
  PROVE  Probe(s, q) \in Slots
<1>1. SiteSlots \in Nat \ {0} /\ s + q \in Nat
  BY ReportsAssumption DEF ReportsAssumption, Slots
<1>. QED
  BY <1>1, ModSplit DEF Probe, Slots

\* A site that passed all of its probes is crowded out.
LEMMA AllPassed ==
  ASSUME NEW s \in Sites, \A q \in Slots : Passed(s, q)
  PROVE  Crowded(s)
<1>. SUFFICES ASSUME NEW k \in Slots PROVE reportedSites[k] \notin {0, s}
  BY DEF Crowded
<1>1. SiteSlots \in Nat \ {0} /\ s \in Nat
  BY ReportsAssumption DEF ReportsAssumption
<1>2. PICK q \in Slots : Probe(s, q) = k
  BY <1>1, ModOnto DEF Slots, Probe
<1>. QED
  BY <1>2 DEF Passed

-----------------------------------------------------------------------------
(* Types.                                                                  *)
(***************************************************************************)
ReporterRecords == [at : ReporterPlaces, site : Sites \cup {0}, probe : Slots,
                    pending : BOOLEAN]

\* A thread moves to a record of its type.
LEMMA GoesType ==
  ASSUME ReportsTypeOK, NEW t \in Reporters, NEW r \in ReporterRecords, Goes(t, r),
         r.at \in {"load", "claim", "print"} => r.site \in Sites
  PROVE  /\ reporter' \in [Reporters -> ReporterRecords]
         /\ \A u \in Reporters : Searches(u)' \/ Prints(u)' => reporter'[u].site \in Sites
         /\ reporter'[t] = r /\ \A u \in Reporters : u # t => reporter'[u] = reporter[u]
<1>1. reporter'[t] = r /\ \A u \in Reporters : u # t => reporter'[u] = reporter[u]
  BY DEF ReportsTypeOK, Goes
<1>2. reporter' \in [Reporters -> ReporterRecords]
  BY DEF ReportsTypeOK, Goes, ReporterRecords
<1>. QED
  BY <1>1, <1>2 DEF ReportsTypeOK, Searches, Prints

LEMMA QuietRecord == Quiet \in ReporterRecords
<1>1. 0 \in Slots
  BY ReportsAssumption DEF ReportsAssumption, Slots
<1>. QED
  BY <1>1 DEF ReporterRecords, Quiet, ReporterPlaces

\* The next probe is in range, or the thread prints.
LEMMA NextProbeType ==
  ASSUME NEW r \in ReporterRecords
  PROVE  NextProbe(r) \in ReporterRecords /\ NextProbe(r).site = r.site
<1>1. r.probe \in Slots /\ SiteSlots \in Nat
  BY ReportsAssumption DEF ReportsAssumption, ReporterRecords
<1>2. r.probe + 1 < SiteSlots => r.probe + 1 \in Slots
  BY <1>1 DEF Slots
<1>. QED
  BY <1>2 DEF NextProbe, ReporterRecords, ReporterPlaces

-----------------------------------------------------------------------------
(* Steps that leave the table and the lines alone.                         *)
(***************************************************************************)

\* A thread may move to a probe whose predecessors it passed, to print a
\* site that is crowded out, or away from the table.
LEMMA MoveInv ==
  ASSUME ReportsInv, ReportsTypeOK', NEW t \in Reporters,
         UNCHANGED <<reportedSites, lines, abortSetting>>, Going' => Going,
         \A u \in Reporters : u # t => reporter'[u] = reporter[u],
         Searches(t)' => ~abortSetting /\ \A j \in Slots :
           j < reporter'[t].probe => Passed(reporter'[t].site, j),
         Prints(t)' => ~abortSetting /\ Crowded(reporter'[t].site)
  PROVE  ReportsInv'
<1>1. SearchExact'
  <2>. SUFFICES ASSUME NEW u \in Reporters, Searches(u)', NEW j \in Slots,
                       j < reporter'[u].probe
                PROVE  Passed(reporter[u].site, j)'
    BY DEF SearchExact
  <2>1. Passed(reporter'[u].site, j)
    <3>1. CASE u = t
      BY <3>1
    <3>2. CASE u # t
      BY <3>2 DEF ReportsInv, SearchExact, Searches
    <3>. QED
      BY <3>1, <3>2
  <2>. QED
    BY <2>1 DEF Passed
<1>2. TableExact'
  BY DEF ReportsInv, TableExact, Passed
<1>3. OwedOnce'
  <2>. SUFFICES ASSUME ~abortSetting', NEW s \in Sites, ~Crowded(s)'
                PROVE  /\ lines'[s] <= 1
                       /\ lines'[s] = 1 => Listed(s)'
                       /\ \A u \in Reporters : Prints(u)' /\ reporter'[u].site = s =>
                            /\ Listed(s)' /\ lines'[s] = 0
                            /\ \A v \in Reporters :
                                 Prints(v)' /\ reporter'[v].site = s => v = u
    BY DEF OwedOnce
  <2>0. ~abortSetting /\ ~Crowded(s) /\ lines' = lines /\ Listed(s)' = Listed(s)
    BY DEF Crowded, Listed
  <2>1. /\ lines[s] <= 1
        /\ lines[s] = 1 => Listed(s)
        /\ \A u \in Reporters : Prints(u) /\ reporter[u].site = s =>
             /\ Listed(s) /\ lines[s] = 0
             /\ \A v \in Reporters : Prints(v) /\ reporter[v].site = s => v = u
    BY <2>0 DEF ReportsInv, OwedOnce
  <2>2. \A u \in Reporters : Prints(u)' /\ reporter'[u].site = s =>
          Prints(u) /\ reporter[u].site = s
    BY <2>0 DEF Prints
  <2>. QED
    BY <2>0, <2>1, <2>2
<1>4. AbortsOnce'
  BY DEF ReportsInv, AbortsOnce, Searches, Prints
<1>. QED
  BY <1>1, <1>2, <1>3, <1>4 DEF ReportsInv

\* What the load, or the compare and exchange that failed, saw: the probes
\* go on, or all of them passed.
LEMMA SeenInv ==
  ASSUME ReportsInv, NEW t \in Reporters, Searches(t),
         reportedSites[SlotAt(t)] # 0,
         Goes(t, Seen(reporter[t], reportedSites[SlotAt(t)])),
         UNCHANGED <<reportedSites, lines, abortSetting, disposition, program>>
  PROVE  ReportsInv'
<1>. DEFINE r == reporter[t]
            s == reporter[t].site
            n == Seen(reporter[t], reportedSites[SlotAt(t)])
<1>1. /\ r \in ReporterRecords /\ s \in Sites /\ r.probe \in Slots
      /\ SiteSlots \in Nat /\ r.probe \in Nat /\ ~abortSetting
  BY ReportsAssumption
  DEF ReportsAssumption, ReportsInv, ReportsTypeOK, ReporterRecords, Slots, AbortsOnce
<1>2. n \in ReporterRecords /\ (n.at \in {"load", "claim", "print"} => n.site \in Sites)
  BY <1>1, NextProbeType, QuietRecord DEF Seen, Quiet, ReporterPlaces
<1>3. /\ reporter' \in [Reporters -> ReporterRecords]
      /\ \A u \in Reporters : Searches(u)' \/ Prints(u)' => reporter'[u].site \in Sites
      /\ reporter'[t] = n /\ \A u \in Reporters : u # t => reporter'[u] = reporter[u]
  BY <1>2, GoesType DEF ReportsInv
<1>4. ReportsTypeOK'
  BY <1>3 DEF ReportsInv, ReportsTypeOK, ReporterRecords
<1>5. CASE reportedSites[SlotAt(t)] = s
  <2>1. n = Quiet
    BY <1>5 DEF Seen
  <2>2. ~Searches(t)' /\ ~Prints(t)'
    BY <1>3, <2>1 DEF Searches, Prints, Quiet
  <2>. QED
    BY <1>3, <1>4, <2>2, MoveInv DEF Going
<1>6. CASE reportedSites[SlotAt(t)] # s
  <2>1. n = NextProbe(r)
    BY <1>6 DEF Seen
  <2>2. Passed(s, r.probe)
    BY <1>6 DEF Passed, Probe, SlotAt
  <2>3. \A j \in Slots : j < r.probe => Passed(s, j)
    BY DEF ReportsInv, SearchExact
  <2>4. \A j \in Slots : j < r.probe + 1 => Passed(s, j)
    <3>. SUFFICES ASSUME NEW j \in Slots, j < r.probe + 1 PROVE Passed(s, j)
      OBVIOUS
    <3>1. j < r.probe \/ j = r.probe
      BY <1>1 DEF Slots
    <3>. QED
      BY <2>2, <2>3, <3>1
  <2>5. CASE r.probe + 1 < SiteSlots
    <3>1. n = [r EXCEPT !.at = "load", !.probe = r.probe + 1]
      BY <2>1, <2>5 DEF NextProbe
    <3>2. n.site = s /\ n.probe = r.probe + 1 /\ n.at = "load"
      BY <1>1, <3>1 DEF ReporterRecords
    <3>3. ~Prints(t)'
      BY <1>3, <3>2 DEF Prints
    <3>. HIDE DEF n, r, s
    <3>4. \A j \in Slots : j < reporter'[t].probe => Passed(reporter'[t].site, j)
      BY <1>3, <2>4, <3>2
    <3>. QED
      BY <1>1, <1>3, <1>4, <3>3, <3>4, MoveInv DEF Going
  <2>6. CASE ~(r.probe + 1 < SiteSlots)
    <3>1. n = [r EXCEPT !.at = "print"]
      BY <2>1, <2>6 DEF NextProbe
    <3>2. n.site = s /\ n.at = "print"
      BY <1>1, <3>1 DEF ReporterRecords
    <3>3. \A j \in Slots : Passed(s, j)
      BY <1>1, <2>4, <2>6 DEF Slots
    <3>4. Crowded(s)
      BY <1>1, <3>3, AllPassed
    <3>5. ~Searches(t)' /\ reporter'[t].site = s
      BY <1>3, <3>2 DEF Searches
    <3>. HIDE DEF n, r, s
    <3>6. Crowded(reporter'[t].site)
      BY <3>4, <3>5
    <3>. QED
      BY <1>1, <1>3, <1>4, <3>5, <3>6, MoveInv DEF Going
  <2>. QED
    BY <2>5, <2>6
<1>. QED
  BY <1>5, <1>6

LEMMA LoadSlotInv ==
  ASSUME ReportsInv, NEW t \in Reporters, LoadSlot(t)
  PROVE  ReportsInv'
<1>1. /\ Searches(t) /\ reporter[t].at = "load"
      /\ UNCHANGED <<reportedSites, lines, abortSetting, disposition, program>>
  BY DEF LoadSlot, Searches, siteVars, faultVars
<1>2. CASE reportedSites[SlotAt(t)] # 0
  BY <1>1, <1>2, SeenInv DEF LoadSlot
<1>3. CASE reportedSites[SlotAt(t)] = 0
  <2>. DEFINE n == [reporter[t] EXCEPT !.at = "claim"]
  <2>1. reporter[t] \in ReporterRecords /\ reporter[t].site \in Sites /\ ~abortSetting
    BY <1>1 DEF ReportsInv, ReportsTypeOK, ReporterRecords, AbortsOnce
  <2>2. /\ n \in ReporterRecords /\ n.site = reporter[t].site
        /\ n.probe = reporter[t].probe /\ n.at = "claim"
    BY <2>1 DEF ReporterRecords, ReporterPlaces
  <2>3. Goes(t, n)
    BY <1>3 DEF LoadSlot
  <2>4. /\ reporter' \in [Reporters -> ReporterRecords]
        /\ \A u \in Reporters : Searches(u)' \/ Prints(u)' => reporter'[u].site \in Sites
        /\ reporter'[t] = n /\ \A u \in Reporters : u # t => reporter'[u] = reporter[u]
    BY <2>1, <2>2, <2>3, GoesType DEF ReportsInv
  <2>5. ReportsTypeOK'
    BY <1>1, <2>4 DEF ReportsInv, ReportsTypeOK, ReporterRecords
  <2>6. \A j \in Slots : j < reporter'[t].probe => Passed(reporter'[t].site, j)
    BY <1>1, <2>2, <2>4 DEF ReportsInv, SearchExact
  <2>7. ~Prints(t)'
    BY <2>2, <2>4 DEF Prints
  <2>. QED
    BY <1>1, <2>1, <2>4, <2>5, <2>6, <2>7, MoveInv DEF Going
<1>. QED
  BY <1>2, <1>3

-----------------------------------------------------------------------------
(* Steps that take a slot or print.                                        *)
(***************************************************************************)

\* A thread that finds an empty slot found no slot of its site: had another
\* thread claimed one, this one's probes would have met it first.
LEMMA EmptyUnlisted ==
  ASSUME ReportsInv, NEW t \in Reporters, Searches(t), reportedSites[SlotAt(t)] = 0
  PROVE  ~Listed(reporter[t].site)
<1>. DEFINE s == reporter[t].site
            p == reporter[t].probe
<1>1. s \in Sites /\ p \in Slots /\ Slots \subseteq Nat
  BY ReportsAssumption DEF ReportsAssumption, ReportsInv, ReportsTypeOK, Slots
<1>2. reportedSites[Probe(s, p)] = 0 /\ \A j \in Slots : j < p => Passed(s, j)
  BY DEF ReportsInv, SearchExact, SlotAt, Probe
<1>. SUFFICES ASSUME NEW k \in Slots, reportedSites[k] = s PROVE FALSE
  BY DEF Listed
<1>. HIDE DEF s, p
<1>3. PICK q \in Slots : Probe(s, q) = k /\ \A j \in Slots : j < q => Passed(s, j)
  BY <1>1 DEF ReportsInv, TableExact
<1>4. CASE q < p
  BY <1>2, <1>3, <1>4 DEF Passed
<1>5. CASE q = p
  <2>1. s # 0
    BY <1>1, ReportsAssumption DEF ReportsAssumption
  <2>. QED
    BY <1>2, <1>3, <1>5, <2>1
<1>6. CASE p < q
  <2>1. Passed(s, p)
    BY <1>1, <1>3, <1>6
  <2>. QED
    BY <1>2, <2>1 DEF Passed
<1>. QED
  BY <1>1, <1>4, <1>5, <1>6

\* The compare and exchange that succeeds: the thread owes the site's line.
LEMMA ClaimSlotInv ==
  ASSUME ReportsInv, NEW t \in Reporters, ClaimSlot(t)
  PROVE  ReportsInv'
<1>1. /\ Searches(t) /\ reporter[t].at = "claim"
      /\ UNCHANGED <<lines, abortSetting, disposition, program>>
  BY DEF ClaimSlot, Searches, faultVars
<1>2. CASE reportedSites[SlotAt(t)] # 0
  BY <1>1, <1>2, SeenInv DEF ClaimSlot
<1>3. CASE reportedSites[SlotAt(t)] = 0
  <2>. DEFINE s == reporter[t].site
              p == reporter[t].probe
              k == SlotAt(t)
              n == [reporter[t] EXCEPT !.at = "print"]
  <2>1. /\ reporter[t] \in ReporterRecords /\ s \in Sites /\ p \in Slots
        /\ ~abortSetting /\ k = Probe(s, p) /\ s # 0
    BY <1>1, ReportsAssumption
    DEF ReportsAssumption, ReportsInv, ReportsTypeOK, ReporterRecords, AbortsOnce,
        SlotAt, Probe
  <2>2. k \in Slots
    BY <2>1, ProbeSlot
  <2>3. n \in ReporterRecords /\ n.site = s /\ n.at = "print"
    BY <2>1 DEF ReporterRecords, ReporterPlaces
  <2>4. Goes(t, n) /\ reportedSites' = [reportedSites EXCEPT ![k] = s]
    BY <1>3 DEF ClaimSlot
  <2>5. /\ reporter' \in [Reporters -> ReporterRecords]
        /\ \A u \in Reporters : Searches(u)' \/ Prints(u)' => reporter'[u].site \in Sites
        /\ reporter'[t] = n /\ \A u \in Reporters : u # t => reporter'[u] = reporter[u]
    BY <2>1, <2>3, <2>4, GoesType DEF ReportsInv
  <2>6. /\ reportedSites'[k] = s /\ reportedSites[k] = 0
        /\ \A j \in Slots : j # k => reportedSites'[j] = reportedSites[j]
    BY <1>3, <2>2, <2>4 DEF ReportsInv, ReportsTypeOK
  <2>7. ReportsTypeOK'
    <3>1. reportedSites' \in [Slots -> Sites \cup {0}]
      BY <2>1, <2>4 DEF ReportsInv, ReportsTypeOK
    <3>. QED
      BY <1>1, <2>5, <3>1 DEF ReportsInv, ReportsTypeOK, ReporterRecords
  <2>8. ~Listed(s)
    BY <1>1, <1>3, EmptyUnlisted
  <2>9. \A j \in Slots : reportedSites[j] # 0 => reportedSites'[j] = reportedSites[j]
    BY <2>6
  <2>. HIDE DEF s, p, k, n
  <2>10. \A z \in Sites : \A q \in Slots : Passed(z, q) => Passed(z, q)'
    BY <2>9, ProbeSlot DEF Passed
  <2>11. SearchExact'
    <3>. SUFFICES ASSUME NEW u \in Reporters, Searches(u)', NEW j \in Slots,
                         j < reporter'[u].probe
                  PROVE  Passed(reporter[u].site, j)'
      BY DEF SearchExact
    <3>1. u # t
      BY <2>3, <2>5 DEF Searches
    <3>2. reporter'[u] = reporter[u] /\ reporter[u].site \in Sites /\ Searches(u)
      BY <2>5, <3>1 DEF Searches
    <3>3. Passed(reporter[u].site, j)
      BY <3>2 DEF ReportsInv, SearchExact
    <3>4. reportedSites'[Probe(reporter[u].site, j)] \notin {0, reporter[u].site}
      BY <2>10, <3>2, <3>3 DEF Passed
    <3>. QED
      BY <3>2, <3>4 DEF Passed
  <2>12. TableExact'
    <3>. SUFFICES ASSUME NEW z \in Sites, NEW i \in Slots, reportedSites'[i] = z
                  PROVE  \E q \in Slots : Probe(z, q) = i
                           /\ \A j \in Slots : j < q => Passed(z, j)'
      BY DEF TableExact
    <3>1. CASE i = k
      <4>1. \A j \in Slots : j < p => Passed(s, j)
        BY <1>1 DEF s, p, ReportsInv, SearchExact
      <4>. QED
        BY <2>1, <2>6, <2>10, <3>1, <4>1
    <3>2. CASE i # k
      <4>1. reportedSites[i] = z
        BY <2>6, <3>2
      <4>2. PICK q \in Slots : Probe(z, q) = i /\ \A j \in Slots : j < q => Passed(z, j)
        BY <4>1 DEF ReportsInv, TableExact
      <4>. QED
        BY <2>10, <4>2
    <3>. QED
      BY <3>1, <3>2
  <2>13. OwedOnce'
    <3>. SUFFICES ASSUME NEW z \in Sites, ~Crowded(z)'
                  PROVE  /\ lines[z] <= 1
                         /\ lines[z] = 1 => Listed(z)'
                         /\ \A u \in Reporters : Prints(u)' /\ reporter'[u].site = z =>
                              /\ Listed(z)' /\ lines[z] = 0
                              /\ \A v \in Reporters :
                                   Prints(v)' /\ reporter'[v].site = z => v = u
      BY <1>1 DEF OwedOnce
    <3>1. ~Crowded(z)
      BY <2>9 DEF Crowded
    <3>2. /\ lines[z] <= 1
          /\ lines[z] = 1 => Listed(z)
          /\ \A u \in Reporters : Prints(u) /\ reporter[u].site = z =>
               /\ Listed(z) /\ lines[z] = 0
               /\ \A v \in Reporters : Prints(v) /\ reporter[v].site = z => v = u
      BY <2>1, <3>1 DEF ReportsInv, OwedOnce
    <3>3. \A u \in Reporters : u # t /\ Prints(u)' => Prints(u) /\ reporter'[u] = reporter[u]
      BY <2>5 DEF Prints
    <3>4. CASE z = s
      <4>1. Listed(z)'
        BY <2>2, <2>6, <3>4 DEF Listed
      <4>2. lines[s] = 0
        <5>1. lines[s] \in Nat
          BY <2>1 DEF ReportsInv, ReportsTypeOK
        <5>2. lines[s] <= 1 /\ lines[s] # 1
          BY <2>8, <3>2, <3>4
        <5>. QED
          BY <5>1, <5>2
      <4>3. \A u \in Reporters : Prints(u)' /\ reporter'[u].site = s => u = t
        <5>. SUFFICES ASSUME NEW u \in Reporters, Prints(u)', reporter'[u].site = s,
                             u # t
                      PROVE  FALSE
          OBVIOUS
        <5>1. Prints(u) /\ reporter[u].site = s
          BY <3>3
        <5>. QED
          BY <2>8, <3>2, <3>4, <5>1
      <4>. QED
        BY <3>4, <4>1, <4>2, <4>3
    <3>5. CASE z # s
      <4>1. \A u \in Reporters : Prints(u)' /\ reporter'[u].site = z =>
              Prints(u) /\ reporter[u].site = z
        <5>1. reporter'[t].site = s
          BY <2>3, <2>5
        <5>. QED
          BY <3>3, <3>5, <5>1
      <4>2. z # 0
        BY ReportsAssumption DEF ReportsAssumption
      <4>3. Listed(z) => Listed(z)'
        BY <2>9, <4>2 DEF Listed
      <4>. QED
        BY <3>2, <4>1, <4>3
    <3>. QED
      BY <3>4, <3>5
  <2>14. AbortsOnce'
    BY <1>1, <2>1 DEF AbortsOnce
  <2>. QED
    BY <2>7, <2>11, <2>12, <2>13, <2>14 DEF ReportsInv
<1>. QED
  BY <1>2, <1>3

\* The thread prints the line it owes.
LEMMA PrintLineInv ==
  ASSUME ReportsInv, NEW t \in Reporters, PrintLine(t)
  PROVE  ReportsInv'
<1>. DEFINE s == reporter[t].site
<1>1. /\ Prints(t) /\ s \in Sites /\ ~abortSetting /\ Goes(t, Quiet)
      /\ lines' = [lines EXCEPT ![s] = @ + 1]
      /\ UNCHANGED <<reportedSites, abortSetting, disposition, program>>
  BY DEF PrintLine, Prints, faultVars, ReportsInv, ReportsTypeOK, AbortsOnce
<1>2. Quiet \in ReporterRecords
  BY QuietRecord
<1>3. /\ reporter' \in [Reporters -> ReporterRecords]
      /\ \A u \in Reporters : Searches(u)' \/ Prints(u)' => reporter'[u].site \in Sites
      /\ reporter'[t] = Quiet /\ \A u \in Reporters : u # t => reporter'[u] = reporter[u]
  BY <1>1, <1>2, GoesType DEF ReportsInv, Quiet
<1>4. ReportsTypeOK'
  <2>1. lines' \in [Sites -> Nat]
    BY <1>1 DEF ReportsInv, ReportsTypeOK
  <2>. QED
    BY <1>1, <1>3, <2>1 DEF ReportsInv, ReportsTypeOK, ReporterRecords
<1>5. \A u \in Reporters : Searches(u)' \/ Prints(u)' => reporter'[u] = reporter[u] /\ u # t
  BY <1>3 DEF Searches, Prints, Quiet
<1>6. SearchExact' /\ TableExact'
  BY <1>1, <1>5 DEF ReportsInv, SearchExact, TableExact, Passed, Searches
<1>7. OwedOnce'
  <2>. SUFFICES ASSUME NEW z \in Sites, ~Crowded(z)
                PROVE  /\ lines'[z] <= 1
                       /\ lines'[z] = 1 => Listed(z)
                       /\ \A u \in Reporters : Prints(u)' /\ reporter'[u].site = z =>
                            /\ Listed(z) /\ lines'[z] = 0
                            /\ \A v \in Reporters :
                                 Prints(v)' /\ reporter'[v].site = z => v = u
    BY <1>1 DEF OwedOnce, Crowded, Listed
  <2>1. /\ lines[z] <= 1
        /\ lines[z] = 1 => Listed(z)
        /\ \A u \in Reporters : Prints(u) /\ reporter[u].site = z =>
             /\ Listed(z) /\ lines[z] = 0
             /\ \A v \in Reporters : Prints(v) /\ reporter[v].site = z => v = u
    BY <1>1 DEF ReportsInv, OwedOnce
  <2>2. \A u \in Reporters : Prints(u)' => Prints(u) /\ reporter'[u] = reporter[u] /\ u # t
    BY <1>5 DEF Prints
  <2>3. CASE z = s
    <3>1. Listed(z) /\ lines[z] = 0
      BY <1>1, <2>1, <2>3
    <3>2. lines'[z] = 1
      BY <1>1, <2>3, <3>1 DEF ReportsInv, ReportsTypeOK
    <3>3. \A u \in Reporters : ~(Prints(u)' /\ reporter'[u].site = z)
      BY <1>1, <2>1, <2>2, <2>3
    <3>. QED
      BY <3>1, <3>2, <3>3
  <2>4. CASE z # s
    <3>1. lines'[z] = lines[z]
      BY <1>1, <2>4 DEF ReportsInv, ReportsTypeOK
    <3>. QED
      BY <2>1, <2>2, <3>1
  <2>. QED
    BY <2>3, <2>4
<1>8. AbortsOnce'
  BY <1>1 DEF AbortsOnce
<1>. QED
  BY <1>4, <1>6, <1>7, <1>8 DEF ReportsInv

\* A guard fails: the thread looks at its first slot, or the program traps.
LEMMA FailsInv ==
  ASSUME ReportsInv, NEW t \in Reporters, NEW s \in Sites, Fails(t, s)
  PROVE  ReportsInv'
<1>1. CASE ~abortSetting
  <2>. DEFINE n == [Quiet EXCEPT !.at = "load", !.site = s]
  <2>1. Goes(t, n) /\ UNCHANGED <<reportedSites, lines, abortSetting, disposition, program>>
    BY <1>1 DEF Fails, faultVars
  <2>2. n \in ReporterRecords /\ n.at = "load" /\ n.site = s /\ n.probe = Quiet.probe
    BY QuietRecord DEF ReporterRecords, ReporterPlaces
  <2>3. n.probe = 0
    BY <2>2 DEF Quiet
  <2>. HIDE DEF n
  <2>4. /\ reporter' \in [Reporters -> ReporterRecords]
        /\ \A u \in Reporters : Searches(u)' \/ Prints(u)' => reporter'[u].site \in Sites
        /\ reporter'[t] = n /\ \A u \in Reporters : u # t => reporter'[u] = reporter[u]
    BY <2>1, <2>2, <2>3, GoesType DEF ReportsInv
  <2>5. ReportsTypeOK'
    BY <2>1, <2>4 DEF ReportsInv, ReportsTypeOK, ReporterRecords
  <2>6. ~Prints(t)' /\ \A j \in Slots : ~(j < reporter'[t].probe)
    BY <2>2, <2>3, <2>4, ReportsAssumption DEF ReportsAssumption, Prints, Slots
  <2>. QED
    BY <1>1, <2>1, <2>4, <2>5, <2>6, MoveInv DEF Going
<1>2. CASE abortSetting
  <2>1. /\ Going /\ ~Going' /\ lines' = [lines EXCEPT ![s] = @ + 1]
        /\ UNCHANGED <<reportedSites, abortSetting, disposition, reporter>>
    BY <1>2 DEF Fails, faultVars, Going
  <2>2. \A z \in Sites : lines[z] = 0
    BY <1>2, <2>1 DEF ReportsInv, AbortsOnce
  <2>3. lines' \in [Sites -> Nat] /\ \A z \in Sites : lines'[z] <= 1
    BY <2>1, <2>2 DEF ReportsInv, ReportsTypeOK
  <2>4. ReportsTypeOK' /\ SearchExact' /\ TableExact'
    BY <2>1, <2>3 DEF ReportsInv, ReportsTypeOK, SearchExact, TableExact, Passed,
       Searches, Prints
  <2>5. OwedOnce' /\ AbortsOnce'
    BY <1>2, <2>1, <2>3 DEF ReportsInv, OwedOnce, AbortsOnce, Searches, Prints
  <2>. QED
    BY <2>4, <2>5 DEF ReportsInv
<1>. QED
  BY <1>1, <1>2

\* A signal and its handler are away from the table.
LEMMA SignalInv ==
  ASSUME ReportsInv, NEW t \in Reporters,
         \/ \E sent \in BOOLEAN : Signalled(t, sent)
         \/ ReportFault(t) \/ RaiseDefault(t) \/ ReturnFromHandler(t)
  PROVE  ReportsInv'
<1>1. UNCHANGED <<reportedSites, lines, abortSetting>>
  BY DEF Signalled, ReportFault, RaiseDefault, ReturnFromHandler, siteVars
<1>2. \/ reporter' = reporter
      \/ \E r \in ReporterRecords : r.at \in {"run", "fault", "sent", "return"} /\ Goes(t, r)
  <2>1. CASE ReportFault(t) \/ RaiseDefault(t)
    <3>1. reporter[t] \in ReporterRecords
      BY DEF ReportsInv, ReportsTypeOK, ReporterRecords
    <3>2. /\ [reporter[t] EXCEPT !.at = "sent"] \in ReporterRecords
          /\ [reporter[t] EXCEPT !.at = "return", !.pending = TRUE] \in ReporterRecords
      BY <3>1 DEF ReporterRecords, ReporterPlaces
    <3>3. /\ [reporter[t] EXCEPT !.at = "sent"].at = "sent"
          /\ [reporter[t] EXCEPT !.at = "return", !.pending = TRUE].at = "return"
      BY <3>1 DEF ReporterRecords
    <3>. QED
      BY <2>1, <3>2, <3>3 DEF ReportFault, RaiseDefault
  <2>2. ASSUME NEW sent, Delivered(t, sent)
        PROVE  \/ reporter' = reporter
               \/ Goes(t, Quiet)
               \/ Goes(t, [Quiet EXCEPT !.at = "sent"])
               \/ Goes(t, [Quiet EXCEPT !.at = "fault"])
    BY <2>2 DEF Delivered, ReportsInv, ReportsTypeOK, Dispositions
  <2>3. /\ Quiet \in ReporterRecords /\ [Quiet EXCEPT !.at = "sent"] \in ReporterRecords
        /\ [Quiet EXCEPT !.at = "fault"] \in ReporterRecords
    BY QuietRecord DEF ReporterPlaces, ReporterRecords
  <2>4. /\ Quiet.at = "run" /\ [Quiet EXCEPT !.at = "sent"].at = "sent"
        /\ [Quiet EXCEPT !.at = "fault"].at = "fault"
    BY DEF Quiet
  <2>. QED
    BY <2>1, <2>2, <2>3, <2>4 DEF Signalled, ReturnFromHandler
<1>3. disposition' \in Dispositions /\ (Going' => Going)
  BY DEF ReportsInv, ReportsTypeOK, Dispositions, Signalled, Delivered, ReportFault,
     RaiseDefault, ReturnFromHandler, Going
<1>4. ~Searches(t) /\ ~Prints(t)
  BY DEF Signalled, ReportFault, RaiseDefault, ReturnFromHandler, Searches, Prints, Quiet
<1>5. CASE reporter' = reporter
  <2>1. ReportsTypeOK'
    BY <1>1, <1>3, <1>5 DEF ReportsInv, ReportsTypeOK, Searches, Prints
  <2>2. ~Searches(t)' /\ ~Prints(t)'
    BY <1>4, <1>5 DEF Searches, Prints
  <2>. QED
    BY <1>1, <1>3, <1>5, <2>1, <2>2, MoveInv
<1>6. ASSUME NEW r \in ReporterRecords, r.at \in {"run", "fault", "sent", "return"}, Goes(t, r)
      PROVE  ReportsInv'
  <2>1. /\ reporter' \in [Reporters -> ReporterRecords]
        /\ \A u \in Reporters : Searches(u)' \/ Prints(u)' => reporter'[u].site \in Sites
        /\ reporter'[t] = r /\ \A u \in Reporters : u # t => reporter'[u] = reporter[u]
    BY <1>6, GoesType DEF ReportsInv
  <2>2. ReportsTypeOK'
    BY <1>1, <1>3, <2>1 DEF ReportsInv, ReportsTypeOK, ReporterRecords
  <2>3. ~Searches(t)' /\ ~Prints(t)'
    BY <1>6, <2>1 DEF Searches, Prints
  <2>. QED
    BY <1>1, <1>3, <2>1, <2>2, <2>3, MoveInv
<1>. QED
  BY <1>2, <1>5, <1>6

-----------------------------------------------------------------------------
(* The theorems.                                                           *)
(***************************************************************************)

\* The invariant holds, whatever the program does with its signals.
LEMMA ReportsInvariance == ReportsSpec => []ReportsInv
<1>1. ReportsInit => ReportsInv
  <2>. SUFFICES ASSUME ReportsInit PROVE ReportsInv
    OBVIOUS
  <2>1. /\ reportedSites = [k \in Slots |-> 0] /\ lines = [s \in Sites |-> 0]
        /\ reporter = [t \in Reporters |-> Quiet] /\ disposition \in Dispositions
    BY DEF ReportsInit, Slots, Dispositions
  <2>2. Quiet \in ReporterRecords
    BY QuietRecord
  <2>3. \A t \in Reporters : ~Searches(t) /\ ~Prints(t)
    BY <2>1 DEF Searches, Prints, Quiet
  <2>4. ReportsTypeOK
    BY <2>1, <2>2, <2>3 DEF ReportsTypeOK, ReporterRecords
  <2>5. SearchExact /\ OwedOnce /\ AbortsOnce
    BY <2>1, <2>3 DEF SearchExact, OwedOnce, AbortsOnce
  <2>6. TableExact
    BY <2>1, ReportsAssumption DEF ReportsAssumption, TableExact
  <2>. QED
    BY <2>4, <2>5, <2>6 DEF ReportsInv
<1>2. ReportsInv /\ [ReportsNext]_reportVars => ReportsInv'
  <2>. SUFFICES ASSUME ReportsInv, [ReportsNext]_reportVars PROVE ReportsInv'
    OBVIOUS
  <2>1. CASE ProgramSigaction \/ UNCHANGED reportVars
    <3>1. /\ UNCHANGED <<reportedSites, lines, abortSetting, reporter, program>>
          /\ disposition' \in Dispositions
      BY <2>1 DEF ProgramSigaction, reportVars, siteVars, faultVars, Dispositions,
         ReportsInv, ReportsTypeOK
    <3>2. ReportsTypeOK' /\ SearchExact' /\ TableExact'
      BY <3>1 DEF ReportsInv, ReportsTypeOK, SearchExact, TableExact, Passed, Searches,
         Prints
    <3>3. OwedOnce' /\ AbortsOnce'
      BY <3>1 DEF ReportsInv, OwedOnce, AbortsOnce, Searches, Prints, Crowded, Listed,
         Going
    <3>. QED
      BY <3>2, <3>3 DEF ReportsInv
  <2>2. ASSUME NEW t \in Reporters, NEW s \in Sites, Fails(t, s) PROVE ReportsInv'
    BY <2>2, FailsInv
  <2>3. ASSUME NEW t \in Reporters,
               \/ \E sent \in BOOLEAN : Signalled(t, sent)
               \/ ReporterStep(t)
        PROVE  ReportsInv'
    BY <2>3, LoadSlotInv, ClaimSlotInv, PrintLineInv, SignalInv DEF ReporterStep
  <2>. QED
    BY <2>1, <2>2, <2>3 DEF ReportsNext
<1>. QED
  BY <1>1, <1>2, PTL DEF ReportsSpec

\* firstReport prints a site twice only when the table was full before it
\* came: for any number of threads that fail there at once, and for any
\* sites whose hashes share slots.
THEOREM SitePrintedOnce == ReportsSpec => []OncePerSite
<1>1. ReportsInv => OncePerSite
  <2>. SUFFICES ASSUME ReportsInv, NEW s \in Sites, lines[s] > 1
                PROVE  \A k \in DOMAIN reportedSites : reportedSites[k] \notin {0, s}
    BY DEF OncePerSite
  <2>1. DOMAIN reportedSites = Slots /\ lines[s] \in Nat
    BY DEF ReportsInv, ReportsTypeOK
  <2>2. Crowded(s)
    BY <2>1 DEF ReportsInv, OwedOnce, AbortsOnce
  <2>. QED
    BY <2>1, <2>2 DEF Crowded
<1>. QED
  BY <1>1, ReportsInvariance, PTL
=============================================================================
