------------------------------ MODULE MarkWork ------------------------------
(***************************************************************************)
(* The mark workers of runtime/weavec_sweep.c.  A sweep of a large heap    *)
(* lists the ranges it has to read, wakes the workers by a round number,   *)
(* takes items from the list with them, and recycles once as many workers  *)
(* have finished as there are.  Workers are started by the sweeps that     *)
(* want them, while the program's threads still run, and live for ever;    *)
(* a child of fork has none.                                               *)
(*                                                                         *)
(* A section under workLock is one step.  takeWork runs without the lock:  *)
(* taking an item and marking it are steps of their own.                   *)
(***************************************************************************)
EXTENDS Naturals, Sequences, FiniteSets, FiniteSetsExt

CONSTANTS WorkersWanted,  \* workersWanted: how many workers there may be
          WorkSlots,      \* the length of the list
          MaxItems,       \* bound: the ranges of one sweep
          MaxMarks,      \* bound: the parallel sweeps of a behaviour
          LiveFalls       \* whether the program's live bytes may cross
                          \* ParallelBytes while the workers are started

ASSUME MarkWorkAssumption == /\ WorkersWanted \in Nat
                             /\ WorkSlots \in Nat
                             /\ MaxItems \in Nat
                             /\ MaxMarks \in Nat
                             /\ LiveFalls \in BOOLEAN

VARIABLES workCount, workNext, workRound, workersFinished, workerCount,
          workersFailed, seenRound, worker, sweeper, toMark, markedItems

listVars == <<workCount, workNext>>
roundVars == <<workRound, workersFinished>>
startVars == <<workerCount, workersFailed>>
markVars == <<toMark, markedItems>>
workVars == <<listVars, roundVars, startVars, seenRound, worker, sweeper, markVars>>

Ids == 1..WorkersWanted
At(place) == [at |-> place, item |-> 0]

-----------------------------------------------------------------------------
(* startWorkers: one worker at a time, each of which has at least written  *)
(* its task id before the next is started.  The loop tests the live bytes  *)
(* again before each, and the program's threads are still running.         *)
(***************************************************************************)
MarkInit ==
  /\ workCount = 0 /\ workNext = 0 /\ workRound = 0 /\ workersFinished = 0
  /\ workerCount = 0 /\ workersFailed = FALSE
  /\ seenRound = [w \in Ids |-> 0]
  /\ worker = [w \in Ids |-> At("none")]
  /\ sweeper = At("idle")
  /\ toMark = {} /\ markedItems = {}

EnterSweep ==
  /\ sweeper = At("idle") /\ workRound < MaxMarks
  /\ sweeper' = At("start")
  /\ UNCHANGED <<listVars, roundVars, startVars, seenRound, worker, markVars>>

StartWorker ==
  /\ sweeper = At("start") /\ ~workersFailed /\ workerCount < WorkersWanted
  /\ workerCount' = workerCount + 1
  /\ worker' = [worker EXCEPT ![workerCount'] = At("begin")]
  /\ UNCHANGED <<listVars, roundVars, workersFailed, seenRound, sweeper, markVars>>

StartFails ==
  /\ sweeper = At("start") /\ ~workersFailed /\ workerCount < WorkersWanted
  /\ workersFailed' = TRUE
  /\ UNCHANGED <<listVars, roundVars, workerCount, seenRound, worker, sweeper,
                 markVars>>

\* The loop ends when every worker runs, when one cannot be started, or
\* when the live bytes are fewer than ParallelBytes.  Whether the mark is
\* divided is decided by the live bytes once the threads are stopped:
\* without LiveFalls the heap was large all the while or not at all.
Divided == /\ workerCount # 0
           /\ LiveFalls \/ workersFailed \/ workerCount = WorkersWanted

StartedAll ==
  /\ sweeper = At("start")
  /\ LiveFalls \/ workersFailed \/ workerCount \in {0, WorkersWanted}
  /\ \E n \in 0..MaxItems : toMark' = 1..n
  /\ markedItems' = {}
  /\ sweeper' \in {At("serial")} \cup (IF Divided THEN {At("collect")} ELSE {})
  /\ workCount' = IF sweeper' = At("collect") THEN 0 ELSE workCount
  /\ UNCHANGED <<workNext, roundVars, startVars, seenRound, worker>>

-----------------------------------------------------------------------------
(* The list.  addWork lists an item, or marks it at once when the list is  *)
(* full.                                                                   *)
(***************************************************************************)
Serial ==
  /\ sweeper = At("serial")
  /\ markedItems' = toMark
  /\ sweeper' = At("recycle")
  /\ UNCHANGED <<listVars, roundVars, startVars, seenRound, worker, toMark>>

AddWork ==
  /\ sweeper = At("collect") /\ workCount < Cardinality(toMark)
  /\ workCount < WorkSlots
  /\ workCount' = workCount + 1
  /\ UNCHANGED <<workNext, roundVars, startVars, seenRound, worker, sweeper,
                 markVars>>

\* The items past the list's end, which only happen once it is full.
Beyond == {i \in toMark : i > workCount}

Collected ==
  /\ sweeper = At("collect")
  /\ workCount = Min({WorkSlots, Cardinality(toMark)})
  /\ markedItems' = markedItems \cup Beyond
  /\ sweeper' = At("run")
  /\ UNCHANGED <<listVars, roundVars, startVars, seenRound, worker, toMark>>

-----------------------------------------------------------------------------
(* runWork, takeWork and markWorker.                                       *)
(***************************************************************************)
\* Mutant: the reset of workersFinished is forgotten.
RunWorkCounted ==
  /\ sweeper = At("run")
  /\ workNext' = 0
  /\ workersFinished' = workersFinished
  /\ workRound' = workRound + 1
  /\ sweeper' = At("take")
  /\ UNCHANGED <<workCount, startVars, seenRound, worker, markVars>>

\* Mutant: the round's number is not advanced: no worker wakes.
RunWorkSilent ==
  /\ sweeper = At("run")
  /\ workNext' = 0
  /\ workersFinished' = 0
  /\ workRound' = workRound
  /\ sweeper' = At("take")
  /\ UNCHANGED <<workCount, startVars, seenRound, worker, markVars>>

RunWork ==
  /\ sweeper = At("run")
  /\ workNext' = 0
  /\ workersFinished' = 0
  /\ workRound' = workRound + 1
  /\ sweeper' = At("take")
  /\ UNCHANGED <<workCount, startVars, seenRound, worker, markVars>>

\* Mutant: the last item of the list is left.
TakenShort(after) == IF workNext + 1 < workCount
                     THEN [at |-> "mark", item |-> workNext + 1]
                     ELSE At(after)

\* The next item of a thread that takes work: the first one nobody took, or
\* none, and then it goes on to `after`.
Taken(after) == IF workNext < workCount
                THEN [at |-> "mark", item |-> workNext + 1]
                ELSE At(after)

TakeWork ==
  /\ sweeper = At("take")
  /\ sweeper' = Taken("await")
  /\ workNext' = workNext + 1
  /\ UNCHANGED <<workCount, roundVars, startVars, seenRound, worker, markVars>>

MarkItem ==
  /\ sweeper.at = "mark"
  /\ markedItems' = markedItems \cup {sweeper.item}
  /\ sweeper' = At("take")
  /\ UNCHANGED <<listVars, roundVars, startVars, seenRound, worker, toMark>>

AllFinished == workersFinished >= workerCount

AwaitWorkers ==
  /\ sweeper = At("await") /\ AllFinished
  /\ sweeper' = At("recycle")
  /\ UNCHANGED <<listVars, roundVars, startVars, seenRound, worker, markVars>>

\* weavecRtRecycle, and the rest of the sweep: the threads run again.
Recycled ==
  /\ sweeper = At("recycle")
  /\ sweeper' = At("idle")
  /\ UNCHANGED <<listVars, roundVars, startVars, seenRound, worker, markVars>>

\* A worker that has begun takes workLock and reads the round, and waits for
\* workGo while it is the one it has seen.
Notice(w) ==
  /\ worker[w].at \in {"begin", "wait"}
  /\ workRound # seenRound[w]
  /\ seenRound' = [seenRound EXCEPT ![w] = workRound]
  /\ worker' = [worker EXCEPT ![w] = At("take")]
  /\ UNCHANGED <<listVars, roundVars, startVars, sweeper, markVars>>

WaitForWork(w) ==
  /\ worker[w] = At("begin") /\ workRound = seenRound[w]
  /\ worker' = [worker EXCEPT ![w] = At("wait")]
  /\ UNCHANGED <<listVars, roundVars, startVars, seenRound, sweeper, markVars>>

WorkerTakes(w) ==
  /\ worker[w] = At("take")
  /\ worker' = [worker EXCEPT ![w] = Taken("finish")]
  /\ workNext' = workNext + 1
  /\ UNCHANGED <<workCount, roundVars, startVars, seenRound, sweeper, markVars>>

WorkerMarks(w) ==
  /\ worker[w].at = "mark"
  /\ markedItems' = markedItems \cup {worker[w].item}
  /\ worker' = [worker EXCEPT ![w] = At("take")]
  /\ UNCHANGED <<listVars, roundVars, startVars, seenRound, sweeper, toMark>>

\* It has the lock again when it counts itself, and tests the round at once.
Finish(w) ==
  /\ worker[w] = At("finish")
  /\ workersFinished' = workersFinished + 1
  /\ worker' = [worker EXCEPT ![w] = At("begin")]
  /\ UNCHANGED <<listVars, workRound, startVars, seenRound, sweeper, markVars>>

\* weavecRtSweepForkChild: fork holds the sweep's lock, and its child has no
\* worker.  What the list says stays.
ForkChild ==
  /\ sweeper = At("idle") /\ workerCount # 0
  /\ workerCount' = 0 /\ workRound' = 0 /\ workersFinished' = 0
  /\ worker' = [w \in Ids |-> At("none")]
  /\ seenRound' = [w \in Ids |-> 0]
  /\ UNCHANGED <<listVars, workersFailed, sweeper, markVars>>

WorkerStep(w) == Notice(w) \/ WaitForWork(w) \/ WorkerTakes(w)
                   \/ WorkerMarks(w) \/ Finish(w)
SweeperStep == StartWorker \/ StartFails \/ StartedAll \/ Serial \/ AddWork
                 \/ Collected \/ RunWork \/ TakeWork \/ MarkItem
                 \/ AwaitWorkers \/ Recycled

MarkNext == EnterSweep \/ SweeperStep \/ ForkChild \/ \E w \in Ids : WorkerStep(w)

MarkSpec == MarkInit /\ [][MarkNext]_workVars

\* The scheduler runs every worker, which no signal stops, and the sweeping
\* thread; nothing makes a program fork or start another sweep.
MarkFairness == /\ \A w \in Ids : WF_workVars(WorkerStep(w))
                /\ WF_workVars(SweeperStep)

-----------------------------------------------------------------------------
(* Properties.                                                             *)
(***************************************************************************)

\* A sweep recycles only once every range it listed, or marked at once, has
\* been read, by whichever thread took it: runWork returns after the last
\* mark.
MarkedBeforeRecycle == sweeper.at = "recycle" => toMark \subseteq markedItems

\* Once the sweeping thread leaves runWork no worker is reading the
\* program's memory: the threads run again, and may unmap it.
QuietAfterMark ==
  sweeper.at \in {"idle", "start", "serial", "collect", "run", "recycle"} =>
    \A w \in Ids : worker[w].at # "mark"

\* Every sweep that starts ends: no worker's finish is lost between the
\* reset of workersFinished and the wait for it, whatever failed to start.
SweepEnds == sweeper.at # "idle" ~> sweeper.at = "idle"
=============================================================================
