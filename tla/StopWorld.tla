----------------------------- MODULE StopWorld ------------------------------
(***************************************************************************)
(* How a sweep stops the other threads on Linux, and lets them run again    *)
(* (runtime/weavec_sweep.c: stopHandler, stopThreads, threadsChanged,       *)
(* resumeThreads, and the part of weavecRtSweep around them).               *)
(*                                                                          *)
(* One thread sweeps, again and again; Threads are the others. The kernel   *)
(* keeps at most one pending stop signal per thread, and the handler runs   *)
(* with every signal masked. Module Heap takes the outcome of a stop as one *)
(* step; this module shows when that is sound.                              *)
(*                                                                          *)
(* Abstractions: the table `stopped` is a set (an index is its thread); a   *)
(* stop's second is a choice of when it ends; a sweep marks in one step,    *)
(* before and after which other threads may run if they are not stopped.    *)
(***************************************************************************)
EXTENDS Integers, FiniteSets

CONSTANTS
    Threads,      \* the threads the process may have, but the sweeping one
    Starters,     \* those it starts with
    MaxSweeps,    \* bound: how many sweeps
    Prompt,       \* a handler that starts is not suspended for a second
    ShortLived,   \* a thread born during a sweep may exit during it
    ListFails     \* /proc/self/task may fail to open when it is read again

ASSUME StopAssumption ==
    /\ Starters \subseteq Threads
    /\ MaxSweeps \in Nat
    /\ {Prompt, ShortLived, ListFails} \subseteq BOOLEAN

VARIABLES
    (* The kernel *)
    alive,       \* the process's threads
    pending,     \* those with a stop signal not delivered yet
    blocked,     \* those whose mask holds the signal (a raw system call)
    (* The handler of each thread *)
    handlerAt,          \* where the thread is; "out" runs the program
    seen,        \* its `generation`
    (* The runtime's shared state *)
    table,       \* stopped, but for the entries set to 0
    answered,    \* the threads whose stoppedSp is set
    stoppedCount,       \* stoppedCount
    generation,  \* stopGeneration
    stopping,
    (* The sweeping thread *)
    sweepAt,
    tasks,       \* the threads stopThreads listed
    unsent,      \* those it has not sent the signal to yet
    sent,
    sweeps,      \* how many sweeps have started
    ran          \* the threads that ran the program since the mark started

threadVars == <<alive, pending, blocked, handlerAt, seen>>
stopVars == <<alive, pending, blocked, handlerAt, seen, table, answered, stoppedCount,
          generation, stopping, sweepAt, tasks, unsent, sent, sweeps, ran>>

HandlerPlaces == {"out", "check", "find", "count", "wait"}
SweepPlaces == {"idle", "table", "on", "send", "wait", "mark", "changed",
                "recycle", "off", "resume"}
Marking == {"mark", "changed", "recycle"}

StopInit ==
    /\ alive = Starters
    /\ pending = {}
    /\ blocked = {}
    /\ handlerAt = [t \in Threads |-> "out"]
    /\ seen = [t \in Threads |-> 0]
    /\ table = {}
    /\ answered = {}
    /\ stoppedCount = 0
    /\ generation = 0
    /\ stopping = FALSE
    /\ sweepAt = "idle"
    /\ tasks = {}
    /\ unsent = {}
    /\ sent = 0
    /\ sweeps = 0
    /\ ran = {}

(* The thread runs the program: a signal it does not block is delivered     *)
(* before it runs on.                                                       *)
Runs(t) == t \in alive /\ handlerAt[t] = "out" /\ (t \in pending => t \in blocked)

(* No thread is between its handler's start and its answer. *)
HandlersSettled == \A t \in Threads : handlerAt[t] \in {"out", "wait"}

sweepVars == <<sweepAt, tasks, unsent, sent, sweeps>>
sharedVars == <<table, answered, stoppedCount, generation, stopping>>

-----------------------------------------------------------------------------
(* The program's threads *)

Run(t) ==
    /\ Runs(t)
    /\ sweepAt \in Marking
    /\ ran' = ran \cup {t}
    /\ UNCHANGED <<threadVars, sharedVars, sweepVars>>

(* A running thread creates another, with an identity no listed task has. *)
Create(t, u) ==
    /\ Runs(t)
    /\ u \in Threads \ (alive \cup tasks)
    /\ alive' = alive \cup {u}
    /\ UNCHANGED <<pending, blocked, handlerAt, seen, sharedVars, sweepVars, ran>>

(* Its pending signal is lost with it. *)
ThreadExit(t) ==
    /\ Runs(t)
    /\ ShortLived \/ t \in tasks \/ sweepAt = "idle"
    /\ alive' = alive \ {t}
    /\ pending' = pending \ {t}
    /\ blocked' = blocked \ {t}
    /\ UNCHANGED <<handlerAt, seen, sharedVars, sweepVars, ran>>

Block(t) ==
    /\ Runs(t)
    /\ blocked' = IF t \in blocked THEN blocked \ {t} ELSE blocked \cup {t}
    /\ UNCHANGED <<alive, pending, handlerAt, seen, sharedVars, sweepVars, ran>>

(* stopHandler, up to its first load. *)
Deliver(t) ==
    /\ t \in alive /\ handlerAt[t] = "out"
    /\ t \in pending \ blocked
    /\ pending' = pending \ {t}
    /\ handlerAt' = [handlerAt EXCEPT ![t] = "check"]
    /\ seen' = [seen EXCEPT ![t] = generation]
    /\ UNCHANGED <<alive, blocked, sharedVars, sweepVars, ran>>

(* A signal delivered after the sweep resumed the threads is answered at    *)
(* once.                                                                    *)
CheckStopping(t) ==
    /\ handlerAt[t] = "check"
    /\ handlerAt' = [handlerAt EXCEPT ![t] = IF stopping THEN "find" ELSE "out"]
    /\ UNCHANGED <<alive, pending, blocked, seen, sharedVars, sweepVars, ran>>

(* Only the threads asked count. *)
FindSelf(t) ==
    /\ handlerAt[t] = "find"
    /\ handlerAt' = [handlerAt EXCEPT ![t] = IF t \in table THEN "count" ELSE "out"]
    /\ UNCHANGED <<alive, pending, blocked, seen, sharedVars, sweepVars, ran>>

Answer(t) ==
    /\ handlerAt[t] = "count"
    /\ answered' = answered \cup {t}
    /\ stoppedCount' = stoppedCount + 1
    /\ handlerAt' = [handlerAt EXCEPT ![t] = "wait"]
    /\ UNCHANGED <<alive, pending, blocked, seen, table, generation, stopping,
                   sweepVars, ran>>

LeaveHandler(t) ==
    /\ handlerAt[t] = "wait"
    /\ generation # seen[t]
    /\ handlerAt' = [handlerAt EXCEPT ![t] = "out"]
    /\ UNCHANGED <<alive, pending, blocked, seen, sharedVars, sweepVars, ran>>

-----------------------------------------------------------------------------
(* The sweeping thread *)

(* stopThreads lists the tasks; alone, it has nothing to stop. *)
List ==
    /\ sweepAt = "idle"
    /\ sweeps < MaxSweeps
    /\ Prompt => HandlersSettled
    /\ sweeps' = sweeps + 1
    /\ tasks' = alive
    /\ ran' = {}
    /\ sweepAt' = IF alive = {} THEN "mark" ELSE "table"
    /\ UNCHANGED <<threadVars, sharedVars, unsent, sent>>

(* No task listed or too many of them, or no free signal: it stops nobody. *)
CannotStop ==
    /\ sweepAt = "table"
    /\ sweepAt' = "off"
    /\ UNCHANGED <<threadVars, sharedVars, tasks, unsent, sent, sweeps, ran>>

FillTable ==
    /\ sweepAt = "table"
    /\ table' = tasks
    /\ answered' = {}
    /\ stoppedCount' = 0
    /\ unsent' = tasks
    /\ sent' = 0
    /\ sweepAt' = "on"
    /\ UNCHANGED <<threadVars, generation, stopping, tasks, sweeps, ran>>

StartStopping ==
    /\ sweepAt = "on"
    /\ stopping' = TRUE
    /\ sweepAt' = "send"
    /\ UNCHANGED <<threadVars, table, answered, stoppedCount, generation, tasks,
                   unsent, sent, sweeps, ran>>

(* tgkill; it fails for a thread that has gone. *)
Send(t) ==
    /\ sweepAt = "send"
    /\ t \in unsent
    /\ unsent' = unsent \ {t}
    /\ \/ /\ t \in alive
          /\ pending' = pending \cup {t}
          /\ sent' = sent + 1
          /\ UNCHANGED table
       \/ /\ t \notin alive
          /\ table' = table \ {t}
          /\ UNCHANGED <<pending, sent>>
    /\ sweepAt' = IF unsent' = {} THEN "wait" ELSE "send"
    /\ UNCHANGED <<alive, blocked, handlerAt, seen, answered, stoppedCount, generation,
                   stopping, tasks, sweeps, ran>>

(* A thread that exited without an answer is no root. *)
NoticeExit(t) ==
    /\ sweepAt = "wait"
    /\ t \in table \ (answered \cup alive)
    /\ table' = table \ {t}
    /\ sent' = sent - 1
    /\ UNCHANGED <<threadVars, answered, stoppedCount, generation, stopping, sweepAt, tasks,
                   unsent, sweeps, ran>>

AllAnswered ==
    /\ sweepAt = "wait"
    /\ stoppedCount >= sent
    /\ sweepAt' = "mark"
    /\ UNCHANGED <<threadVars, sharedVars, tasks, unsent, sent, sweeps, ran>>

(* A second without the answers: nothing is marked. *)
TimeOut ==
    /\ sweepAt = "wait"
    /\ stoppedCount < sent
    /\ Prompt => HandlersSettled
    /\ sweepAt' = "off"
    /\ UNCHANGED <<threadVars, sharedVars, tasks, unsent, sent, sweeps, ran>>

(* weavecRtPrepareMarks found no memory for the marks. *)
NoMarks ==
    /\ sweepAt = "mark"
    /\ sweepAt' = "off"
    /\ UNCHANGED <<threadVars, sharedVars, tasks, unsent, sent, sweeps, ran>>

Mark ==
    /\ sweepAt = "mark"
    /\ sweepAt' = "changed"
    /\ UNCHANGED <<threadVars, sharedVars, tasks, unsent, sent, sweeps, ran>>

(* Fault: the threads are counted, not compared. *)
CountChanged ==
    /\ sweepAt = "changed"
    /\ sweepAt' = IF Cardinality(alive) > Cardinality(tasks) THEN "off" ELSE "recycle"
    /\ UNCHANGED <<threadVars, sharedVars, tasks, unsent, sent, sweeps, ran>>

(* threadsChanged compares the tasks listed now with the ones listed before; *)
(* a directory that does not open lists none.                                *)
ThreadsChanged ==
    /\ sweepAt = "changed"
    /\ \E now \in {alive} \cup (IF ListFails THEN {{}} ELSE {}) :
        sweepAt' = IF now \subseteq tasks THEN "recycle" ELSE "off"
    /\ UNCHANGED <<threadVars, sharedVars, tasks, unsent, sent, sweeps, ran>>

RecycleStopped ==
    /\ sweepAt = "recycle"
    /\ sweepAt' = "off"
    /\ UNCHANGED <<threadVars, sharedVars, tasks, unsent, sent, sweeps, ran>>

(* Fault: resumeThreads leaves `stopping` set. *)
StoppingLeft ==
    /\ sweepAt = "off"
    /\ sweepAt' = "resume"
    /\ UNCHANGED <<threadVars, sharedVars, tasks, unsent, sent, sweeps, ran>>

(* resumeThreads: two stores, in this order. *)
StopStopping ==
    /\ sweepAt = "off"
    /\ stopping' = FALSE
    /\ sweepAt' = "resume"
    /\ UNCHANGED <<threadVars, table, answered, stoppedCount, generation, tasks, unsent,
                   sent, sweeps, ran>>

Resume ==
    /\ sweepAt = "resume"
    /\ generation' = generation + 1
    /\ sweepAt' = "idle"
    /\ UNCHANGED <<threadVars, table, answered, stoppedCount, stopping, tasks, unsent,
                   sent, sweeps, ran>>

-----------------------------------------------------------------------------
Handler(t) == CheckStopping(t) \/ FindSelf(t) \/ Answer(t) \/ LeaveHandler(t)

Program(t) ==
    \/ Run(t) \/ ThreadExit(t) \/ Block(t) \/ Deliver(t)
    \/ \E u \in Threads : Create(t, u)

Stopper ==
    \/ CannotStop \/ FillTable \/ StartStopping
    \/ (\E t \in Threads : Send(t) \/ NoticeExit(t))
    \/ AllAnswered \/ TimeOut \/ NoMarks \/ Mark \/ ThreadsChanged \/ RecycleStopped
    \/ StopStopping \/ Resume

StopNext == List \/ Stopper \/ \E t \in Threads : Program(t) \/ Handler(t)

StopSpec == StopInit /\ [][StopNext]_stopVars

(***************************************************************************)
(* The sweeping thread and a thread in its handler are scheduled. (In a     *)
(* stop, its second ends.)                                                  *)
(***************************************************************************)
StopFairness ==
    /\ WF_stopVars(Stopper)
    /\ \A t \in Threads : WF_stopVars(Handler(t))

-----------------------------------------------------------------------------
(* Type correctness of the variables. *)
StopTypeOK ==
    /\ alive \subseteq Threads
    /\ pending \subseteq Threads
    /\ blocked \subseteq Threads
    /\ handlerAt \in [Threads -> HandlerPlaces]
    /\ seen \in [Threads -> Nat]
    /\ table \subseteq Threads
    /\ answered \subseteq Threads
    /\ stoppedCount \in Nat
    /\ generation \in Nat
    /\ stopping \in BOOLEAN
    /\ sweepAt \in SweepPlaces
    /\ tasks \subseteq Threads
    /\ unsent \subseteq Threads
    /\ sent \in Nat
    /\ sweeps \in 0 .. MaxSweeps
    /\ ran \subseteq Threads

(* A sweep that recycles has had the process to itself since it began to    *)
(* mark: no thread it missed, none that answered an earlier stop, ran       *)
(* meanwhile.                                                               *)
RecyclesAlone == sweepAt = "recycle" => ran = {}

(* Every thread that waits in its handler runs the program again, whatever  *)
(* the order in which its answers and the sweeps' stops come.               *)
NoneLeftWaiting == \A t \in Threads : handlerAt[t] = "wait" ~> handlerAt[t] = "out"

=============================================================================
