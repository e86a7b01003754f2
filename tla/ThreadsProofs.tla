--------------------------- MODULE ThreadsProofs ----------------------------
(***************************************************************************)
(* Proofs about the steps threads interleave: StopWorld for any set of      *)
(* threads and any number of sweeps, Pacing for any threads, sizes and      *)
(* budgets, and ForkCaches for any threads, slots and cache limit.          *)
(***************************************************************************)
EXTENDS StopWorld, Pacing, ForkCaches, FiniteSetTheorems, TLAPS

-----------------------------------------------------------------------------
(***************************************************************************)
(* StopWorld: stopping, sweeping and resuming the threads.                 *)
(***************************************************************************)

-----------------------------------------------------------------------------
(* The inductive invariants *)

(* While a stop is under way `sent` counts the entries of the table that    *)
(* have been sent the signal, so that the loop that takes exits off it ends *)
(* at zero.                                                                 *)
Sending == {"on", "send", "wait"}

SentExact ==
    sweepAt \in Sending =>
        /\ unsent \subseteq table
        /\ IsFiniteSet(table \ unsent)
        /\ sent = Cardinality(table \ unsent)
        /\ sweepAt = "wait" => unsent = {}

(* A thread in its handler has not exited. *)
HandlersAlive == \A t \in Threads : handlerAt[t] # "out" => t \in alive

(* A handler that has not answered took its generation in this sweep: the   *)
(* sweep began when the handlers were settled.                              *)
Answering == {"check", "find", "count"}

HandlersCurrent ==
    sweepAt # "idle" =>
        \A t \in Threads : handlerAt[t] \in Answering => seen[t] = generation

(* Until `stopping` is set no handler looks for itself in the table. *)
NoneEarly ==
    /\ sweepAt \in {"idle", "table", "on", "resume"} => ~stopping
    /\ sweepAt \in {"table", "on"} =>
          \A t \in Threads : handlerAt[t] \notin {"find", "count"}

(* The threads that answered this stop are counted once each, are in the    *)
(* table, and wait for this generation to end.                              *)
AnswersExact ==
    sweepAt \in Sending =>
        /\ answered \subseteq table
        /\ IsFiniteSet(answered)
        /\ stoppedCount = Cardinality(answered)
        /\ \A t \in answered : handlerAt[t] = "wait" /\ seen[t] = generation
        /\ \A t \in Threads : handlerAt[t] = "count" => t \in table

(* The table holds the listed threads that are left. *)
TableCovers == sweepAt \in Sending => table \subseteq tasks /\ tasks \cap alive \subseteq table

(* While the sweep marks, every listed thread that is left waits, and what  *)
(* ran is a thread that was not listed and is still there.                  *)
ListedStopped ==
    sweepAt \in Marking =>
        /\ \A t \in tasks \cap alive : handlerAt[t] = "wait" /\ seen[t] = generation
        /\ ran \subseteq alive \ tasks
        /\ sweepAt = "recycle" => alive \subseteq tasks

(* Before it marks nothing has been seen to run. *)
NoneRanEarly == sweepAt \in {"table"} \cup Sending => ran = {}

StopInv ==
    /\ StopTypeOK
    /\ SentExact
    /\ HandlersAlive
    /\ HandlersCurrent
    /\ NoneEarly
    /\ AnswersExact
    /\ TableCovers
    /\ ListedStopped
    /\ NoneRanEarly

-----------------------------------------------------------------------------
(* Types *)

TypeInv == StopTypeOK /\ SentExact

(* The first state has the types. *)
LEMMA TypeInit == StopInit => TypeInv
<1>. SUFFICES ASSUME StopInit PROVE TypeInv
  OBVIOUS
<1>1. handlerAt \in [Threads -> HandlerPlaces] /\ seen \in [Threads -> Nat]
  BY DEF StopInit, HandlerPlaces
<1>2. Starters \subseteq Threads /\ 0 \in 0 .. MaxSweeps
  BY StopAssumption DEF StopAssumption
<1>3. StopTypeOK
  BY <1>1, <1>2 DEF StopInit, StopTypeOK, SweepPlaces
<1>4. SentExact
  BY DEF StopInit, SentExact, Sending
<1>. QED
  BY <1>3, <1>4 DEF TypeInv

(* The program's threads and their handlers do not touch what the sweeping  *)
(* thread counts.                                                           *)
LEMMA ThreadTypeStep ==
    ASSUME TypeInv, NEW t \in Threads, Program(t) \/ Handler(t)
    PROVE  TypeInv'
<1>. USE DEF TypeInv, threadVars, sharedVars, sweepVars
<1>1. UNCHANGED <<table, generation, stopping, sweepVars>>
  BY DEF Program, Run, Create, ThreadExit, Block, Deliver, Handler,
     CheckStopping, FindSelf, Answer, LeaveHandler
<1>2. SentExact'
  BY <1>1 DEF SentExact
<1>3. alive' \subseteq Threads /\ pending' \subseteq Threads
        /\ blocked' \subseteq Threads /\ ran' \subseteq Threads
        /\ answered' \subseteq Threads /\ stoppedCount' \in Nat
  BY DEF StopTypeOK, Program, Run, Create, ThreadExit, Block, Deliver, Handler,
     CheckStopping, FindSelf, Answer, LeaveHandler
<1>4. handlerAt' \in [Threads -> HandlerPlaces] /\ seen' \in [Threads -> Nat]
  BY DEF StopTypeOK, HandlerPlaces, Program, Run, Create, ThreadExit, Block,
     Deliver, Handler, CheckStopping, FindSelf, Answer, LeaveHandler
<1>. QED
  BY <1>1, <1>2, <1>3, <1>4 DEF StopTypeOK

(* Sending a signal adds an entry to those sent, or strikes one out of the  *)
(* table.                                                                   *)
LEMMA SendTypeStep ==
    ASSUME TypeInv, NEW t \in Threads, Send(t)
    PROVE  TypeInv'
<1>. USE DEF TypeInv
<1>1. /\ unsent \subseteq table /\ IsFiniteSet(table \ unsent)
      /\ sent = Cardinality(table \ unsent)
      /\ t \in unsent /\ unsent' = unsent \ {t}
      /\ sweepAt' \in Sending /\ (sweepAt' = "wait" => unsent' = {})
  BY DEF SentExact, Sending, Send
<1>2. SentExact'
  <2>1. CASE t \in alive
    <3>1. table' \ unsent' = (table \ unsent) \cup {t}
      BY <1>1, <2>1 DEF Send
    <3>2. t \notin table \ unsent
      BY <1>1
    <3>3. IsFiniteSet((table \ unsent) \cup {t})
          /\ Cardinality((table \ unsent) \cup {t}) = Cardinality(table \ unsent) + 1
      BY <1>1, <3>2, FS_AddElement
    <3>. QED
      BY <1>1, <2>1, <3>1, <3>3 DEF SentExact, Send
  <2>2. CASE t \notin alive
    <3>1. table' \ unsent' = table \ unsent
      BY <1>1, <2>2 DEF Send
    <3>. QED
      BY <1>1, <2>2, <3>1 DEF SentExact, Send
  <2>. QED
    BY <2>1, <2>2
<1>3. StopTypeOK'
  BY <1>1 DEF StopTypeOK, Send, SweepPlaces
<1>. QED
  BY <1>2, <1>3

(* An entry struck out for its exit was among those sent: `sent` does not   *)
(* wrap.                                                                    *)
LEMMA NoticeTypeStep ==
    ASSUME TypeInv, NEW t \in Threads, NoticeExit(t)
    PROVE  TypeInv'
<1>. USE DEF TypeInv
<1>1. /\ unsent = {} /\ IsFiniteSet(table) /\ sent = Cardinality(table)
      /\ t \in table /\ table' = table \ {t} /\ unsent' = unsent
      /\ sent' = sent - 1 /\ sweepAt' = sweepAt
  <2>1. unsent = {} /\ IsFiniteSet(table \ unsent)
        /\ sent = Cardinality(table \ unsent)
    BY DEF SentExact, Sending, NoticeExit
  <2>2. table \ unsent = table
    BY <2>1
  <2>. QED
    BY <2>1, <2>2 DEF NoticeExit
<1>2. IsFiniteSet(table') /\ Cardinality(table') = sent - 1
  BY <1>1, FS_RemoveElement
<1>3. sent' \in Nat
  BY <1>1, <1>2, FS_CardinalityType
<1>4. table' \ unsent' = table'
  BY <1>1
<1>5. SentExact'
  BY <1>1, <1>2, <1>4 DEF SentExact
<1>6. StopTypeOK'
  BY <1>1, <1>3 DEF StopTypeOK, NoticeExit, threadVars
<1>. QED
  BY <1>5, <1>6

(* The other steps of the sweeping thread. *)
LEMMA SweepTypeStep ==
    ASSUME TypeInv, List \/ Stopper
    PROVE  TypeInv'
<1>. USE DEF TypeInv, threadVars, sharedVars
<1>1. ASSUME NEW t \in Threads, Send(t) \/ NoticeExit(t) PROVE TypeInv'
  BY <1>1, SendTypeStep, NoticeTypeStep
<1>2. CASE FillTable
  <2>1. table' \ unsent' = {} /\ sent' = 0 /\ unsent' = table'
    BY <1>2 DEF FillTable
  <2>2. SentExact'
    BY <1>2, <2>1, FS_EmptySet DEF SentExact, FillTable
  <2>3. StopTypeOK'
    BY <1>2 DEF StopTypeOK, FillTable, SweepPlaces
  <2>. QED
    BY <2>2, <2>3
<1>3. CASE StartStopping
  BY <1>3 DEF StopTypeOK, SentExact, Sending, StartStopping, SweepPlaces
<1>4. CASE List \/ Resume
  BY <1>4, StopAssumption
  DEF StopAssumption, StopTypeOK, SentExact, Sending, List, Resume, SweepPlaces
<1>5. CASE CannotStop \/ AllAnswered \/ TimeOut \/ NoMarks \/ Mark
             \/ ThreadsChanged \/ RecycleStopped \/ StopStopping
  BY <1>5
  DEF StopTypeOK, SentExact, Sending, CannotStop, AllAnswered, TimeOut, NoMarks,
      Mark, ThreadsChanged, RecycleStopped, StopStopping, SweepPlaces
<1>. QED
  BY <1>1, <1>2, <1>3, <1>4, <1>5 DEF Stopper

(* Every step keeps the types. *)
LEMMA TypeStep == TypeInv /\ [StopNext]_stopVars => TypeInv'
<1>. SUFFICES ASSUME TypeInv, [StopNext]_stopVars PROVE TypeInv'
  OBVIOUS
<1>1. CASE UNCHANGED stopVars
  BY <1>1 DEF stopVars, TypeInv, StopTypeOK, SentExact
<1>. QED
  BY <1>1, SweepTypeStep, ThreadTypeStep DEF StopNext

(* stopThreads and its handler keep the types of their state; the count of  *)
(* signals sent never goes below zero, whatever threads exit, whatever the  *)
(* environment may do.                                                      *)
THEOREM StopTypeCorrect == StopSpec => []StopTypeOK
<1>1. StopSpec => []TypeInv
  BY TypeInit, TypeStep, PTL DEF StopSpec
<1>. QED
  BY <1>1, PTL DEF TypeInv

-----------------------------------------------------------------------------
(* A sweep recycles alone *)

(* What the environment may not do: suspend a handler for the second a stop *)
(* waits, end a thread in the sweep it was born in, and fail to open        *)
(* /proc/self/task.  Without any one of them the promise is broken.         *)
Undisturbed == Prompt /\ ~ShortLived /\ ~ListFails

(* The first state satisfies the invariant. *)
LEMMA StopInitInv == StopInit => StopInv
<1>. SUFFICES ASSUME StopInit PROVE StopInv
  OBVIOUS
<1>1. TypeInv
  BY TypeInit
<1>2. HandlersAlive /\ HandlersCurrent /\ NoneEarly
  BY DEF StopInit, HandlersAlive, HandlersCurrent, NoneEarly
<1>3. AnswersExact /\ TableCovers /\ ListedStopped /\ NoneRanEarly
  BY DEF StopInit, AnswersExact, TableCovers, ListedStopped, NoneRanEarly,
     Sending, Marking
<1>. QED
  BY <1>1, <1>2, <1>3 DEF StopInv, TypeInv

(* A thread of the program: it runs while the sweep marks only if it was    *)
(* not listed, and if it exits then, it was listed.                         *)
LEMMA ProgramInv ==
    ASSUME Undisturbed, StopInv, TypeInv', NEW t \in Threads, Program(t)
    PROVE  StopInv'
<1>. USE DEF StopInv, StopTypeOK, TypeInv, threadVars, sharedVars, sweepVars, Runs
<1>1. CASE Run(t)
  <2>1. ListedStopped'
    BY <1>1 DEF Run, ListedStopped, Marking
  <2>2. NoneRanEarly'
    BY <1>1 DEF Run, NoneRanEarly, Marking, Sending
  <2>. QED
    BY <1>1, <2>1, <2>2
    DEF Run, HandlersAlive, HandlersCurrent, NoneEarly, AnswersExact, TableCovers
<1>2. ASSUME NEW u \in Threads, Create(t, u) PROVE StopInv'
  <2>1. TableCovers' /\ HandlersAlive'
    BY <1>2 DEF Create, TableCovers, HandlersAlive
  <2>2. ListedStopped'
    BY <1>2 DEF Create, ListedStopped, Marking
  <2>. QED
    BY <1>2, <2>1, <2>2
    DEF Create, HandlersCurrent, NoneEarly, AnswersExact, NoneRanEarly
<1>3. CASE ThreadExit(t)
  <2>1. TableCovers' /\ HandlersAlive'
    BY <1>3 DEF ThreadExit, TableCovers, HandlersAlive
  <2>2. ListedStopped'
    BY <1>3 DEF ThreadExit, ListedStopped, Marking, Undisturbed
  <2>. QED
    BY <1>3, <2>1, <2>2
    DEF ThreadExit, HandlersCurrent, NoneEarly, AnswersExact, NoneRanEarly
<1>4. CASE Block(t)
  BY <1>4
  DEF Block, HandlersAlive, HandlersCurrent, NoneEarly, AnswersExact, TableCovers,
      ListedStopped, NoneRanEarly
<1>5. CASE Deliver(t)
  <2>1. /\ handlerAt'[t] = "check" /\ seen'[t] = generation /\ handlerAt[t] = "out"
        /\ \A u \in Threads : u # t => handlerAt'[u] = handlerAt[u] /\ seen'[u] = seen[u]
    BY <1>5 DEF Deliver
  <2>2. HandlersAlive' /\ HandlersCurrent' /\ NoneEarly'
    BY <1>5, <2>1 DEF Deliver, HandlersAlive, HandlersCurrent, NoneEarly
  <2>3. AnswersExact'
    BY <1>5, <2>1 DEF Deliver, AnswersExact
  <2>4. ListedStopped'
    BY <1>5, <2>1 DEF Deliver, ListedStopped
  <2>. QED
    BY <1>5, <2>2, <2>3, <2>4 DEF Deliver, TableCovers, NoneRanEarly
<1>. QED
  BY <1>1, <1>2, <1>3, <1>4, <1>5 DEF Program

(* A handler answers once, for the generation it has seen, and then waits. *)
LEMMA HandlerInv ==
    ASSUME StopInv, TypeInv', NEW t \in Threads, Handler(t)
    PROVE  StopInv'
<1>. USE DEF StopInv, StopTypeOK, TypeInv, threadVars, sharedVars, sweepVars
<1>1. \A u \in Threads : u # t => handlerAt'[u] = handlerAt[u]
  BY DEF Handler, CheckStopping, FindSelf, Answer, LeaveHandler
<1>2. /\ UNCHANGED <<alive, seen, table, generation, stopping, sweepAt, tasks, ran>>
      /\ t \in alive
  BY DEF Handler, CheckStopping, FindSelf, Answer, LeaveHandler, HandlersAlive
<1>3. /\ handlerAt[t] = "wait" => generation # seen[t]
      /\ handlerAt'[t] \in {"find", "count"} => handlerAt[t] \in {"check", "find"}
      /\ handlerAt'[t] = "find" => stopping
      /\ handlerAt'[t] = "count" => t \in table /\ handlerAt[t] = "find"
      /\ handlerAt'[t] # "check"
  BY DEF Handler, CheckStopping, FindSelf, Answer, LeaveHandler
<1>4. HandlersAlive' /\ TableCovers' /\ NoneRanEarly'
  BY <1>1, <1>2 DEF HandlersAlive, TableCovers, NoneRanEarly
<1>5. HandlersCurrent' /\ NoneEarly'
  BY <1>1, <1>2, <1>3 DEF HandlersCurrent, NoneEarly, Answering
<1>6. ListedStopped'
  BY <1>1, <1>2, <1>3 DEF ListedStopped, Handler, CheckStopping, FindSelf, Answer,
     LeaveHandler
<1>7. AnswersExact'
  <2>1. CASE Answer(t)
    <3>. SUFFICES ASSUME sweepAt \in Sending PROVE AnswersExact'
      BY <1>2 DEF AnswersExact
    <3>1. t \in table /\ t \notin answered /\ seen[t] = generation
      BY <2>1 DEF Answer, AnswersExact, HandlersCurrent, Answering, Sending
    <3>2. IsFiniteSet(answered) /\ stoppedCount = Cardinality(answered)
      BY DEF AnswersExact
    <3>3. IsFiniteSet(answered \cup {t})
          /\ Cardinality(answered \cup {t}) = stoppedCount + 1
      BY <3>1, <3>2, FS_AddElement
    <3>. QED
      BY <1>1, <1>2, <2>1, <3>1, <3>3 DEF Answer, AnswersExact
  <2>2. CASE ~Answer(t)
    <3>1. UNCHANGED <<answered, stoppedCount>>
      BY <2>2 DEF Handler, CheckStopping, FindSelf, LeaveHandler
    <3>2. sweepAt \in Sending => t \notin answered
      BY <1>3, <2>2 DEF AnswersExact, Handler, CheckStopping, FindSelf, LeaveHandler
    <3>. QED
      BY <1>1, <1>2, <1>3, <3>1, <3>2 DEF AnswersExact
  <2>. QED
    BY <2>1, <2>2
<1>. QED
  BY <1>4, <1>5, <1>6, <1>7

(* A sweep begins: under Undisturbed no handler is between its start and    *)
(* its answer.                                                              *)
LEMMA ListInv ==
    ASSUME Undisturbed, StopInv, TypeInv', List
    PROVE  StopInv'
<1>. USE DEF StopInv, TypeInv, threadVars, sharedVars
<1>1. \A t \in Threads : handlerAt[t] \in {"out", "wait"}
  BY DEF List, HandlersSettled, Undisturbed
<1>2. HandlersAlive' /\ HandlersCurrent' /\ NoneEarly'
  BY <1>1 DEF List, HandlersAlive, HandlersCurrent, Answering, NoneEarly
<1>3. AnswersExact' /\ TableCovers' /\ NoneRanEarly'
  BY DEF List, AnswersExact, TableCovers, NoneRanEarly, Sending
<1>4. ListedStopped'
  BY DEF List, ListedStopped, Marking
<1>. QED
  BY <1>2, <1>3, <1>4

(* The table is filled, and then `stopping` set, before any handler looks.  *)
LEMMA FillInv ==
    ASSUME StopInv, TypeInv', FillTable \/ StartStopping
    PROVE  StopInv'
<1>. USE DEF StopInv, TypeInv, threadVars
<1>1. HandlersAlive' /\ HandlersCurrent' /\ NoneEarly'
  BY DEF FillTable, StartStopping, HandlersAlive, HandlersCurrent, NoneEarly
<1>2. TableCovers' /\ NoneRanEarly' /\ ListedStopped'
  BY DEF FillTable, StartStopping, TableCovers, NoneRanEarly, ListedStopped,
     Sending, Marking
<1>3. AnswersExact'
  <2>1. CASE FillTable
    BY <2>1, FS_EmptySet DEF FillTable, AnswersExact, NoneEarly
  <2>2. CASE StartStopping
    BY <2>2 DEF StartStopping, AnswersExact, NoneEarly, Sending
  <2>. QED
    BY <2>1, <2>2
<1>. QED
  BY <1>1, <1>2, <1>3

(* Only a thread that has exited leaves the table, and it has not answered. *)
LEMMA SendInv ==
    ASSUME StopInv, TypeInv', NEW t \in Threads, Send(t) \/ NoticeExit(t)
    PROVE  StopInv'
<1>. USE DEF StopInv, TypeInv, threadVars
<1>1. /\ sweepAt \in {"send", "wait"} /\ sweepAt' \in {"send", "wait"}
      /\ table' = table \/ (t \notin alive /\ table' = table \ {t})
      /\ UNCHANGED <<alive, handlerAt, seen, answered, stoppedCount, generation,
                     stopping, tasks, ran>>
  BY DEF Send, NoticeExit
<1>2. t \notin alive => handlerAt[t] = "out"
  BY DEF HandlersAlive
<1>3. HandlersAlive' /\ HandlersCurrent' /\ NoneEarly'
  BY <1>1 DEF HandlersAlive, HandlersCurrent, NoneEarly
<1>4. TableCovers' /\ NoneRanEarly' /\ ListedStopped'
  BY <1>1 DEF TableCovers, NoneRanEarly, ListedStopped, Sending, Marking
<1>5. AnswersExact'
  BY <1>1, <1>2 DEF AnswersExact, Sending
<1>. QED
  BY <1>3, <1>4, <1>5

(* As many answers as signals: every entry of the table has answered. *)
LEMMA AllAnsweredInv ==
    ASSUME StopInv, TypeInv', AllAnswered
    PROVE  StopInv'
<1>. USE DEF StopInv, TypeInv, threadVars, sharedVars
<1>1. unsent = {} /\ IsFiniteSet(table) /\ sent = Cardinality(table)
  <2>1. /\ unsent = {} /\ IsFiniteSet(table \ unsent)
        /\ sent = Cardinality(table \ unsent)
    BY DEF AllAnswered, SentExact, Sending
  <2>2. table \ unsent = table
    BY <2>1
  <2>. QED
    BY <2>1, <2>2
<1>2. answered \subseteq table /\ Cardinality(answered) >= Cardinality(table)
  BY <1>1 DEF AllAnswered, AnswersExact, Sending
<1>3. Cardinality(answered) <= Cardinality(table)
      /\ (Cardinality(table) = Cardinality(answered) => table = answered)
  BY <1>1, <1>2, FS_Subset
<1>4. Cardinality(answered) \in Nat /\ Cardinality(table) \in Nat
  BY <1>1, <1>2, FS_Subset, FS_CardinalityType
<1>5. table = answered
  BY <1>2, <1>3, <1>4
<1>6. ListedStopped'
  BY <1>5 DEF AllAnswered, ListedStopped, AnswersExact, TableCovers, NoneRanEarly,
     Sending
<1>7. HandlersAlive' /\ HandlersCurrent' /\ NoneEarly'
  BY DEF AllAnswered, HandlersAlive, HandlersCurrent, NoneEarly
<1>8. AnswersExact' /\ TableCovers' /\ NoneRanEarly'
  BY DEF AllAnswered, AnswersExact, TableCovers, NoneRanEarly, Sending
<1>. QED
  BY <1>6, <1>7, <1>8

(* The rest of the sweep; threadsChanged sees every thread that was not     *)
(* listed, for it cannot have exited.                                       *)
LEMMA FinishInv ==
    ASSUME Undisturbed, StopInv, TypeInv',
           CannotStop \/ TimeOut \/ NoMarks \/ Mark \/ ThreadsChanged
             \/ RecycleStopped \/ StopStopping \/ Resume
    PROVE  StopInv'
<1>. USE DEF StopInv, TypeInv, threadVars, sharedVars
<1>. USE DEF CannotStop, TimeOut, NoMarks, Mark, ThreadsChanged, RecycleStopped,
             StopStopping, Resume
<1>1. AnswersExact' /\ TableCovers' /\ NoneRanEarly'
  BY DEF AnswersExact, TableCovers, NoneRanEarly, Sending
<1>2. HandlersAlive' /\ NoneEarly' /\ HandlersCurrent'
  BY DEF HandlersAlive, NoneEarly, HandlersCurrent
<1>3. ListedStopped'
  BY DEF ListedStopped, Marking, Undisturbed
<1>. QED
  BY <1>1, <1>2, <1>3

(* Every step keeps the invariant. *)
LEMMA StopNextInv ==
    ASSUME Undisturbed
    PROVE  StopInv /\ [StopNext]_stopVars => StopInv'
<1>. SUFFICES ASSUME StopInv, [StopNext]_stopVars PROVE StopInv'
  OBVIOUS
<1>1. TypeInv'
  BY TypeStep DEF StopInv, TypeInv
<1>2. CASE UNCHANGED stopVars
  BY <1>1, <1>2
  DEF stopVars, StopInv, TypeInv, HandlersAlive, HandlersCurrent, NoneEarly,
      AnswersExact, TableCovers, ListedStopped, NoneRanEarly
<1>3. ASSUME NEW t \in Threads, Program(t) \/ Handler(t) PROVE StopInv'
  BY <1>1, <1>3, ProgramInv, HandlerInv
<1>4. CASE Stopper
  BY <1>1, <1>4, FillInv, SendInv, AllAnsweredInv, FinishInv DEF Stopper
<1>. QED
  BY <1>1, <1>2, <1>3, <1>4, ListInv DEF StopNext

(* The promise of stopThreads and threadsChanged, for any threads and any   *)
(* number of sweeps: a sweep that recycles ran alone since it began to      *)
(* mark.                                                                    *)
THEOREM SweepsAlone ==
    ASSUME Undisturbed
    PROVE  StopSpec => []RecyclesAlone
<1>1. StopInv => RecyclesAlone
  BY DEF StopInv, ListedStopped, Marking, RecyclesAlone
<1>2. StopInv /\ [StopNext]_stopVars => StopInv'
  BY StopNextInv
<1>. QED
  BY <1>1, <1>2, StopInitInv, PTL DEF StopSpec

-----------------------------------------------------------------------------
(***************************************************************************)
(* Pacing: the quarantine's counters and its budget.                       *)
(***************************************************************************)

-----------------------------------------------------------------------------
(* Arithmetic *)

(* A remainder is below its modulus. *)
LEMMA ModType ==
    ASSUME NEW m \in Nat \ {0}, NEW x \in Int
    PROVE  x % m \in 0 .. m - 1
  OBVIOUS

(* A number below twice the modulus wraps once at most, and never grows. *)
LEMMA ModOnce ==
    ASSUME NEW m \in Nat \ {0}, NEW x \in Nat
    PROVE  /\ x % m <= x
           /\ x < m => x % m = x
           /\ m <= x /\ x < 2 * m => x % m = x - m
  OBVIOUS

(* A size_t, and a size_t with the modulus added. *)
LEMMA ModSame ==
    ASSUME NEW m \in Nat \ {0}, NEW w \in 0 .. m - 1
    PROVE  w % m = w /\ (w + m) % m = w
<1>1. w \in Nat /\ w + m \in Nat /\ w < m /\ m <= w + m /\ w + m < 2 * m
  OBVIOUS
<1>2. w % m = w
  BY <1>1, ModOnce
<1>3. (w + m) % m = (w + m) - m
  BY <1>1, ModOnce
<1>. QED
  BY <1>1, <1>2, <1>3

(* Blocks of one size: more blocks have more bytes. *)
LEMMA Scale ==
    ASSUME NEW k \in Nat, NEW a \in Nat, NEW b \in Nat
    PROVE  /\ k * a \in Nat
           /\ k * (a + b) = k * a + k * b
           /\ a <= b => k * a <= k * b /\ k * (b - a) = k * b - k * a
  OBVIOUS

-----------------------------------------------------------------------------
(* The inductive invariant *)

(* Fewer bytes are released in all than a size_t counts. *)
FewBytes == Size * MaxReleases < Modulus

(* What a counter holds when n blocks have been added to it, on the whole:  *)
(* a sweep may take a block off before it is added.                         *)
Wrapped(n) == IF n >= 0 THEN Size * n ELSE Modulus + Size * n

(* The slots of the quarantine but for the ones not counted yet; with the   *)
(* huge blocks.                                                             *)
Net == queuedSlots - Cardinality(Counting)
NetAll == Net + hugeDead

(* The counters say what is held, but for the slots not counted yet. *)
BytesExact ==
    /\ IsFiniteSet(Counting)
    /\ quarantineBytes = Wrapped(Net)
    /\ hugeDeadBytes = Size * hugeDead

ReleasesBound ==
    /\ queuedSlots + hugeDead <= releases /\ releases <= MaxReleases
    /\ Cardinality(Counting) <= releases

(* One thread sweeps at a time. *)
OneSweeps ==
    \A t \in Releasers : pacingAt[t] \in {"recycle", "swept"} => sweepLock = t

(* What was held when the last sweep ended, beyond what it retained. *)
Leftover == Size * NetAll - retainedBytes - since

(* The next look at the clock is at most a hard budget of releases away. *)
CheckSoon ==
    /\ ~overdrawn => Leftover >= 0
    /\ ~overdrawn /\ (\A t \in Releasers : pacingAt[t] # "swept") =>
          nextPacingCheck <= Hard + Larger(Leftover, Soft \div 16)
    /\ \A t \in Releasers : pacingAt[t] = "pace" => gained[t] < Hard

PacingInv ==
    /\ PacingTypeOK
    /\ BytesExact
    /\ ReleasesBound
    /\ OneSweeps
    /\ CheckSoon

-----------------------------------------------------------------------------
(* Types *)

(* The constants are numbers; the budgets too. *)
LEMMA Budgets ==
    /\ Modulus \in Nat \ {0} /\ Size \in Nat \ {0}
    /\ Soft \in Nat /\ Hard \in Nat /\ Soft <= Hard /\ Soft \div 16 \in Nat
  BY PacingAssumption DEF PacingAssumption, Soft, Hard, Larger

(* What overBudget computes is a size_t. *)
LEMMA GainedType ==
    ASSUME PacingTypeOK
    PROVE  Gained \in 0 .. Modulus - 1
<1>1. (quarantineBytes + hugeDeadBytes) % Modulus \in 0 .. Modulus - 1
      /\ retainedBytes \in 0 .. Modulus - 1
  BY Budgets, ModType DEF PacingTypeOK
<1>. QED
  BY <1>1, Budgets DEF Gained

(* The first state has the types. *)
LEMMA PacingTypeInit == PacingInit => PacingTypeOK
<1>. SUFFICES ASSUME PacingInit PROVE PacingTypeOK
  OBVIOUS
<1>1. /\ pacingAt \in [Releasers -> PacingPlaces]
      /\ gained \in [Releasers -> 0 .. Modulus - 1]
  BY Budgets DEF PacingInit, PacingPlaces
<1>2. marked \in BOOLEAN /\ overdrawn \in BOOLEAN /\ sweepLock \in Releasers \cup {Nobody}
  BY Zenon DEF PacingInit
<1>. QED
  BY <1>1, <1>2, Budgets DEF PacingInit, PacingTypeOK

(* Every step keeps the types, with wrapping and without. *)
LEMMA PacingTypeStep == PacingTypeOK /\ [PacingNext]_pacingVars => PacingTypeOK'
<1>. SUFFICES ASSUME PacingTypeOK, [PacingNext]_pacingVars PROVE PacingTypeOK'
  OBVIOUS
<1>. USE Budgets DEF PacingTypeOK, Goto, PacingPlaces
<1>1. CASE UNCHANGED pacingVars
  BY <1>1 DEF pacingVars
<1>2. ASSUME NEW t \in Releasers, Queue(t) PROVE PacingTypeOK'
  BY <1>2 DEF Queue
<1>3. ASSUME NEW t \in Releasers, Count(t) PROVE PacingTypeOK'
  <2>1. (quarantineBytes + Size) % Modulus \in 0 .. Modulus - 1
    BY ModType
  <2>. QED
    BY <1>3, <2>1 DEF Count
<1>4. ASSUME NEW t \in Releasers, HugeFree(t) PROVE PacingTypeOK'
  <2>1. (hugeDeadBytes + Size) % Modulus \in 0 .. Modulus - 1
    BY ModType
  <2>. QED
    BY <1>4, <2>1 DEF HugeFree
<1>5. ASSUME NEW t \in Releasers, OverBudget(t) PROVE PacingTypeOK'
  <2>1. gained' \in [Releasers -> 0 .. Modulus - 1]
    BY <1>5, GainedType DEF OverBudget
  <2>2. pacingAt' \in [Releasers -> PacingPlaces]
    BY <1>5 DEF OverBudget
  <2>. QED
    BY <1>5, <2>1, <2>2 DEF OverBudget
<1>6. ASSUME NEW t \in Releasers, Pace(t) PROVE PacingTypeOK'
  <2>1. (gained[t] + Soft \div 16) % Modulus \in 0 .. Modulus - 1
    BY ModType
  <2>. QED
    BY <1>6, <2>1 DEF Pace
<1>7. ASSUME NEW t \in Releasers, PacedTrySweep(t) PROVE PacingTypeOK'
  BY <1>7 DEF PacedTrySweep
<1>8. ASSUME NEW t \in Releasers, RecycleCounted(t) PROVE PacingTypeOK'
  <2>. PICK s \in 0 .. queuedSlots, h \in 0 .. hugeDead :
        /\ queuedSlots' = queuedSlots - s
        /\ hugeDead' = hugeDead - h
        /\ quarantineBytes' = (quarantineBytes + Modulus - Size * s) % Modulus
        /\ hugeDeadBytes' = (hugeDeadBytes + Modulus - Size * h) % Modulus
    BY <1>8 DEF RecycleCounted
  <2>1. Size * s \in Int /\ Size * h \in Int
    OBVIOUS
  <2>2. quarantineBytes' \in 0 .. Modulus - 1 /\ hugeDeadBytes' \in 0 .. Modulus - 1
    BY <2>1, ModType
  <2>3. retainedBytes' \in 0 .. Modulus - 1
    BY <1>8, <2>2, ModType DEF RecycleCounted
  <2>. QED
    BY <1>8, <2>2, <2>3 DEF RecycleCounted
<1>9. ASSUME NEW t \in Releasers, CannotMark(t) PROVE PacingTypeOK'
  BY <1>9 DEF CannotMark
<1>10. ASSUME NEW t \in Releasers, Swept(t) PROVE PacingTypeOK'
  <2>0. Gained + Hard \in Int
    BY GainedType
  <2>1. (Gained + Hard) % Modulus \in 0 .. Modulus - 1
    BY <2>0, ModType
  <2>2. nextPacingCheck' \in 0 .. Modulus - 1 /\ since' \in Nat
    BY <1>10, <2>1 DEF Swept
  <2>. QED
    BY <1>10, <2>2 DEF Swept
<1>. QED
  BY <1>1, <1>2, <1>3, <1>4, <1>5, <1>6, <1>7, <1>8, <1>9, <1>10
  DEF PacingNext, Step

(* The counters stay in a size_t and the threads in their places, whatever  *)
(* sweeps interrupt: retire, hugeFree, overBudget, weavecRtSwept.           *)
THEOREM PacingTypeCorrect == PacingSpec => []PacingTypeOK
  BY PacingTypeInit, PacingTypeStep, PTL DEF PacingSpec

-----------------------------------------------------------------------------
(* The counters and the budgets *)

(* What the counters' arithmetic gives for numbers of blocks in the bound.  *)
LEMMA WrapAdd ==
    ASSUME FewBytes, NEW n \in Int, NEW k \in Int,
           -MaxReleases <= n, n <= MaxReleases,
           -MaxReleases <= n + k, n + k <= MaxReleases
    PROVE  /\ Wrapped(n) \in 0 .. Modulus - 1
           /\ k >= 0 => (Wrapped(n) + Size * k) % Modulus = Wrapped(n + k)
           /\ k <= 0 => (Wrapped(n) + Modulus - Size * (-k)) % Modulus = Wrapped(n + k)
<1>. USE Budgets
<1>0. MaxReleases \in Nat
  BY PacingAssumption DEF PacingAssumption
<1>1. ASSUME NEW i \in Int, -MaxReleases <= i, i <= MaxReleases
      PROVE  /\ Size * i \in Int /\ Size * i < Modulus /\ -Modulus < Size * i
             /\ i >= 0 => Size * i >= 0
             /\ i < 0 => Size * i < 0
             /\ Wrapped(i) \in 0 .. Modulus - 1
  <2>1. Size * i <= Size * MaxReleases /\ -(Size * MaxReleases) <= Size * i
        /\ Size * i \in Int /\ Size * MaxReleases \in Int
    BY <1>0, <1>1
  <2>2. (i >= 0 => Size * i >= 0) /\ (i < 0 => Size * i < 0)
    BY <1>1
  <2>. DEFINE y == Size * i
             z == Size * MaxReleases
  <2>3. y <= z /\ -z <= y /\ y \in Int /\ z \in Int /\ z < Modulus
        /\ (i >= 0 => y >= 0) /\ (i < 0 => y < 0)
        /\ Wrapped(i) = IF i >= 0 THEN y ELSE Modulus + y
    BY <2>1, <2>2 DEF FewBytes, Wrapped
  <2>. HIDE DEF y, z
  <2>4. y < Modulus /\ -Modulus < y
    BY <2>3
  <2>5. Wrapped(i) \in 0 .. Modulus - 1
    BY <1>1, <2>3, <2>4
  <2>. QED
    BY <2>3, <2>4, <2>5 DEF y
<1>. DEFINE a == Size * n
            b == Size * k
            c == Size * (n + k)
            w == Wrapped(n + k)
<1>2. a \in Int /\ b \in Int /\ c \in Int /\ c = a + b /\ Size * (-k) = -b
  OBVIOUS
<1>3. (k >= 0 => b >= 0) /\ (k <= 0 => b <= 0)
  OBVIOUS
<1>4. /\ Wrapped(n) = IF n >= 0 THEN a ELSE Modulus + a
      /\ w = IF n + k >= 0 THEN c ELSE Modulus + c
  BY DEF Wrapped
<1>5. Wrapped(n) \in 0 .. Modulus - 1 /\ w \in 0 .. Modulus - 1
  BY <1>1
<1>6. w % Modulus = w /\ (w + Modulus) % Modulus = w
  BY <1>5, ModSame
<1>. DEFINE v == Wrapped(n)
<1>7. v \in 0 .. Modulus - 1
  BY <1>5
<1>. HIDE DEF a, b, c, w, v
<1>8. ASSUME k >= 0 PROVE v + b = w \/ v + b = w + Modulus
  BY <1>2, <1>3, <1>4, <1>5, <1>7, <1>8 DEF v
<1>9. ASSUME k <= 0 PROVE v + Modulus - (-b) = w \/ v + Modulus - (-b) = w + Modulus
  BY <1>2, <1>3, <1>4, <1>5, <1>7, <1>9 DEF v
<1>10. k >= 0 => (v + b) % Modulus = w
  BY <1>6, <1>8
<1>11. k <= 0 => (v + Modulus - (-b)) % Modulus = w
  BY <1>6, <1>9
<1>12. k >= 0 => (Wrapped(n) + Size * k) % Modulus = Wrapped(n + k)
  BY <1>10 DEF v, b, w
<1>13. k <= 0 => (Wrapped(n) + Modulus - Size * (-k)) % Modulus = Wrapped(n + k)
  BY <1>2, <1>11 DEF v, w
<1>. QED
  BY <1>5, <1>12, <1>13

(* The numbers of blocks are in the bound. *)
LEMMA NetBound ==
    ASSUME PacingInv
    PROVE  /\ Net \in Int /\ -MaxReleases <= Net /\ Net <= MaxReleases
           /\ NetAll \in Int /\ -MaxReleases <= NetAll /\ NetAll <= MaxReleases
           /\ hugeDead \in Nat /\ hugeDead <= MaxReleases /\ MaxReleases \in Nat
           /\ Cardinality(Counting) \in Nat
           /\ Size * NetAll \in Int
<1>1. Cardinality(Counting) \in Nat /\ MaxReleases \in Nat
  BY FS_CardinalityType, PacingAssumption DEF BytesExact, PacingAssumption, PacingInv
<1>2. /\ queuedSlots \in Nat /\ hugeDead \in Nat /\ releases \in Nat
      /\ queuedSlots + hugeDead <= releases /\ releases <= MaxReleases
      /\ Cardinality(Counting) <= releases
  BY DEF PacingInv, PacingTypeOK, ReleasesBound
<1>3. NetAll \in Int
  BY <1>1, <1>2 DEF Net, NetAll
<1>. QED
  BY <1>1, <1>2, <1>3, Budgets DEF Net, NetAll

(* overBudget takes the true difference after a sweep that did not overdraw *)
(* the counters.                                                            *)
LEMMA HeldFits ==
    ASSUME FewBytes, PacingInv
    PROVE  /\ (quarantineBytes + hugeDeadBytes) % Modulus = Wrapped(NetAll)
           /\ ~overdrawn => Gained = Size * NetAll - retainedBytes
<1>. USE Budgets DEF PacingInv, PacingTypeOK
<1>1. (quarantineBytes + hugeDeadBytes) % Modulus = Wrapped(NetAll)
  <2>1. quarantineBytes = Wrapped(Net) /\ hugeDeadBytes = Size * hugeDead
    BY DEF BytesExact
  <2>2. (Wrapped(Net) + Size * hugeDead) % Modulus = Wrapped(Net + hugeDead)
    <3>1. NetAll = Net + hugeDead /\ hugeDead >= 0 /\ hugeDead \in Int
      BY NetBound DEF NetAll
    <3>. QED
      BY <3>1, NetBound, WrapAdd
  <2>. QED
    BY <2>1, <2>2 DEF NetAll
<1>2. ASSUME ~overdrawn PROVE Gained = Size * NetAll - retainedBytes
  <2>. DEFINE y == Size * NetAll
  <2>1. y \in Int /\ y - retainedBytes - since >= 0
    BY <1>2, NetBound DEF CheckSoon, Leftover
  <2>2. NetAll >= 0
    <3>1. y >= 0
      BY <2>1
    <3>2. NetAll \in Int
      BY NetBound
    <3>. QED
      BY <3>1, <3>2
  <2>3. Wrapped(NetAll) = y
    BY <2>2 DEF Wrapped
  <2>. HIDE DEF y
  <2>4. Gained = IF y > retainedBytes THEN y - retainedBytes ELSE 0
    BY <1>1, <2>3 DEF Gained
  <2>5. Gained = y - retainedBytes
    BY <2>1, <2>4
  <2>. QED
    BY <2>5 DEF y
<1>. QED
  BY <1>1, <1>2

(* A slot is queued, and is not counted yet. *)
LEMMA QueueInv ==
    ASSUME PacingInv, PacingTypeOK', NEW t \in Releasers, Queue(t)
    PROVE  PacingInv'
<1>. USE Budgets DEF PacingInv, PacingTypeOK, Queue, Goto
<1>1. Counting' = Counting \cup {t} /\ t \notin Counting
  BY DEF Counting
<1>2. IsFiniteSet(Counting') /\ Cardinality(Counting') = Cardinality(Counting) + 1
  BY <1>1, FS_AddElement DEF BytesExact
<1>3. Cardinality(Counting) \in Nat
  BY FS_CardinalityType DEF BytesExact
<1>4. Net' = Net /\ NetAll' = NetAll
  BY <1>2, <1>3 DEF Net, NetAll
<1>5. BytesExact'
  BY <1>2, <1>4 DEF BytesExact, Wrapped
<1>6. ReleasesBound' /\ OneSweeps'
  BY <1>2, <1>3, PacingAssumption DEF PacingAssumption, ReleasesBound, OneSweeps
<1>7. CheckSoon'
  <2>1. Leftover' = Leftover
    BY <1>4 DEF Leftover
  <2>. QED
    BY <2>1 DEF CheckSoon
<1>. QED
  BY <1>5, <1>6, <1>7

(* Bytes are counted: what is held and `since` grow alike. *)
LEMMA Grows ==
    ASSUME PacingInv, PacingTypeOK', NEW t \in Releasers, Goto(t, "budget"),
           pacingAt[t] # "swept", NetAll' = NetAll + 1, since' = since + Size,
           UNCHANGED <<retainedBytes, nextPacingCheck, gained, overdrawn>>
    PROVE  CheckSoon'
<1>. USE Budgets DEF PacingTypeOK
<1>1. NetAll \in Int /\ since \in Nat /\ retainedBytes \in Nat
  BY NetBound DEF PacingInv
<1>2. Size * (NetAll + 1) = Size * NetAll + Size /\ Size * NetAll \in Int
  BY <1>1
<1>3. Leftover' = Leftover
  <2>. DEFINE y == Size * NetAll
  <2>1. Leftover' = (y + Size) - retainedBytes - (since + Size) /\ Leftover = y - retainedBytes - since
        /\ y \in Int
    BY <1>2 DEF Leftover
  <2>. HIDE DEF y
  <2>. QED
    BY <1>1, <2>1
<1>4. \A u \in Releasers : /\ pacingAt'[u] = "swept" <=> pacingAt[u] = "swept"
                           /\ pacingAt'[u] = "pace" => pacingAt[u] = "pace"
  BY DEF Goto, PacingInv
<1>. QED
  BY <1>3, <1>4 DEF CheckSoon, PacingInv

(* A queued slot's bytes are counted. *)
LEMMA CountInv ==
    ASSUME FewBytes, PacingInv, PacingTypeOK', NEW t \in Releasers, Count(t)
    PROVE  PacingInv'
<1>. USE Budgets DEF PacingInv, PacingTypeOK, Count, Goto
<1>1. Counting' = Counting \ {t} /\ t \in Counting
  BY DEF Counting
<1>2. IsFiniteSet(Counting') /\ Cardinality(Counting') = Cardinality(Counting) - 1
  BY <1>1, FS_RemoveElement DEF BytesExact
<1>3. Cardinality(Counting) \in Nat /\ Cardinality(Counting') \in Nat
  BY <1>2, FS_CardinalityType DEF BytesExact
<1>4. Net' = Net + 1 /\ NetAll' = NetAll + 1
  BY <1>2, <1>3 DEF Net, NetAll
<1>5. quarantineBytes' = Wrapped(Net + 1)
  <2>1. Net + 1 <= MaxReleases
    BY <1>2, <1>3, NetBound DEF Net, ReleasesBound
  <2>2. (Wrapped(Net) + Size * 1) % Modulus = Wrapped(Net + 1)
    <3>1. 1 \in Int /\ 1 >= 0 /\ -MaxReleases <= Net + 1
      BY NetBound
    <3>. QED
      BY <2>1, <3>1, NetBound, WrapAdd
  <2>3. Size * 1 = Size /\ quarantineBytes = Wrapped(Net)
    BY DEF BytesExact
  <2>. QED
    BY <2>2, <2>3
<1>6. BytesExact'
  BY <1>2, <1>4, <1>5 DEF BytesExact, Wrapped
<1>7. ReleasesBound' /\ OneSweeps'
  BY <1>2, <1>3 DEF ReleasesBound, OneSweeps
<1>8. CheckSoon'
  BY <1>4, Grows
<1>. QED
  BY <1>6, <1>7, <1>8

(* A huge block is released and counted at once. *)
LEMMA HugeFreeInv ==
    ASSUME FewBytes, PacingInv, PacingTypeOK', NEW t \in Releasers, HugeFree(t)
    PROVE  PacingInv'
<1>. USE Budgets DEF PacingInv, PacingTypeOK, HugeFree, Goto
<1>1. Counting' = Counting
  BY DEF Counting
<1>2. MaxReleases \in Nat /\ hugeDead + 1 <= MaxReleases
  BY PacingAssumption DEF PacingAssumption, ReleasesBound
<1>3. Size * (hugeDead + 1) = hugeDeadBytes + Size
      /\ Size * (hugeDead + 1) <= Size * MaxReleases
  BY <1>2, Scale DEF BytesExact
<1>4. hugeDeadBytes' = hugeDeadBytes + Size
  <2>1. hugeDeadBytes + Size \in Nat /\ Size * MaxReleases \in Nat
    BY <1>2, Scale
  <2>2. hugeDeadBytes + Size < Modulus
    BY <1>3, <2>1 DEF FewBytes
  <2>. QED
    BY <2>1, <2>2, ModOnce
<1>5. Net' = Net /\ NetAll' = NetAll + 1
  BY <1>1, NetBound DEF Net, NetAll
<1>6. BytesExact'
  BY <1>1, <1>3, <1>4, <1>5 DEF BytesExact, Wrapped
<1>7. ReleasesBound' /\ OneSweeps'
  BY <1>1, <1>2, NetBound DEF ReleasesBound, OneSweeps
<1>8. CheckSoon'
  BY <1>5, Grows
<1>. QED
  BY <1>6, <1>7, <1>8

(* overBudget decides, and a thread that will store the next check found    *)
(* less than a hard budget.                                                 *)
LEMMA OverBudgetInv ==
    ASSUME PacingInv, PacingTypeOK', NEW t \in Releasers, OverBudget(t)
    PROVE  PacingInv'
<1>. USE Budgets DEF PacingInv, PacingTypeOK, OverBudget, Goto
<1>1. Counting' = Counting
  BY DEF Counting
<1>0. Net' = Net /\ NetAll' = NetAll
  BY <1>1 DEF Net, NetAll
<1>2. BytesExact'
  BY <1>0, <1>1 DEF BytesExact, Wrapped
<1>3. ReleasesBound' /\ OneSweeps'
  BY <1>1 DEF ReleasesBound, OneSweeps
<1>4. CheckSoon'
  <2>1. Leftover' = Leftover
    BY <1>0 DEF Leftover
  <2>. QED
    BY <2>1 DEF CheckSoon
<1>. QED
  BY <1>2, <1>3, <1>4

(* The store of the next check, which may come after any number of sweeps.  *)
LEMMA PaceInv ==
    ASSUME PacingInv, PacingTypeOK', NEW t \in Releasers, Pace(t)
    PROVE  PacingInv'
<1>. USE Budgets DEF PacingInv, PacingTypeOK, Pace, Goto
<1>1. Counting' = Counting
  BY DEF Counting
<1>0. Net' = Net /\ NetAll' = NetAll
  BY <1>1 DEF Net, NetAll
<1>2. BytesExact'
  BY <1>0, <1>1 DEF BytesExact, Wrapped
<1>3. ReleasesBound' /\ OneSweeps'
  BY <1>1 DEF ReleasesBound, OneSweeps
<1>4. nextPacingCheck' <= Hard + Soft \div 16
  <2>1. gained[t] + Soft \div 16 \in Nat /\ gained[t] < Hard
    BY DEF CheckSoon
  <2>2. (gained[t] + Soft \div 16) % Modulus <= gained[t] + Soft \div 16
    BY <2>1, ModOnce
  <2>. QED
    BY <2>1, <2>2
<1>5. CheckSoon'
  <2>1. Leftover' = Leftover /\ Leftover \in Int
    BY <1>0, NetBound DEF Leftover
  <2>. QED
    BY <1>4, <2>1 DEF CheckSoon, Larger
<1>. QED
  BY <1>2, <1>3, <1>5

(* A sweep begins, or fails to mark. *)
LEMMA TrySweepInv ==
    ASSUME PacingInv, PacingTypeOK', NEW t \in Releasers,
           PacedTrySweep(t) \/ CannotMark(t)
    PROVE  PacingInv'
<1>. USE Budgets DEF PacingInv, PacingTypeOK, PacedTrySweep, CannotMark, Goto
<1>1. Counting' = Counting
  BY DEF Counting
<1>0. Net' = Net /\ NetAll' = NetAll
  BY <1>1 DEF Net, NetAll
<1>2. BytesExact'
  BY <1>0, <1>1 DEF BytesExact, Wrapped
<1>3. ReleasesBound'
  BY <1>1 DEF ReleasesBound
<1>4. OneSweeps'
  BY PacingAssumption DEF OneSweeps, PacingAssumption
<1>5. CheckSoon'
  <2>1. Leftover' = Leftover
    BY <1>0 DEF Leftover
  <2>. QED
    BY <2>1 DEF CheckSoon
<1>. QED
  BY <1>2, <1>3, <1>4, <1>5

(* Recycling takes off the counters what it takes from the quarantine, and  *)
(* retains the rest.                                                        *)
LEMMA RecycleInv ==
    ASSUME FewBytes, PacingInv, PacingTypeOK', NEW t \in Releasers, RecycleCounted(t)
    PROVE  PacingInv'
<1>. USE Budgets DEF PacingInv, PacingTypeOK, Goto
<1>. PICK s \in 0 .. queuedSlots, h \in 0 .. hugeDead :
        /\ queuedSlots' = queuedSlots - s
        /\ hugeDead' = hugeDead - h
        /\ quarantineBytes' = (quarantineBytes + Modulus - Size * s) % Modulus
        /\ hugeDeadBytes' = (hugeDeadBytes + Modulus - Size * h) % Modulus
  BY DEF RecycleCounted
<1>1. Counting' = Counting
  BY DEF Counting, RecycleCounted
<1>2. /\ Net' = Net - s /\ Net' \in Int
      /\ NetAll' \in Int /\ NetAll' = Net' + hugeDead'
      /\ -MaxReleases <= Net' /\ Net' <= MaxReleases
      /\ -MaxReleases <= NetAll' /\ NetAll' <= MaxReleases
  <2>1. /\ Cardinality(Counting) \in Nat /\ MaxReleases \in Nat
        /\ Cardinality(Counting) <= releases /\ releases <= MaxReleases
        /\ queuedSlots + hugeDead <= releases
    BY NetBound DEF ReleasesBound
  <2>2. Net' = (queuedSlots - s) - Cardinality(Counting)
        /\ NetAll' = Net' + (hugeDead - h)
    BY <1>1 DEF Net, NetAll
  <2>3. Net = queuedSlots - Cardinality(Counting)
    BY DEF Net
  <2>. QED
    BY <2>1, <2>2, <2>3
<1>3. quarantineBytes' = Wrapped(Net')
  <2>1. -s \in Int /\ -s <= 0 /\ Net + -s = Net' /\ -(-s) = s
    BY <1>2, NetBound
  <2>2. (Wrapped(Net) + Modulus - Size * (-(-s))) % Modulus = Wrapped(Net + -s)
    BY <1>2, <2>1, NetBound, WrapAdd
  <2>3. quarantineBytes = Wrapped(Net)
    BY DEF BytesExact
  <2>4. (Wrapped(Net) + Modulus - Size * s) % Modulus = Wrapped(Net')
    BY <2>1, <2>2
  <2>. QED
    BY <2>3, <2>4
<1>4. /\ Size * h \in Nat /\ Size * h <= hugeDeadBytes
      /\ Size * (hugeDead - h) = hugeDeadBytes - Size * h
  BY Scale DEF BytesExact
<1>5. hugeDeadBytes' = Size * hugeDead'
  <2>. DEFINE x == hugeDeadBytes + Modulus - Size * h
  <2>1. x \in Nat /\ Modulus <= x /\ x < 2 * Modulus
        /\ x - Modulus = hugeDeadBytes - Size * h
    BY <1>4
  <2>2. hugeDeadBytes' = x % Modulus
    OBVIOUS
  <2>. HIDE DEF x
  <2>3. x % Modulus = x - Modulus
    BY <2>1, ModOnce
  <2>. QED
    BY <1>4, <2>1, <2>2, <2>3
<1>6. retainedBytes' = Wrapped(NetAll') /\ since' = 0
  <2>1. retainedBytes' = (Wrapped(Net') + Size * hugeDead') % Modulus /\ since' = 0
    BY <1>3, <1>5 DEF RecycleCounted
  <2>. DEFINE m == Net'
              k == hugeDead'
  <2>2. m \in Int /\ k \in Int /\ k >= 0 /\ m + k = NetAll'
        /\ -MaxReleases <= m /\ m <= MaxReleases
        /\ -MaxReleases <= m + k /\ m + k <= MaxReleases
    BY <1>2
  <2>. HIDE DEF m, k
  <2>3. (Wrapped(m) + Size * k) % Modulus = Wrapped(m + k)
    BY <2>2, WrapAdd
  <2>. QED
    BY <2>1, <2>2, <2>3 DEF m, k
<1>7. BytesExact'
  BY <1>1, <1>3, <1>5 DEF BytesExact, Wrapped
<1>8. ReleasesBound' /\ OneSweeps'
  BY <1>1, NetBound DEF ReleasesBound, OneSweeps, RecycleCounted
<1>9. CheckSoon'
  <2>1. ASSUME ~overdrawn' PROVE Leftover' = 0
    <3>1. NetAll' >= 0
      <4>1. /\ ~(queuedSlots' + hugeDead' < Cardinality(Counting))
            /\ NetAll' = (queuedSlots' - Cardinality(Counting)) + hugeDead'
        BY <1>1, <2>1 DEF RecycleCounted, Net, NetAll
      <4>. QED
        BY <4>1, NetBound
    <3>2. retainedBytes' = Size * NetAll' /\ retainedBytes' \in Int
      BY <1>6, <3>1 DEF Wrapped
    <3>. QED
      BY <1>6, <3>2 DEF Leftover
  <2>2. pacingAt'[t] = "swept"
        /\ \A u \in Releasers : pacingAt'[u] = "pace" =>
              pacingAt[u] = "pace" /\ gained'[u] = gained[u]
    BY DEF RecycleCounted
  <2>. QED
    BY <2>1, <2>2 DEF CheckSoon
<1>. QED
  BY <1>7, <1>8, <1>9

(* A sweep that marked lets the next release look at the clock; one that    *)
(* did not waits for a hard budget beyond what is held now.                 *)
LEMMA SweptInv ==
    ASSUME FewBytes, PacingInv, PacingTypeOK', NEW t \in Releasers, Swept(t)
    PROVE  PacingInv'
<1>. USE Budgets DEF PacingInv, PacingTypeOK, Swept, Goto
<1>1. Counting' = Counting
  BY DEF Counting
<1>0. Net' = Net /\ NetAll' = NetAll
  BY <1>1 DEF Net, NetAll
<1>2. BytesExact'
  BY <1>0, <1>1 DEF BytesExact, Wrapped
<1>3. ReleasesBound'
  BY <1>1 DEF ReleasesBound
<1>4. OneSweeps'
  BY PacingAssumption DEF OneSweeps, PacingAssumption
<1>5. CheckSoon'
  <2>1. \A u \in Releasers : pacingAt'[u] = "pace" =>
              pacingAt[u] = "pace" /\ gained'[u] = gained[u]
    OBVIOUS
  <2>2. CASE marked
    <3>1. nextPacingCheck' = 0 /\ Leftover' = Leftover /\ Leftover \in Int
      BY <1>0, <2>2, NetBound DEF Leftover
    <3>2. 0 <= Hard + Larger(Leftover', Soft \div 16)
      BY <3>1 DEF Larger
    <3>. QED
      BY <2>1, <3>1, <3>2 DEF CheckSoon
  <2>3. CASE ~marked
    <3>1. since' = 0 /\ (~overdrawn => Leftover' = Gained)
      BY <1>0, <2>3, HeldFits, NetBound DEF Leftover
    <3>2. Gained \in Nat
      BY GainedType
    <3>3. nextPacingCheck' <= Gained + Hard
      <4>1. Gained + Hard \in Nat
        BY <3>2
      <4>2. (Gained + Hard) % Modulus <= Gained + Hard
        BY <4>1, ModOnce
      <4>. QED
        BY <2>3, <4>2
    <3>. QED
      BY <2>1, <3>1, <3>2, <3>3 DEF CheckSoon, Larger
  <2>. QED
    BY <2>2, <2>3
<1>. QED
  BY <1>2, <1>3, <1>4, <1>5

(* Every step keeps the invariant. *)
LEMMA PacingNextInv ==
    ASSUME FewBytes
    PROVE  PacingInv /\ [PacingNext]_pacingVars => PacingInv'
<1>. SUFFICES ASSUME PacingInv, [PacingNext]_pacingVars PROVE PacingInv'
  OBVIOUS
<1>1. PacingTypeOK'
  BY PacingTypeStep DEF PacingInv
<1>2. CASE UNCHANGED pacingVars
  <2>1. Counting' = Counting
    BY <1>2 DEF Counting, pacingVars
  <2>2. Net' = Net /\ NetAll' = NetAll
    BY <1>2, <2>1 DEF Net, NetAll, pacingVars
  <2>3. Leftover' = Leftover
    BY <1>2, <2>2 DEF Leftover, pacingVars
  <2>. QED
    BY <1>1, <1>2, <2>1, <2>2, <2>3
    DEF pacingVars, PacingInv, BytesExact, Wrapped, ReleasesBound, OneSweeps, CheckSoon
<1>3. ASSUME NEW t \in Releasers, Step(t) PROVE PacingInv'
  BY <1>1, <1>3, QueueInv, CountInv, HugeFreeInv, OverBudgetInv, PaceInv,
     TrySweepInv, RecycleInv, SweptInv
  DEF Step
<1>. QED
  BY <1>2, <1>3 DEF PacingNext

(* The first state satisfies it. *)
LEMMA PacingInitInv == PacingInit => PacingInv
<1>. SUFFICES ASSUME PacingInit PROVE PacingInv
  OBVIOUS
<1>1. Counting = {}
  BY DEF PacingInit, Counting
<1>2. PacingTypeOK
  BY PacingTypeInit
<1>0. Cardinality(Counting) = 0 /\ IsFiniteSet(Counting) /\ Net = 0 /\ NetAll = 0
  BY <1>1, FS_EmptySet DEF PacingInit, Net, NetAll
<1>3. BytesExact
  BY <1>0, Budgets DEF PacingInit, BytesExact, Wrapped
<1>4. ReleasesBound /\ OneSweeps
  BY <1>0, PacingAssumption DEF PacingAssumption, PacingInit, ReleasesBound, OneSweeps
<1>5. CheckSoon
  <2>1. Leftover = 0
    BY <1>0, Budgets DEF PacingInit, Leftover
  <2>. QED
    BY <2>1, Budgets DEF PacingInit, CheckSoon, Larger
<1>. QED
  BY <1>2, <1>3, <1>4, <1>5 DEF PacingInv

(* The counters say what the quarantine holds whenever no release is half   *)
(* done, for any sizes and budgets, although a sweep may stop a thread that *)
(* has queued a slot and not counted it (retire, flushReleases) and recycle *)
(* that slot: the counter that wraps below zero wraps back.                 *)
THEOREM CountersCorrect ==
    ASSUME FewBytes
    PROVE  PacingSpec => []CountersExact
<1>1. PacingInv => CountersExact
  <2>. SUFFICES ASSUME PacingInv, \A t \in Releasers : pacingAt[t] # "count"
                PROVE  quarantineBytes = Size * queuedSlots
                         /\ hugeDeadBytes = Size * hugeDead
    BY DEF CountersExact
  <2>1. Counting = {}
    BY DEF Counting
  <2>2. Net = queuedSlots /\ queuedSlots \in Nat
    BY <2>1, FS_EmptySet DEF PacingInv, PacingTypeOK, Net
  <2>. QED
    BY <2>2 DEF PacingInv, BytesExact, Wrapped
<1>2. PacingInv /\ [PacingNext]_pacingVars => PacingInv'
  BY PacingNextInv
<1>. QED
  BY <1>1, <1>2, PacingInitInv, PTL DEF PacingSpec

(* While no sweep runs, overBudget lets no more than a hard budget and a    *)
(* sixteenth of the soft one be released before a sweep, for any sizes and  *)
(* budgets, whatever sweeps failed, whichever stores of the next check came *)
(* late and whichever threads a sweep stopped between queueing a slot and   *)
(* counting it, unless the last sweep that marked took off the counters     *)
(* more than they held.                                                     *)
THEOREM HardBudgetHolds ==
    ASSUME FewBytes
    PROVE  PacingSpec => HardBudgetUnlessOverdrawn
<1>1. ASSUME PacingInv, [PacingNext]_pacingVars, NEW t \in Releasers,
             pacingAt[t] = "budget", pacingAt'[t] \in {"run", "pace"},
             sweepLock = Nobody, ~overdrawn
      PROVE  since < Hard + Soft \div 16
  <2>. USE <1>1, Budgets DEF PacingInv, PacingTypeOK
  <2>1. OverBudget(t)
    <3>1. PICK u \in Releasers : Step(u)
      BY DEF PacingNext, pacingVars
    <3>2. u = t
      <4>1. \E place : Goto(u, place)
        BY <3>1 DEF Step, Queue, Count, HugeFree, OverBudget, Pace, PacedTrySweep,
           RecycleCounted, CannotMark, Swept
      <4>. QED
        BY <4>1 DEF Goto
    <3>. QED
      BY <3>1, <3>2 DEF Step, Queue, Count, HugeFree, Pace, PacedTrySweep,
         RecycleCounted, CannotMark, Swept
  <2>2. Gained < Hard \/ Gained < nextPacingCheck
    <3>1. Gained \in Nat
      BY GainedType
    <3>2. Gained < Soft \/ Gained < nextPacingCheck \/ Gained < Hard
      BY <2>1 DEF OverBudget, Goto
    <3>. QED
      BY <3>1, <3>2
  <2>3. Gained = Leftover + since
    BY HeldFits, NetBound DEF Leftover
  <2>4. \A u \in Releasers : pacingAt[u] # "swept"
    BY PacingAssumption DEF PacingAssumption, OneSweeps
  <2>5. Leftover >= 0 /\ nextPacingCheck <= Hard + Larger(Leftover, Soft \div 16)
    BY <2>4 DEF CheckSoon
  <2>6. Leftover \in Int
    BY NetBound DEF Leftover
  <2>. QED
    BY <2>2, <2>3, <2>5, <2>6 DEF Larger
<1>2. PacingInv /\ [PacingNext]_pacingVars =>
        [~overdrawn => BelowHard]_pacingVars
  BY <1>1 DEF BelowHard
<1>3. PacingInv /\ [PacingNext]_pacingVars => PacingInv'
  BY PacingNextInv
<1>. QED
  BY <1>2, <1>3, PacingInitInv, PTL DEF PacingSpec, HardBudgetUnlessOverdrawn

-----------------------------------------------------------------------------
(***************************************************************************)
(* ForkCaches: the caches a child of fork copies.                          *)
(***************************************************************************)

-----------------------------------------------------------------------------
(* The inductive invariant *)

(* The threads whose caches still count: all before fork, and in the child  *)
(* its own thread and those not drained yet.                                *)
Kept == IF Forked THEN todo \cup {Own} ELSE ForkThreads

(* Where a thread has free slots: the part of its cache it has not moved,   *)
(* and the slot it has taken, as place 0.                                   *)
FreeAt(t) ==
    IF forkAt[t] = "filled" THEN 1 .. reached[t]
    ELSE IF forkAt[t] = "return" THEN reached[t] + 1 .. alloc[t].count
    ELSE IF forkAt[t] = "taken" THEN 0 .. alloc[t].count
    ELSE 1 .. alloc[t].count

(* The slot there: between the two stores of a swap, one is only in `arg`. *)
FreeOf(t, i) ==
    IF i = 0 \/ (forkAt[t] = "swapped" /\ i = alloc[t].count - reached[t])
    THEN arg[t] ELSE alloc[t].slots[i]

(* The same for the slots a thread releases; place 0 is the one it has      *)
(* claimed and not counted.                                                 *)
DeadAt(t) ==
    IF forkAt[t] = "flush" THEN reached[t] + 1 .. release[t].count
    ELSE IF CountFirst /\ forkAt[t] = "pushed" THEN 0 .. release[t].count - 1
    ELSE IF forkAt[t] \in {"push", "pushed"} THEN 0 .. release[t].count
    ELSE 1 .. release[t].count

DeadOf(t, i) == IF i = 0 THEN arg[t] ELSE release[t].slots[i]

(* How far a thread's loop is. *)
LoopBounded(t) ==
    /\ forkAt[t] \in {"run", "taken", "push", "pushed"} => reached[t] = 0
    /\ forkAt[t] = "filled" => alloc[t].count = 0 /\ reached[t] > 0
    /\ forkAt[t] = "swap" => reached[t] <= alloc[t].count \div 2
                             /\ alloc[t].count > 0
    /\ forkAt[t] = "swapped" => reached[t] < alloc[t].count \div 2
    /\ forkAt[t] = "return" => reached[t] <= alloc[t].count
    /\ forkAt[t] = "flush" => reached[t] <= release[t].count
    /\ forkAt[t] \notin {"flush", "pushed"} => release[t].count < ForkCacheLimit
    /\ CountFirst /\ forkAt[t] = "pushed" => release[t].count > 0
    /\ ~CountFirst /\ forkAt[t] = "pushed" =>
          /\ release[t].count < ForkCacheLimit
          /\ release[t].slots[release[t].count + 1] = arg[t]

LoopsBounded == \A t \in ForkThreads : LoopBounded(t)

(* A copied cache lists no slot that its thread has moved on and whose word *)
(* does not tell.                                                           *)
CopiesWhole ==
    Forked =>
        /\ \A t \in todo : ~StaleCopy(t)
        /\ todo # {} => forkAt[Own] = "run"

(* A slot is on one list at most, once, and its word says which. *)
ListsAgree ==
    \A s \in ForkSlots :
        /\ listed[s] <= 1 /\ quarantined[s] <= 1
        /\ listed[s] > 0 => word[s] = "free"
        /\ quarantined[s] > 0 => word[s] = "dead"
        /\ s \in forkHeld => word[s] = "live"
        /\ s \notin bumped => word[s] = "never" /\ listed[s] = 0

(* A slot in a cache of free slots is one nobody has, and is there once. *)
FreeFit ==
    \A t \in Kept : \A i \in FreeAt(t) :
        /\ FreeOf(t, i) \in bumped
        /\ word[FreeOf(t, i)] \in {"never", "free"}
        /\ listed[FreeOf(t, i)] = 0

FreeOnce ==
    \A t, u \in Kept : \A i \in FreeAt(t), j \in FreeAt(u) :
        FreeOf(t, i) = FreeOf(u, j) => t = u /\ i = j

(* The same for a slot in a cache of released slots. *)
DeadFit ==
    \A t \in Kept : \A i \in DeadAt(t) :
        DeadOf(t, i) \in ForkSlots /\ word[DeadOf(t, i)] = "claimed"

DeadOnce ==
    \A t, u \in Kept : \A i \in DeadAt(t), j \in DeadAt(u) :
        DeadOf(t, i) = DeadOf(u, j) => t = u /\ i = j

ForkInv ==
    /\ ForkTypeOK /\ LoopsBounded /\ CopiesWhole /\ ListsAgree
    /\ FreeFit /\ FreeOnce /\ DeadFit /\ DeadOnce

-----------------------------------------------------------------------------
(* Lemmas about a step *)

(* The types of one thread's part. *)
LEMMA ForkParts ==
    ASSUME ForkInv, NEW t \in ForkThreads
    PROVE  /\ ForkCacheLimit \in Nat /\ ForkCacheLimit > 0
           /\ alloc[t].count \in 0 .. ForkCacheLimit /\ alloc[t].count \in Nat
           /\ alloc[t].slots \in [1 .. ForkCacheLimit -> ForkSlots \cup {NoSlot}]
           /\ release[t].count \in 0 .. ForkCacheLimit /\ release[t].count \in Nat
           /\ release[t].slots \in [1 .. ForkCacheLimit -> ForkSlots \cup {NoSlot}]
           /\ forkAt[t] \in ForkPlaces
           /\ reached[t] \in 0 .. ForkCacheLimit /\ reached[t] \in Nat
           /\ arg[t] \in ForkSlots \cup {NoSlot}
  BY ForkAssumption DEF ForkAssumption, ForkInv, ForkTypeOK, CacheType

(* A thread that takes a step is one whose cache counts, and in the child   *)
(* it is the only one.                                                      *)
LEMMA StepKept ==
    ASSUME ForkInv, NEW t \in ForkThreads, NEW p, At(t, p)
    PROVE  t \in Kept /\ (Forked => t = Own /\ todo = {}) /\ forkAt[t] = p
  BY DEF At, Kept

(* The threads whose caches count exist, and the forking one is one. *)
LEMMA KeptThreads ==
    ASSUME ForkInv
    PROVE  Kept \subseteq ForkThreads /\ Own \in Kept
  BY DEF Kept, ForkInv, ForkTypeOK, ForkThreads, Forked

(* CopiesWhole is about the child before the caches are drained, where no   *)
(* thread steps.                                                            *)
LEMMA CopiesKept ==
    ASSUME ForkInv, NEW t \in ForkThreads, NEW p, At(t, p), UNCHANGED todo
    PROVE  CopiesWhole'
  BY DEF At, CopiesWhole, Forked

(* The places of free slots move within one thread's, or fewer are left. *)
LEMMA FreeMoved ==
    ASSUME ForkInv, Kept' \subseteq Kept, NEW t \in Kept, NEW m,
           \A u \in Kept' : u # t => \A i \in FreeAt(u)' :
               i \in FreeAt(u) /\ FreeOf(u, i)' = FreeOf(u, i),
           \A i \in FreeAt(t)' :
               m[i] \in FreeAt(t) /\ FreeOf(t, i)' = FreeOf(t, m[i]),
           \A i, j \in FreeAt(t)' : m[i] = m[j] => i = j
    PROVE  FreeOnce' /\ (UNCHANGED <<word, bumped, listed>> => FreeFit')
<1>. DEFINE M(u, i) == IF u = t THEN m[i] ELSE i
<1>1. \A u \in Kept' : \A i \in FreeAt(u)' :
        /\ u \in Kept /\ M(u, i) \in FreeAt(u)
        /\ FreeOf(u, i)' = FreeOf(u, M(u, i))
        /\ \A j \in FreeAt(u)' : M(u, i) = M(u, j) => i = j
  OBVIOUS
<1>. HIDE DEF M
<1>2. FreeOnce'
  <2>. SUFFICES ASSUME NEW u \in Kept', NEW v \in Kept', NEW i \in FreeAt(u)',
                       NEW j \in FreeAt(v)', FreeOf(u, i)' = FreeOf(v, j)'
                PROVE  u = v /\ i = j
    BY DEF FreeOnce
  <2>1. u = v /\ M(u, i) = M(v, j)
    BY <1>1 DEF ForkInv, FreeOnce
  <2>. QED
    BY <1>1, <2>1
<1>3. ASSUME UNCHANGED <<word, bumped, listed>>
      PROVE  FreeFit'
  BY <1>1, <1>3 DEF ForkInv, FreeFit
<1>. QED
  BY <1>2, <1>3

LEMMA FreeSame ==
    ASSUME ForkInv, Kept' \subseteq Kept,
           \A u \in Kept' : \A i \in FreeAt(u)' :
               i \in FreeAt(u) /\ FreeOf(u, i)' = FreeOf(u, i)
    PROVE  FreeOnce' /\ (UNCHANGED <<word, bumped, listed>> => FreeFit')
  BY DEF ForkInv, FreeOnce, FreeFit

(* The same for the places of released slots. *)
LEMMA DeadMoved ==
    ASSUME ForkInv, Kept' \subseteq Kept, NEW t \in Kept, NEW m,
           \A u \in Kept' : u # t => \A i \in DeadAt(u)' :
               i \in DeadAt(u) /\ DeadOf(u, i)' = DeadOf(u, i),
           \A i \in DeadAt(t)' :
               m[i] \in DeadAt(t) /\ DeadOf(t, i)' = DeadOf(t, m[i]),
           \A i, j \in DeadAt(t)' : m[i] = m[j] => i = j
    PROVE  DeadOnce' /\ (UNCHANGED word => DeadFit')
<1>. DEFINE M(u, i) == IF u = t THEN m[i] ELSE i
<1>1. \A u \in Kept' : \A i \in DeadAt(u)' :
        /\ u \in Kept /\ M(u, i) \in DeadAt(u)
        /\ DeadOf(u, i)' = DeadOf(u, M(u, i))
        /\ \A j \in DeadAt(u)' : M(u, i) = M(u, j) => i = j
  OBVIOUS
<1>. HIDE DEF M
<1>2. DeadOnce'
  <2>. SUFFICES ASSUME NEW u \in Kept', NEW v \in Kept', NEW i \in DeadAt(u)',
                       NEW j \in DeadAt(v)', DeadOf(u, i)' = DeadOf(v, j)'
                PROVE  u = v /\ i = j
    BY DEF DeadOnce
  <2>1. u = v /\ M(u, i) = M(v, j)
    BY <1>1 DEF ForkInv, DeadOnce
  <2>. QED
    BY <1>1, <2>1
<1>3. ASSUME UNCHANGED word
      PROVE  DeadFit'
  BY <1>1, <1>3 DEF ForkInv, DeadFit
<1>. QED
  BY <1>2, <1>3

LEMMA DeadSame ==
    ASSUME ForkInv, Kept' \subseteq Kept,
           \A u \in Kept' : \A i \in DeadAt(u)' :
               i \in DeadAt(u) /\ DeadOf(u, i)' = DeadOf(u, i)
    PROVE  DeadOnce' /\ (UNCHANGED word => DeadFit')
  BY DEF ForkInv, DeadOnce, DeadFit

(* A step that changes no more than one thread's part. *)
OthersStay(t) ==
    \A u \in ForkThreads \ {t} :
        UNCHANGED <<alloc[u], release[u], forkAt[u], reached[u], arg[u]>>

(* A cache with another count. *)
LEMMA CountSet ==
    ASSUME NEW c \in CacheType, NEW n \in 0 .. ForkCacheLimit
    PROVE  /\ [c EXCEPT !.count = n] \in CacheType
           /\ [c EXCEPT !.count = n].count = n
           /\ [c EXCEPT !.count = n].slots = c.slots
  BY DEF CacheType

(* A cache with s stored as its entry k. *)
Stored(c, k, s) == [c EXCEPT !.slots[k] = s]

LEMMA EntrySet ==
    ASSUME NEW c \in CacheType, NEW k \in 1 .. ForkCacheLimit,
           NEW s \in ForkSlots \cup {NoSlot}
    PROVE  /\ Stored(c, k, s) \in CacheType
           /\ Stored(c, k, s).count = c.count
           /\ \A i \in 1 .. ForkCacheLimit :
                Stored(c, k, s).slots[i] = IF i = k THEN s ELSE c.slots[i]
  BY DEF CacheType, Stored

(* The types after a step of one thread. *)
LEMMA StepTyped ==
    ASSUME ForkInv, NEW t \in ForkThreads,
           alloc' = [alloc EXCEPT ![t] = alloc'[t]], alloc'[t] \in CacheType,
           release' = [release EXCEPT ![t] = release'[t]], release'[t] \in CacheType,
           forkAt' = [forkAt EXCEPT ![t] = forkAt'[t]], forkAt'[t] \in ForkPlaces,
           reached' = [reached EXCEPT ![t] = reached'[t]],
           reached'[t] \in 0 .. ForkCacheLimit,
           arg' = [arg EXCEPT ![t] = arg'[t]], arg'[t] \in ForkSlots \cup {NoSlot},
           word' \in [ForkSlots -> Words], bumped' \subseteq ForkSlots,
           listed' \in [ForkSlots -> Nat], quarantined' \in [ForkSlots -> Nat],
           forkHeld' \subseteq ForkSlots, UNCHANGED <<todo, stale>>
    PROVE  ForkTypeOK' /\ OthersStay(t)
<1>. USE DEF ForkInv
<1>1. /\ alloc' \in [ForkThreads -> CacheType]
      /\ \A u \in ForkThreads \ {t} : alloc'[u] = alloc[u]
  BY DEF ForkTypeOK
<1>2. /\ release' \in [ForkThreads -> CacheType]
      /\ \A u \in ForkThreads \ {t} : release'[u] = release[u]
  BY DEF ForkTypeOK
<1>3. /\ forkAt' \in [ForkThreads -> ForkPlaces]
      /\ \A u \in ForkThreads \ {t} : forkAt'[u] = forkAt[u]
  BY DEF ForkTypeOK
<1>4. /\ reached' \in [ForkThreads -> 0 .. ForkCacheLimit]
      /\ \A u \in ForkThreads \ {t} : reached'[u] = reached[u]
  BY DEF ForkTypeOK
<1>5. /\ arg' \in [ForkThreads -> ForkSlots \cup {NoSlot}]
      /\ \A u \in ForkThreads \ {t} : arg'[u] = arg[u]
  BY DEF ForkTypeOK
<1>6. ForkTypeOK'
  BY <1>1, <1>2, <1>3, <1>4, <1>5 DEF ForkTypeOK
<1>7. OthersStay(t)
  BY <1>1, <1>2, <1>3, <1>4, <1>5 DEF OthersStay
<1>. QED
  BY <1>1, <1>2, <1>3, <1>4, <1>5, <1>6, <1>7

(* What a step leaves is what it would store again. *)
LEMMA StoresSame ==
    ASSUME ForkInv, NEW t \in ForkThreads
    PROVE  /\ alloc = [alloc EXCEPT ![t] = alloc[t]] /\ alloc[t] \in CacheType
           /\ release = [release EXCEPT ![t] = release[t]] /\ release[t] \in CacheType
           /\ forkAt = [forkAt EXCEPT ![t] = forkAt[t]]
           /\ reached = [reached EXCEPT ![t] = reached[t]]
           /\ arg = [arg EXCEPT ![t] = arg[t]]
  BY DEF ForkInv, ForkTypeOK

(* The parts of the heap have their types. *)
LEMMA HeapTyped ==
    ASSUME ForkInv
    PROVE  /\ word \in [ForkSlots -> Words] /\ bumped \subseteq ForkSlots
           /\ listed \in [ForkSlots -> Nat] /\ quarantined \in [ForkSlots -> Nat]
           /\ forkHeld \subseteq ForkSlots
  BY DEF ForkInv, ForkTypeOK

(* Half of a count. *)
LEMMA Halved ==
    ASSUME NEW n \in Nat
    PROVE  n \div 2 \in Nat /\ 2 * (n \div 2) <= n /\ n <= 2 * (n \div 2) + 1
  OBVIOUS

(* A step of t leaves the places of the other threads alone. *)
LEMMA OthersSame ==
    ASSUME NEW t, UNCHANGED todo,
           OthersStay(t)
    PROVE  /\ Kept' = Kept
           /\ \A u \in ForkThreads \ {t} :
                /\ FreeAt(u)' = FreeAt(u) /\ DeadAt(u)' = DeadAt(u)
                /\ \A i : FreeOf(u, i)' = FreeOf(u, i) /\ DeadOf(u, i)' = DeadOf(u, i)
<1>1. Kept' = Kept
  BY DEF Kept, Forked
<1>2. ASSUME NEW u \in ForkThreads \ {t}
      PROVE  FreeAt(u)' = FreeAt(u) /\ DeadAt(u)' = DeadAt(u)
  BY DEF FreeAt, DeadAt, OthersStay
<1>3. ASSUME NEW u \in ForkThreads \ {t}, NEW i
      PROVE  FreeOf(u, i)' = FreeOf(u, i) /\ DeadOf(u, i)' = DeadOf(u, i)
  BY DEF FreeOf, DeadOf, OthersStay
<1>. QED
  BY <1>1, <1>2, <1>3

(* What a step of one thread must keep for it and for the others. *)
LEMMA LoopsKept ==
    ASSUME ForkInv, NEW t \in ForkThreads, LoopBounded(t)',
           OthersStay(t)
    PROVE  LoopsBounded'
  BY DEF ForkInv, LoopsBounded, LoopBounded, OthersStay

-----------------------------------------------------------------------------
(* The steps of a thread *)

LEMMA FilledInv ==
    ASSUME ForkInv, NEW t \in ForkThreads, Filled(t)
    PROVE  ForkInv'
<1>1. t \in Kept /\ forkAt[t] = "filled" /\ LoopBounded(t)
  BY StepKept DEF Filled, ForkInv, LoopsBounded
<1>2. /\ ForkTypeOK' /\ OthersStay(t) /\ UNCHANGED todo
      /\ alloc'[t].count = reached[t]
      /\ alloc'[t].slots = alloc[t].slots
      /\ release'[t] = release[t]
      /\ forkAt'[t] = "swap"
      /\ reached'[t] = 0
      /\ arg'[t] = arg[t]
  <2>1. /\ alloc' = [alloc EXCEPT ![t] = [alloc[t] EXCEPT !.count = reached[t]]]
        /\ forkAt' = [forkAt EXCEPT ![t] = "swap"]
        /\ reached' = [reached EXCEPT ![t] = 0]
        /\ UNCHANGED <<forkHeapVars, release, arg, forkHeld, todo, stale>>
    BY DEF Filled, GoesTo
  <2>2. /\ alloc'[t] = [alloc[t] EXCEPT !.count = reached[t]]
        /\ release'[t] = release[t]
        /\ forkAt'[t] = "swap"
        /\ reached'[t] = 0
        /\ arg'[t] = arg[t]
    BY <2>1 DEF ForkInv, ForkTypeOK
  <2>3. /\ alloc'[t] \in CacheType
        /\ alloc'[t].count = reached[t]
        /\ alloc'[t].slots = alloc[t].slots
    BY <2>2, ForkParts, StoresSame, CountSet
  <2>4. /\ forkAt'[t] \in ForkPlaces /\ reached'[t] \in 0 .. ForkCacheLimit
        /\ arg'[t] \in ForkSlots \cup {NoSlot}
    BY <1>1, <2>2, ForkParts DEF ForkPlaces
  <2>5. ForkTypeOK' /\ OthersStay(t)
    BY <2>1, <2>2, <2>3, <2>4, ForkParts, HeapTyped, StoresSame, StepTyped
       DEF forkHeapVars
  <2>. QED
    BY <2>1, <2>2, <2>3, <2>5
<1>3. LoopsBounded'
  <2>1. reached[t] \div 2 \in Nat
    BY ForkParts, Halved
  <2>2. LoopBounded(t)'
    BY <1>1, <1>2, <2>1, ForkParts DEF LoopBounded
  <2>. QED
    BY <2>2, <1>2, LoopsKept
<1>4. CopiesWhole'
  BY CopiesKept DEF Filled
<1>5. ListsAgree'
  BY DEF Filled, ForkInv, ListsAgree, forkHeapVars
<1>6. FreeFit' /\ FreeOnce'
  <2>1. \A i \in FreeAt(t)' : i \in FreeAt(t) /\ FreeOf(t, i)' = FreeOf(t, i)
    BY <1>1, <1>2, ForkParts DEF FreeAt, FreeOf, LoopBounded
  <2>2. \A u \in Kept' : \A i \in FreeAt(u)' :
          i \in FreeAt(u) /\ FreeOf(u, i)' = FreeOf(u, i)
    BY <2>1, <1>2, OthersSame, KeptThreads
  <2>. QED
    BY <2>2, <1>2, OthersSame, FreeSame DEF Filled, forkHeapVars
<1>7. DeadFit' /\ DeadOnce'
  <2>1. \A i \in DeadAt(t)' : i \in DeadAt(t) /\ DeadOf(t, i)' = DeadOf(t, i)
    BY <1>1, <1>2, ForkParts DEF DeadAt, DeadOf, LoopBounded
  <2>2. \A u \in Kept' : \A i \in DeadAt(u)' :
          i \in DeadAt(u) /\ DeadOf(u, i)' = DeadOf(u, i)
    BY <2>1, <1>2, OthersSame, KeptThreads
  <2>. QED
    BY <2>2, <1>2, OthersSame, DeadSame DEF Filled, forkHeapVars
<1>. QED
  BY <1>2, <1>3, <1>4, <1>5, <1>6, <1>7 DEF ForkInv

LEMMA SwapFirstInv ==
    ASSUME ForkInv, NEW t \in ForkThreads, SwapFirst(t)
    PROVE  ForkInv'
<1>1. t \in Kept /\ forkAt[t] = "swap" /\ LoopBounded(t)
      /\ reached[t] < alloc[t].count \div 2
  BY StepKept DEF SwapFirst, ForkInv, LoopsBounded
<1>2. /\ ForkTypeOK' /\ OthersStay(t) /\ UNCHANGED todo
      /\ alloc'[t].count = alloc[t].count
      /\ \A i \in 1 .. ForkCacheLimit :
           alloc'[t].slots[i] =
             IF i = reached[t] + 1 THEN alloc[t].slots[alloc[t].count - reached[t]]
             ELSE alloc[t].slots[i]
      /\ release'[t] = release[t]
      /\ forkAt'[t] = "swapped"
      /\ reached'[t] = reached[t]
      /\ arg'[t] = alloc[t].slots[reached[t] + 1]
  <2>1. /\ alloc' = [alloc EXCEPT ![t] =
              Stored(alloc[t], reached[t] + 1, alloc[t].slots[alloc[t].count - reached[t]])]
        /\ forkAt' = [forkAt EXCEPT ![t] = "swapped"]
        /\ arg' = [arg EXCEPT ![t] = alloc[t].slots[reached[t] + 1]]
        /\ UNCHANGED <<forkHeapVars, release, reached, forkHeld, todo, stale>>
    BY DEF SwapFirst, GoesTo, Stored
  <2>2. /\ alloc'[t] =
            Stored(alloc[t], reached[t] + 1, alloc[t].slots[alloc[t].count - reached[t]])
        /\ release'[t] = release[t]
        /\ forkAt'[t] = "swapped"
        /\ reached'[t] = reached[t]
        /\ arg'[t] = alloc[t].slots[reached[t] + 1]
    BY <2>1 DEF ForkInv, ForkTypeOK
  <2>bounds. /\ reached[t] + 1 \in 1 .. ForkCacheLimit
        /\ alloc[t].count - reached[t] \in 1 .. ForkCacheLimit
        /\ reached[t] + 1 < alloc[t].count - reached[t]
    <3>1. 2 * (alloc[t].count \div 2) <= alloc[t].count /\ alloc[t].count \div 2 \in Nat
      BY ForkParts, Halved
    <3>. QED
      BY <1>1, <3>1, ForkParts DEF LoopBounded
  <2>3. /\ alloc'[t] \in CacheType
        /\ alloc'[t].count = alloc[t].count
        /\ \A i \in 1 .. ForkCacheLimit :
             alloc'[t].slots[i] =
               IF i = reached[t] + 1
               THEN alloc[t].slots[alloc[t].count - reached[t]]
               ELSE alloc[t].slots[i]
    BY <2>2, <2>bounds, ForkParts, StoresSame, EntrySet
  <2>4. /\ forkAt'[t] \in ForkPlaces /\ reached'[t] \in 0 .. ForkCacheLimit
        /\ arg'[t] \in ForkSlots \cup {NoSlot}
    BY <1>1, <2>2, <2>bounds, ForkParts DEF ForkPlaces
  <2>5. ForkTypeOK' /\ OthersStay(t)
    BY <2>1, <2>2, <2>3, <2>4, ForkParts, HeapTyped, StoresSame, StepTyped
       DEF forkHeapVars
  <2>. QED
    BY <2>1, <2>2, <2>3, <2>5
<1>3. LoopsBounded'
  <2>1. /\ alloc[t].count \div 2 \in Nat
        /\ 2 * (alloc[t].count \div 2) <= alloc[t].count
    BY ForkParts, Halved
  <2>2. LoopBounded(t)'
    BY <1>1, <1>2, <2>1, ForkParts DEF LoopBounded
  <2>. QED
    BY <2>2, <1>2, LoopsKept
<1>4. CopiesWhole'
  BY CopiesKept DEF SwapFirst
<1>5. ListsAgree'
  BY DEF SwapFirst, ForkInv, ListsAgree, forkHeapVars
<1>6. FreeFit' /\ FreeOnce'
  <2>. DEFINE m == [i \in 0 .. ForkCacheLimit |->
                     IF i = reached[t] + 1 THEN alloc[t].count - reached[t]
                    
              ELSE IF i = alloc[t].count - reached[t] THEN reached[t] + 1 ELSE i]
  <2>1. \A i \in FreeAt(t)' : m[i] \in FreeAt(t) /\ FreeOf(t, i)' = FreeOf(t, m[i])
    BY <1>1, <1>2, ForkParts DEF FreeAt, FreeOf, LoopBounded
  <2>2. \A i, j \in FreeAt(t)' : m[i] = m[j] => i = j
    BY <1>1, <1>2, ForkParts DEF FreeAt, LoopBounded
  <2>. HIDE DEF m
  <2>3. \A u \in Kept' : u # t => \A i \in FreeAt(u)' :
          i \in FreeAt(u) /\ FreeOf(u, i)' = FreeOf(u, i)
    BY <1>2, OthersSame, KeptThreads
  <2>. QED
    BY <1>1, <1>2, <2>1, <2>2, <2>3, OthersSame, FreeMoved DEF SwapFirst,
       forkHeapVars
<1>7. DeadFit' /\ DeadOnce'
  <2>1. \A i \in DeadAt(t)' : i \in DeadAt(t) /\ DeadOf(t, i)' = DeadOf(t, i)
    BY <1>1, <1>2, ForkParts DEF DeadAt, DeadOf, LoopBounded
  <2>2. \A u \in Kept' : \A i \in DeadAt(u)' :
          i \in DeadAt(u) /\ DeadOf(u, i)' = DeadOf(u, i)
    BY <2>1, <1>2, OthersSame, KeptThreads
  <2>. QED
    BY <2>2, <1>2, OthersSame, DeadSame DEF SwapFirst, forkHeapVars
<1>. QED
  BY <1>2, <1>3, <1>4, <1>5, <1>6, <1>7 DEF ForkInv

LEMMA SwapSecondInv ==
    ASSUME ForkInv, NEW t \in ForkThreads, SwapSecond(t)
    PROVE  ForkInv'
<1>1. t \in Kept /\ forkAt[t] = "swapped" /\ LoopBounded(t)
  BY StepKept DEF SwapSecond, ForkInv, LoopsBounded
<1>2. /\ ForkTypeOK' /\ OthersStay(t) /\ UNCHANGED todo
      /\ alloc'[t].count = alloc[t].count
      /\ \A i \in 1 .. ForkCacheLimit :
           alloc'[t].slots[i] =
             IF i = alloc[t].count - reached[t] THEN arg[t]
             ELSE alloc[t].slots[i]
      /\ release'[t] = release[t]
      /\ forkAt'[t] = "swap"
      /\ reached'[t] = reached[t] + 1
      /\ arg'[t] = NoSlot
  <2>1. /\ alloc' = [alloc EXCEPT ![t] =
              Stored(alloc[t], alloc[t].count - reached[t], arg[t])]
        /\ forkAt' = [forkAt EXCEPT ![t] = "swap"]
        /\ reached' = [reached EXCEPT ![t] = reached[t] + 1]
        /\ arg' = [arg EXCEPT ![t] = NoSlot]
        /\ UNCHANGED <<forkHeapVars, release, forkHeld, todo, stale>>
    BY DEF SwapSecond, GoesTo, Stored
  <2>2. /\ alloc'[t] = Stored(alloc[t], alloc[t].count - reached[t], arg[t])
        /\ release'[t] = release[t]
        /\ forkAt'[t] = "swap"
        /\ reached'[t] = reached[t] + 1
        /\ arg'[t] = NoSlot
    BY <2>1 DEF ForkInv, ForkTypeOK
  <2>bounds. /\ reached[t] + 1 \in 1 .. ForkCacheLimit
        /\ alloc[t].count - reached[t] \in 1 .. ForkCacheLimit
        /\ reached[t] + 1 < alloc[t].count - reached[t]
    <3>1. 2 * (alloc[t].count \div 2) <= alloc[t].count /\ alloc[t].count \div 2 \in Nat
      BY ForkParts, Halved
    <3>. QED
      BY <1>1, <3>1, ForkParts DEF LoopBounded
  <2>3. /\ alloc'[t] \in CacheType
        /\ alloc'[t].count = alloc[t].count
        /\ \A i \in 1 .. ForkCacheLimit :
             alloc'[t].slots[i] =
               IF i = alloc[t].count - reached[t] THEN arg[t]
               ELSE alloc[t].slots[i]
    BY <2>2, <2>bounds, ForkParts, StoresSame, EntrySet
  <2>4. /\ forkAt'[t] \in ForkPlaces /\ reached'[t] \in 0 .. ForkCacheLimit
        /\ arg'[t] \in ForkSlots \cup {NoSlot}
    BY <1>1, <2>2, <2>bounds, ForkParts DEF ForkPlaces
  <2>5. ForkTypeOK' /\ OthersStay(t)
    BY <2>1, <2>2, <2>3, <2>4, ForkParts, HeapTyped, StoresSame, StepTyped
       DEF forkHeapVars
  <2>. QED
    BY <2>1, <2>2, <2>3, <2>5
<1>3. LoopsBounded'
  <2>1. /\ alloc[t].count \div 2 \in Nat
        /\ 2 * (alloc[t].count \div 2) <= alloc[t].count
    BY ForkParts, Halved
  <2>2. LoopBounded(t)'
    BY <1>1, <1>2, <2>1, ForkParts DEF LoopBounded
  <2>. QED
    BY <2>2, <1>2, LoopsKept
<1>4. CopiesWhole'
  BY CopiesKept DEF SwapSecond
<1>5. ListsAgree'
  BY DEF SwapSecond, ForkInv, ListsAgree, forkHeapVars
<1>6. FreeFit' /\ FreeOnce'
  <2>1. \A i \in FreeAt(t)' : i \in FreeAt(t) /\ FreeOf(t, i)' = FreeOf(t, i)
    BY <1>1, <1>2, ForkParts DEF FreeAt, FreeOf, LoopBounded
  <2>2. \A u \in Kept' : \A i \in FreeAt(u)' :
          i \in FreeAt(u) /\ FreeOf(u, i)' = FreeOf(u, i)
    BY <2>1, <1>2, OthersSame, KeptThreads
  <2>. QED
    BY <2>2, <1>2, OthersSame, FreeSame DEF SwapSecond, forkHeapVars
<1>7. DeadFit' /\ DeadOnce'
  <2>1. \A i \in DeadAt(t)' : i \in DeadAt(t) /\ DeadOf(t, i)' = DeadOf(t, i)
    BY <1>1, <1>2, ForkParts DEF DeadAt, DeadOf, LoopBounded
  <2>2. \A u \in Kept' : \A i \in DeadAt(u)' :
          i \in DeadAt(u) /\ DeadOf(u, i)' = DeadOf(u, i)
    BY <2>1, <1>2, OthersSame, KeptThreads
  <2>. QED
    BY <2>2, <1>2, OthersSame, DeadSame DEF SwapSecond, forkHeapVars
<1>. QED
  BY <1>2, <1>3, <1>4, <1>5, <1>6, <1>7 DEF ForkInv

LEMMA TakeFromCacheInv ==
    ASSUME ForkInv, NEW t \in ForkThreads, TakeFromCache(t)
    PROVE  ForkInv'
<1>1. t \in Kept /\ forkAt[t] \in {"run", "swap"} /\ alloc[t].count > 0 /\ LoopBounded(t)
  <2>1. t \in Kept /\ forkAt[t] \in {"run", "swap"} /\ LoopBounded(t)
    BY StepKept DEF TakeFromCache, ForkInv, LoopsBounded
  <2>. QED
    BY <2>1, ForkParts DEF TakeFromCache, LoopBounded, At
<1>2. /\ ForkTypeOK' /\ OthersStay(t) /\ UNCHANGED todo
      /\ alloc'[t].count = alloc[t].count - 1
      /\ alloc'[t].slots = alloc[t].slots
      /\ release'[t] = release[t]
      /\ forkAt'[t] = "taken"
      /\ reached'[t] = 0
      /\ arg'[t] = alloc[t].slots[alloc[t].count]
  <2>1. /\ alloc' = [alloc EXCEPT ![t] = [alloc[t] EXCEPT !.count = alloc[t].count - 1]]
        /\ forkAt' = [forkAt EXCEPT ![t] = "taken"]
        /\ reached' = [reached EXCEPT ![t] = 0]
        /\ arg' = [arg EXCEPT ![t] = alloc[t].slots[alloc[t].count]]
        /\ UNCHANGED <<forkHeapVars, release, forkHeld, todo, stale>>
    BY DEF TakeFromCache, GoesTo
  <2>2. /\ alloc'[t] = [alloc[t] EXCEPT !.count = alloc[t].count - 1]
        /\ release'[t] = release[t]
        /\ forkAt'[t] = "taken"
        /\ reached'[t] = 0
        /\ arg'[t] = alloc[t].slots[alloc[t].count]
    BY <2>1 DEF ForkInv, ForkTypeOK
  <2>bounds. alloc[t].count - 1 \in 0 .. ForkCacheLimit
        /\ alloc[t].count \in 1 .. ForkCacheLimit
    BY <1>1, ForkParts
  <2>3. /\ alloc'[t] \in CacheType
        /\ alloc'[t].count = alloc[t].count - 1
        /\ alloc'[t].slots = alloc[t].slots
    BY <2>2, <2>bounds, ForkParts, StoresSame, CountSet
  <2>4. /\ forkAt'[t] \in ForkPlaces /\ reached'[t] \in 0 .. ForkCacheLimit
        /\ arg'[t] \in ForkSlots \cup {NoSlot}
    BY <1>1, <2>2, <2>bounds, ForkParts DEF ForkPlaces
  <2>5. ForkTypeOK' /\ OthersStay(t)
    BY <2>1, <2>2, <2>3, <2>4, ForkParts, HeapTyped, StoresSame, StepTyped
       DEF forkHeapVars
  <2>. QED
    BY <2>1, <2>2, <2>3, <2>5
<1>3. LoopsBounded'
  <2>2. LoopBounded(t)'
    BY <1>1, <1>2, ForkParts DEF LoopBounded
  <2>. QED
    BY <2>2, <1>2, LoopsKept
<1>4. CopiesWhole'
  BY CopiesKept DEF TakeFromCache
<1>5. ListsAgree'
  BY DEF TakeFromCache, ForkInv, ListsAgree, forkHeapVars
<1>6. FreeFit' /\ FreeOnce'
  <2>. DEFINE m == [i \in 0 .. ForkCacheLimit |->
                     IF i = 0 THEN alloc[t].count ELSE i]
  <2>1. \A i \in FreeAt(t)' : m[i] \in FreeAt(t) /\ FreeOf(t, i)' = FreeOf(t, m[i])
    BY <1>1, <1>2, ForkParts DEF FreeAt, FreeOf, LoopBounded
  <2>2. \A i, j \in FreeAt(t)' : m[i] = m[j] => i = j
    BY <1>1, <1>2, ForkParts DEF FreeAt, LoopBounded
  <2>. HIDE DEF m
  <2>3. \A u \in Kept' : u # t => \A i \in FreeAt(u)' :
          i \in FreeAt(u) /\ FreeOf(u, i)' = FreeOf(u, i)
    BY <1>2, OthersSame, KeptThreads
  <2>. QED
    BY <1>1, <1>2, <2>1, <2>2, <2>3, OthersSame, FreeMoved DEF TakeFromCache,
       forkHeapVars
<1>7. DeadFit' /\ DeadOnce'
  <2>1. \A i \in DeadAt(t)' : i \in DeadAt(t) /\ DeadOf(t, i)' = DeadOf(t, i)
    BY <1>1, <1>2, ForkParts DEF DeadAt, DeadOf, LoopBounded
  <2>2. \A u \in Kept' : \A i \in DeadAt(u)' :
          i \in DeadAt(u) /\ DeadOf(u, i)' = DeadOf(u, i)
    BY <2>1, <1>2, OthersSame, KeptThreads
  <2>. QED
    BY <2>2, <1>2, OthersSame, DeadSame DEF TakeFromCache, forkHeapVars
<1>. QED
  BY <1>2, <1>3, <1>4, <1>5, <1>6, <1>7 DEF ForkInv

LEMMA PushFirstInv ==
    ASSUME ForkInv, NEW t \in ForkThreads, PushFirst(t)
    PROVE  ForkInv'
<1>1. t \in Kept /\ forkAt[t] = "push" /\ LoopBounded(t)
  BY StepKept DEF PushFirst, ForkInv, LoopsBounded
<1>2. /\ ForkTypeOK' /\ OthersStay(t) /\ UNCHANGED todo
      /\ alloc'[t] = alloc[t]
      /\ release'[t].count = IF CountFirst THEN release[t].count + 1 ELSE release[t].count
      /\ \A i \in 1 .. release[t].count : release'[t].slots[i] = release[t].slots[i]
      /\ ~CountFirst => release'[t].slots[release[t].count + 1] = arg[t]
      /\ forkAt'[t] = "pushed"
      /\ reached'[t] = reached[t]
      /\ arg'[t] = arg[t]
  <2>. DEFINE c == IF CountFirst THEN [release[t] EXCEPT !.count = release[t].count + 1]
                   ELSE Stored(release[t], release[t].count + 1, arg[t])
  <2>1. /\ release' = [release EXCEPT ![t] = c]
        /\ forkAt' = [forkAt EXCEPT ![t] = "pushed"]
        /\ UNCHANGED <<forkHeapVars, alloc, reached, arg, forkHeld, todo, stale>>
    BY DEF PushFirst, GoesTo, Stored
  <2>. HIDE DEF c
  <2>2. /\ alloc'[t] = alloc[t]
        /\ release'[t] = c
        /\ forkAt'[t] = "pushed"
        /\ reached'[t] = reached[t]
        /\ arg'[t] = arg[t]
    BY <2>1 DEF ForkInv, ForkTypeOK
  <2>bounds. release[t].count + 1 \in 1 .. ForkCacheLimit
             /\ release[t].count + 1 \in 0 .. ForkCacheLimit
    BY <1>1, ForkParts DEF LoopBounded
  <2>3. /\ c \in CacheType
        /\ c.count = IF CountFirst THEN release[t].count + 1 ELSE release[t].count
        /\ \A i \in 1 .. release[t].count : c.slots[i] = release[t].slots[i]
        /\ ~CountFirst => c.slots[release[t].count + 1] = arg[t]
    <3>1. CASE CountFirst
      <4>1. c = [release[t] EXCEPT !.count = release[t].count + 1]
        BY <3>1 DEF c
      <4>. QED
        BY <2>bounds, <3>1, <4>1, StoresSame, CountSet
    <3>2. CASE ~CountFirst
      <4>1. c = Stored(release[t], release[t].count + 1, arg[t])
        BY <3>2 DEF c
      <4>2. /\ c \in CacheType /\ c.count = release[t].count
            /\ \A i \in 1 .. ForkCacheLimit :
                 c.slots[i] = IF i = release[t].count + 1 THEN arg[t]
                              ELSE release[t].slots[i]
        BY <2>bounds, <4>1, ForkParts, StoresSame, EntrySet
      <4>3. \A i \in 1 .. release[t].count :
               i \in 1 .. ForkCacheLimit /\ i # release[t].count + 1
        BY ForkParts
      <4>. QED
        BY <2>bounds, <3>2, <4>2, <4>3
    <3>. QED
      BY <3>1, <3>2
  <2>4. /\ forkAt'[t] \in ForkPlaces /\ reached'[t] \in 0 .. ForkCacheLimit
        /\ arg'[t] \in ForkSlots \cup {NoSlot}
    BY <1>1, <2>2, <2>bounds, ForkParts DEF ForkPlaces
  <2>5. ForkTypeOK' /\ OthersStay(t)
    BY <2>1, <2>2, <2>3, <2>4, ForkParts, HeapTyped, StoresSame, StepTyped
       DEF forkHeapVars
  <2>. QED
    BY <2>1, <2>2, <2>3, <2>5
<1>3. LoopsBounded'
  <2>2. LoopBounded(t)'
    BY <1>1, <1>2, ForkParts DEF LoopBounded
  <2>. QED
    BY <2>2, <1>2, LoopsKept
<1>4. CopiesWhole'
  BY CopiesKept DEF PushFirst
<1>5. ListsAgree'
  BY DEF PushFirst, ForkInv, ListsAgree, forkHeapVars
<1>6. FreeFit' /\ FreeOnce'
  <2>1. \A i \in FreeAt(t)' : i \in FreeAt(t) /\ FreeOf(t, i)' = FreeOf(t, i)
    BY <1>1, <1>2, ForkParts DEF FreeAt, FreeOf, LoopBounded
  <2>2. \A u \in Kept' : \A i \in FreeAt(u)' :
          i \in FreeAt(u) /\ FreeOf(u, i)' = FreeOf(u, i)
    BY <2>1, <1>2, OthersSame, KeptThreads
  <2>. QED
    BY <2>2, <1>2, OthersSame, FreeSame DEF PushFirst, forkHeapVars
<1>7. DeadFit' /\ DeadOnce'
  <2>1. \A i \in DeadAt(t)' : i \in DeadAt(t) /\ DeadOf(t, i)' = DeadOf(t, i)
    BY <1>1, <1>2, ForkParts DEF DeadAt, DeadOf, LoopBounded
  <2>2. \A u \in Kept' : \A i \in DeadAt(u)' :
          i \in DeadAt(u) /\ DeadOf(u, i)' = DeadOf(u, i)
    BY <2>1, <1>2, OthersSame, KeptThreads
  <2>. QED
    BY <2>2, <1>2, OthersSame, DeadSame DEF PushFirst, forkHeapVars
<1>. QED
  BY <1>2, <1>3, <1>4, <1>5, <1>6, <1>7 DEF ForkInv

LEMMA PushSecondInv ==
    ASSUME ForkInv, NEW t \in ForkThreads, PushSecond(t)
    PROVE  ForkInv'
<1>1. t \in Kept /\ forkAt[t] = "pushed" /\ LoopBounded(t)
  BY StepKept DEF PushSecond, ForkInv, LoopsBounded
<1>. DEFINE n == IF CountFirst THEN release[t].count ELSE release[t].count + 1
<1>bounds. n \in 1 .. ForkCacheLimit /\ n \in 0 .. ForkCacheLimit
  BY <1>1, ForkParts DEF LoopBounded
<1>2. /\ ForkTypeOK' /\ OthersStay(t) /\ UNCHANGED todo
      /\ alloc'[t] = alloc[t]
      /\ release'[t].count = n
      /\ \A i \in 1 .. n : release'[t].slots[i] =
                            IF i = n THEN arg[t] ELSE release[t].slots[i]
      /\ forkAt'[t] = IF n = ForkCacheLimit THEN "flush" ELSE "run"
      /\ reached'[t] = reached[t]
      /\ arg'[t] = NoSlot
  <2>. DEFINE c == IF CountFirst THEN Stored(release[t], release[t].count, arg[t])
                   ELSE [release[t] EXCEPT !.count = release[t].count + 1]
  <2>1. /\ release' = [release EXCEPT ![t] = c]
        /\ forkAt' = [forkAt EXCEPT ![t] = IF release'[t].count = ForkCacheLimit
                                          THEN "flush" ELSE "run"]
        /\ arg' = [arg EXCEPT ![t] = NoSlot]
        /\ UNCHANGED <<forkHeapVars, alloc, reached, forkHeld, todo, stale>>
    BY DEF PushSecond, GoesTo, Stored
  <2>2. c \in CacheType /\ c.count = n
        /\ \A i \in 1 .. n : c.slots[i] = IF i = n THEN arg[t] ELSE release[t].slots[i]
    <3>1. CASE CountFirst
      <4>1. c = Stored(release[t], n, arg[t]) /\ release[t].count = n
        BY <3>1
      <4>2. /\ c \in CacheType /\ c.count = n
            /\ \A i \in 1 .. ForkCacheLimit :
                 c.slots[i] = IF i = n THEN arg[t] ELSE release[t].slots[i]
        BY <1>bounds, <4>1, ForkParts, StoresSame, EntrySet
      <4>3. \A i \in 1 .. n : i \in 1 .. ForkCacheLimit
        BY <1>bounds, ForkParts
      <4>. QED
        BY <4>2, <4>3
    <3>2. CASE ~CountFirst
      <4>1. c = [release[t] EXCEPT !.count = n] /\ n = release[t].count + 1
        BY <3>2
      <4>2. c \in CacheType /\ c.count = n /\ c.slots = release[t].slots
        BY <1>bounds, <4>1, StoresSame, CountSet
      <4>3. release[t].slots[n] = arg[t]
        BY <1>1, <3>2, <4>1 DEF LoopBounded
      <4>. QED
        BY <4>2, <4>3
    <3>. QED
      BY <3>1, <3>2
  <2>. HIDE DEF c, n
  <2>3. /\ alloc'[t] = alloc[t]
        /\ release'[t] = c
        /\ reached'[t] = reached[t]
        /\ arg'[t] = NoSlot
    BY <2>1 DEF ForkInv, ForkTypeOK
  <2>4. forkAt'[t] = IF n = ForkCacheLimit THEN "flush" ELSE "run"
    BY <2>1, <2>2, <2>3 DEF ForkInv, ForkTypeOK
  <2>5. /\ forkAt'[t] \in ForkPlaces /\ reached'[t] \in 0 .. ForkCacheLimit
        /\ arg'[t] \in ForkSlots \cup {NoSlot}
        /\ forkAt' = [forkAt EXCEPT ![t] = forkAt'[t]]
    BY <2>1, <2>2, <2>3, <2>4, ForkParts DEF ForkPlaces
  <2>6. ForkTypeOK' /\ OthersStay(t)
    BY <2>1, <2>2, <2>3, <2>5, ForkParts, HeapTyped, StoresSame, StepTyped
       DEF forkHeapVars
  <2>. QED
    BY <2>1, <2>2, <2>3, <2>4, <2>6
<1>3. LoopsBounded'
  <2>2. LoopBounded(t)'
    BY <1>1, <1>2, <1>bounds, ForkParts DEF LoopBounded
  <2>. QED
    BY <2>2, <1>2, LoopsKept
<1>4. CopiesWhole'
  BY CopiesKept DEF PushSecond
<1>5. ListsAgree'
  BY DEF PushSecond, ForkInv, ListsAgree, forkHeapVars
<1>6. FreeFit' /\ FreeOnce'
  <2>1. \A i \in FreeAt(t)' : i \in FreeAt(t) /\ FreeOf(t, i)' = FreeOf(t, i)
    BY <1>1, <1>2, ForkParts DEF FreeAt, FreeOf, LoopBounded
  <2>2. \A u \in Kept' : \A i \in FreeAt(u)' :
          i \in FreeAt(u) /\ FreeOf(u, i)' = FreeOf(u, i)
    BY <2>1, <1>2, OthersSame, KeptThreads
  <2>. QED
    BY <2>2, <1>2, OthersSame, FreeSame DEF PushSecond, forkHeapVars
<1>7. DeadFit' /\ DeadOnce'
  <2>. DEFINE m == [i \in 0 .. ForkCacheLimit |->
                     IF i = n THEN 0 ELSE i]
  <2>1. \A i \in DeadAt(t)' : m[i] \in DeadAt(t) /\ DeadOf(t, i)' = DeadOf(t, m[i])
    BY <1>1, <1>2, <1>bounds, ForkParts DEF DeadAt, DeadOf, LoopBounded
  <2>2. \A i, j \in DeadAt(t)' : m[i] = m[j] => i = j
    BY <1>1, <1>2, <1>bounds, ForkParts DEF DeadAt, LoopBounded
  <2>. HIDE DEF m
  <2>3. \A u \in Kept' : u # t => \A i \in DeadAt(u)' :
          i \in DeadAt(u) /\ DeadOf(u, i)' = DeadOf(u, i)
    BY <1>2, OthersSame, KeptThreads
  <2>. QED
    BY <1>1, <1>2, <2>1, <2>2, <2>3, OthersSame, DeadMoved DEF PushSecond,
       forkHeapVars
<1>. QED
  BY <1>2, <1>3, <1>4, <1>5, <1>6, <1>7 DEF ForkInv

LEMMA FlushedRunInv ==
    ASSUME ForkInv, NEW t \in ForkThreads, FlushedRun(t)
    PROVE  ForkInv'
<1>1. t \in Kept /\ forkAt[t] = "flush" /\ LoopBounded(t)
      /\ forkAt'[t] \in {"run", "return"} /\ reached[t] = release[t].count
  BY StepKept DEF FlushedRun, ForkInv, LoopsBounded, GoesTo, ForkTypeOK
<1>2. /\ ForkTypeOK' /\ OthersStay(t) /\ UNCHANGED todo
      /\ alloc'[t] = alloc[t]
      /\ release'[t].count = 0
      /\ release'[t].slots = release[t].slots
      /\ forkAt'[t] = forkAt'[t]
      /\ reached'[t] = 0
      /\ arg'[t] = arg[t]
  <2>1. /\ release' = [release EXCEPT ![t] = [release[t] EXCEPT !.count = 0]]
        /\ forkAt' = [forkAt EXCEPT ![t] = forkAt'[t]]
        /\ reached' = [reached EXCEPT ![t] = 0]
        /\ UNCHANGED <<forkHeapVars, alloc, arg, forkHeld, todo, stale>>
    BY DEF FlushedRun, GoesTo, ForkInv, ForkTypeOK
  <2>2. /\ alloc'[t] = alloc[t]
        /\ release'[t] = [release[t] EXCEPT !.count = 0]
        /\ forkAt'[t] = forkAt'[t]
        /\ reached'[t] = 0
        /\ arg'[t] = arg[t]
    BY <2>1 DEF ForkInv, ForkTypeOK
  <2>bounds. 0 \in 0 .. ForkCacheLimit
    BY ForkParts
  <2>3. /\ release'[t] \in CacheType
        /\ release'[t].count = 0
        /\ release'[t].slots = release[t].slots
    BY <2>2, <2>bounds, ForkParts, StoresSame, CountSet
  <2>4. /\ forkAt'[t] \in ForkPlaces /\ reached'[t] \in 0 .. ForkCacheLimit
        /\ arg'[t] \in ForkSlots \cup {NoSlot}
    BY <1>1, <2>2, <2>bounds, ForkParts DEF ForkPlaces
  <2>5. ForkTypeOK' /\ OthersStay(t)
    BY <2>1, <2>2, <2>3, <2>4, ForkParts, HeapTyped, StoresSame, StepTyped
       DEF forkHeapVars
  <2>. QED
    BY <2>1, <2>2, <2>3, <2>5
<1>3. LoopsBounded'
  <2>2. LoopBounded(t)'
    BY <1>1, <1>2, ForkParts DEF LoopBounded
  <2>. QED
    BY <2>2, <1>2, LoopsKept
<1>4. CopiesWhole'
  BY CopiesKept DEF FlushedRun
<1>5. ListsAgree'
  BY DEF FlushedRun, ForkInv, ListsAgree, forkHeapVars
<1>6. FreeFit' /\ FreeOnce'
  <2>1. \A i \in FreeAt(t)' : i \in FreeAt(t) /\ FreeOf(t, i)' = FreeOf(t, i)
    BY <1>1, <1>2, ForkParts DEF FreeAt, FreeOf, LoopBounded
  <2>2. \A u \in Kept' : \A i \in FreeAt(u)' :
          i \in FreeAt(u) /\ FreeOf(u, i)' = FreeOf(u, i)
    BY <2>1, <1>2, OthersSame, KeptThreads
  <2>. QED
    BY <2>2, <1>2, OthersSame, FreeSame DEF FlushedRun, forkHeapVars
<1>7. DeadFit' /\ DeadOnce'
  <2>1. \A i \in DeadAt(t)' : i \in DeadAt(t) /\ DeadOf(t, i)' = DeadOf(t, i)
    BY <1>1, <1>2, ForkParts DEF DeadAt, DeadOf, LoopBounded
  <2>2. \A u \in Kept' : \A i \in DeadAt(u)' :
          i \in DeadAt(u) /\ DeadOf(u, i)' = DeadOf(u, i)
    BY <2>1, <1>2, OthersSame, KeptThreads
  <2>. QED
    BY <2>2, <1>2, OthersSame, DeadSame DEF FlushedRun, forkHeapVars
<1>. QED
  BY <1>2, <1>3, <1>4, <1>5, <1>6, <1>7 DEF ForkInv

LEMMA DrainCacheInv ==
    ASSUME ForkInv, NEW t \in ForkThreads, DrainCache(t)
    PROVE  ForkInv'
<1>1. t \in Kept /\ forkAt[t] = "run" /\ LoopBounded(t)
  BY StepKept DEF DrainCache, ForkInv, LoopsBounded
<1>2. /\ ForkTypeOK' /\ OthersStay(t) /\ UNCHANGED todo
      /\ alloc'[t] = alloc[t]
      /\ release'[t] = release[t]
      /\ forkAt'[t] = "flush"
      /\ reached'[t] = reached[t]
      /\ arg'[t] = arg[t]
  <2>1. /\ forkAt' = [forkAt EXCEPT ![t] = "flush"]
        /\ UNCHANGED <<forkHeapVars, alloc, release, reached, arg, forkHeld, todo, stale>>
    BY DEF DrainCache, GoesTo
  <2>2. /\ alloc'[t] = alloc[t]
        /\ release'[t] = release[t]
        /\ forkAt'[t] = "flush"
        /\ reached'[t] = reached[t]
        /\ arg'[t] = arg[t]
    BY <2>1 DEF ForkInv, ForkTypeOK
  <2>4. /\ forkAt'[t] \in ForkPlaces /\ reached'[t] \in 0 .. ForkCacheLimit
        /\ arg'[t] \in ForkSlots \cup {NoSlot}
    BY <1>1, <2>2, ForkParts DEF ForkPlaces
  <2>5. ForkTypeOK' /\ OthersStay(t)
    BY <2>1, <2>2, <2>4, ForkParts, HeapTyped, StoresSame, StepTyped
       DEF forkHeapVars
  <2>. QED
    BY <2>1, <2>2, <2>5
<1>3. LoopsBounded'
  <2>2. LoopBounded(t)'
    BY <1>1, <1>2, ForkParts DEF LoopBounded
  <2>. QED
    BY <2>2, <1>2, LoopsKept
<1>4. CopiesWhole'
  BY CopiesKept DEF DrainCache
<1>5. ListsAgree'
  BY DEF DrainCache, ForkInv, ListsAgree, forkHeapVars
<1>6. FreeFit' /\ FreeOnce'
  <2>1. \A i \in FreeAt(t)' : i \in FreeAt(t) /\ FreeOf(t, i)' = FreeOf(t, i)
    BY <1>1, <1>2, ForkParts DEF FreeAt, FreeOf, LoopBounded
  <2>2. \A u \in Kept' : \A i \in FreeAt(u)' :
          i \in FreeAt(u) /\ FreeOf(u, i)' = FreeOf(u, i)
    BY <2>1, <1>2, OthersSame, KeptThreads
  <2>. QED
    BY <2>2, <1>2, OthersSame, FreeSame DEF DrainCache, forkHeapVars
<1>7. DeadFit' /\ DeadOnce'
  <2>1. \A i \in DeadAt(t)' : i \in DeadAt(t) /\ DeadOf(t, i)' = DeadOf(t, i)
    BY <1>1, <1>2, ForkParts DEF DeadAt, DeadOf, LoopBounded
  <2>2. \A u \in Kept' : \A i \in DeadAt(u)' :
          i \in DeadAt(u) /\ DeadOf(u, i)' = DeadOf(u, i)
    BY <2>1, <1>2, OthersSame, KeptThreads
  <2>. QED
    BY <2>2, <1>2, OthersSame, DeadSame DEF DrainCache, forkHeapVars
<1>. QED
  BY <1>2, <1>3, <1>4, <1>5, <1>6, <1>7 DEF ForkInv

LEMMA ReturnedInv ==
    ASSUME ForkInv, NEW t \in ForkThreads, Returned(t)
    PROVE  ForkInv'
<1>1. t \in Kept /\ forkAt[t] = "return" /\ LoopBounded(t)
      /\ reached[t] = alloc[t].count
  BY StepKept DEF Returned, ForkInv, LoopsBounded
<1>2. /\ ForkTypeOK' /\ OthersStay(t) /\ UNCHANGED todo
      /\ alloc'[t].count = 0
      /\ alloc'[t].slots = alloc[t].slots
      /\ release'[t] = release[t]
      /\ forkAt'[t] = "run"
      /\ reached'[t] = 0
      /\ arg'[t] = arg[t]
  <2>1. /\ alloc' = [alloc EXCEPT ![t] = [alloc[t] EXCEPT !.count = 0]]
        /\ forkAt' = [forkAt EXCEPT ![t] = "run"]
        /\ reached' = [reached EXCEPT ![t] = 0]
        /\ UNCHANGED <<forkHeapVars, release, arg, forkHeld, todo, stale>>
    BY DEF Returned, GoesTo
  <2>2. /\ alloc'[t] = [alloc[t] EXCEPT !.count = 0]
        /\ release'[t] = release[t]
        /\ forkAt'[t] = "run"
        /\ reached'[t] = 0
        /\ arg'[t] = arg[t]
    BY <2>1 DEF ForkInv, ForkTypeOK
  <2>bounds. 0 \in 0 .. ForkCacheLimit
    BY ForkParts
  <2>3. /\ alloc'[t] \in CacheType
        /\ alloc'[t].count = 0
        /\ alloc'[t].slots = alloc[t].slots
    BY <2>2, <2>bounds, ForkParts, StoresSame, CountSet
  <2>4. /\ forkAt'[t] \in ForkPlaces /\ reached'[t] \in 0 .. ForkCacheLimit
        /\ arg'[t] \in ForkSlots \cup {NoSlot}
    BY <1>1, <2>2, <2>bounds, ForkParts DEF ForkPlaces
  <2>5. ForkTypeOK' /\ OthersStay(t)
    BY <2>1, <2>2, <2>3, <2>4, ForkParts, HeapTyped, StoresSame, StepTyped
       DEF forkHeapVars
  <2>. QED
    BY <2>1, <2>2, <2>3, <2>5
<1>3. LoopsBounded'
  <2>2. LoopBounded(t)'
    BY <1>1, <1>2, ForkParts DEF LoopBounded
  <2>. QED
    BY <2>2, <1>2, LoopsKept
<1>4. CopiesWhole'
  BY CopiesKept DEF Returned
<1>5. ListsAgree'
  BY DEF Returned, ForkInv, ListsAgree, forkHeapVars
<1>6. FreeFit' /\ FreeOnce'
  <2>1. \A i \in FreeAt(t)' : i \in FreeAt(t) /\ FreeOf(t, i)' = FreeOf(t, i)
    BY <1>1, <1>2, ForkParts DEF FreeAt, FreeOf, LoopBounded
  <2>2. \A u \in Kept' : \A i \in FreeAt(u)' :
          i \in FreeAt(u) /\ FreeOf(u, i)' = FreeOf(u, i)
    BY <2>1, <1>2, OthersSame, KeptThreads
  <2>. QED
    BY <2>2, <1>2, OthersSame, FreeSame DEF Returned, forkHeapVars
<1>7. DeadFit' /\ DeadOnce'
  <2>1. \A i \in DeadAt(t)' : i \in DeadAt(t) /\ DeadOf(t, i)' = DeadOf(t, i)
    BY <1>1, <1>2, ForkParts DEF DeadAt, DeadOf, LoopBounded
  <2>2. \A u \in Kept' : \A i \in DeadAt(u)' :
          i \in DeadAt(u) /\ DeadOf(u, i)' = DeadOf(u, i)
    BY <2>1, <1>2, OthersSame, KeptThreads
  <2>. QED
    BY <2>2, <1>2, OthersSame, DeadSame DEF Returned, forkHeapVars
<1>. QED
  BY <1>2, <1>3, <1>4, <1>5, <1>6, <1>7 DEF ForkInv

LEMMA MakeLiveInv ==
    ASSUME ForkInv, NEW t \in ForkThreads, MakeLive(t)
    PROVE  ForkInv'
<1>1. t \in Kept /\ forkAt[t] = "taken" /\ LoopBounded(t)
      /\ arg[t] \in bumped /\ arg[t] \in ForkSlots /\ listed[arg[t]] = 0
      /\ word[arg[t]] \in {"never", "free"} /\ 0 \in FreeAt(t) /\ FreeOf(t, 0) = arg[t]
  <2>1. t \in Kept /\ forkAt[t] = "taken" /\ LoopBounded(t)
    BY StepKept DEF MakeLive, ForkInv, LoopsBounded
  <2>2. 0 \in FreeAt(t) /\ FreeOf(t, 0) = arg[t]
    BY <2>1, ForkParts DEF FreeAt, FreeOf
  <2>. QED
    BY <2>1, <2>2, HeapTyped DEF ForkInv, FreeFit
<1>2. /\ ForkTypeOK' /\ OthersStay(t) /\ UNCHANGED todo
      /\ alloc'[t] = alloc[t]
      /\ release'[t] = release[t]
      /\ forkAt'[t] = "run"
      /\ reached'[t] = reached[t]
      /\ arg'[t] = NoSlot
  <2>1. /\ forkAt' = [forkAt EXCEPT ![t] = "run"]
        /\ arg' = [arg EXCEPT ![t] = NoSlot]
        /\ UNCHANGED <<bumped, listed, quarantined, alloc, release, reached, todo, stale>>
    BY DEF MakeLive, GoesTo
  <2>2. /\ alloc'[t] = alloc[t]
        /\ release'[t] = release[t]
        /\ forkAt'[t] = "run"
        /\ reached'[t] = reached[t]
        /\ arg'[t] = NoSlot
    BY <2>1 DEF ForkInv, ForkTypeOK
  <2>4. /\ forkAt'[t] \in ForkPlaces /\ reached'[t] \in 0 .. ForkCacheLimit
        /\ arg'[t] \in ForkSlots \cup {NoSlot}
    BY <1>1, <2>2, ForkParts DEF ForkPlaces
  <2>heap. word' \in [ForkSlots -> Words] /\ forkHeld' \subseteq ForkSlots
    BY <1>1, HeapTyped DEF MakeLive, Words
  <2>5. ForkTypeOK' /\ OthersStay(t)
    BY <2>1, <2>2, <2>4, <2>heap, ForkParts, HeapTyped, StoresSame, StepTyped
       DEF forkHeapVars
  <2>. QED
    BY <2>1, <2>2, <2>5
<1>3. LoopsBounded'
  <2>2. LoopBounded(t)'
    BY <1>1, <1>2, ForkParts DEF LoopBounded
  <2>. QED
    BY <2>2, <1>2, LoopsKept
<1>4. CopiesWhole'
  BY CopiesKept DEF MakeLive
<1>5. ListsAgree'
  BY <1>1, HeapTyped DEF MakeLive, ForkInv, ListsAgree
<1>6. FreeFit' /\ FreeOnce'
  <2>1. \A i \in FreeAt(t)' : i \in FreeAt(t) /\ FreeOf(t, i)' = FreeOf(t, i)
    BY <1>1, <1>2, ForkParts DEF FreeAt, FreeOf, LoopBounded
  <2>2. \A u \in Kept' : \A i \in FreeAt(u)' :
          i \in FreeAt(u) /\ FreeOf(u, i)' = FreeOf(u, i)
    BY <2>1, <1>2, OthersSame, KeptThreads
  <2>3. \A u \in Kept' : \A i \in FreeAt(u)' : FreeOf(u, i) # arg[t]
    <3>1. 0 \notin FreeAt(t)'
      BY <1>2, ForkParts DEF FreeAt
    <3>. QED
      BY <1>1, <1>2, <2>2, <3>1, OthersSame DEF ForkInv, FreeOnce
  <2>4. FreeFit'
    BY <1>1, <1>2, <2>2, <2>3, OthersSame, HeapTyped DEF MakeLive, ForkInv,
       FreeFit
  <2>. QED
    BY <2>2, <2>4, <1>2, OthersSame, FreeSame
<1>7. DeadFit' /\ DeadOnce'
  <2>1. \A i \in DeadAt(t)' : i \in DeadAt(t) /\ DeadOf(t, i)' = DeadOf(t, i)
    BY <1>1, <1>2, ForkParts DEF DeadAt, DeadOf, LoopBounded
  <2>2. \A u \in Kept' : \A i \in DeadAt(u)' :
          i \in DeadAt(u) /\ DeadOf(u, i)' = DeadOf(u, i)
    BY <2>1, <1>2, OthersSame, KeptThreads
  <2>3. DeadFit'
    BY <1>1, <1>2, <2>2, OthersSame, HeapTyped DEF MakeLive, ForkInv, DeadFit
  <2>. QED
    BY <2>2, <2>3, <1>2, OthersSame, DeadSame
<1>. QED
  BY <1>2, <1>3, <1>4, <1>5, <1>6, <1>7 DEF ForkInv

LEMMA ClaimOneInv ==
    ASSUME ForkInv, NEW t \in ForkThreads, ClaimOne(t)
    PROVE  ForkInv'
<1>. DEFINE s == arg'[t]
<1>1. t \in Kept /\ forkAt[t] = "run" /\ LoopBounded(t)
      /\ s \in forkHeld /\ s \in ForkSlots /\ word[s] = "live"
      /\ word' = [word EXCEPT ![s] = "claimed"] /\ forkHeld' = forkHeld \ {s}
      /\ arg' = [arg EXCEPT ![t] = s]
  <2>1. t \in Kept /\ forkAt[t] = "run" /\ LoopBounded(t)
    BY StepKept DEF ClaimOne, ForkInv, LoopsBounded
  <2>2. PICK b \in forkHeld :
          /\ word' = [word EXCEPT ![b] = "claimed"] /\ forkHeld' = forkHeld \ {b}
          /\ arg' = [arg EXCEPT ![t] = b]
    BY DEF ClaimOne
  <2>3. s = b
    BY <2>2 DEF ForkInv, ForkTypeOK
  <2>4. b \in ForkSlots /\ word[b] = "live"
    BY HeapTyped DEF ForkInv, ListsAgree
  <2>. QED
    BY <2>1, <2>2, <2>3, <2>4
<1>. HIDE DEF s
<1>2. /\ ForkTypeOK' /\ OthersStay(t) /\ UNCHANGED todo
      /\ alloc'[t] = alloc[t]
      /\ release'[t] = release[t]
      /\ forkAt'[t] = "push"
      /\ reached'[t] = reached[t]
      /\ arg'[t] = s
  <2>1. /\ forkAt' = [forkAt EXCEPT ![t] = "push"]
        /\ arg' = [arg EXCEPT ![t] = s]
        /\ UNCHANGED <<bumped, listed, quarantined, alloc, release, reached, todo, stale>>
    BY <1>1 DEF ClaimOne, GoesTo, s
  <2>2. /\ alloc'[t] = alloc[t]
        /\ release'[t] = release[t]
        /\ forkAt'[t] = "push"
        /\ reached'[t] = reached[t]
        /\ arg'[t] = s
    BY <2>1 DEF ForkInv, ForkTypeOK
  <2>4. /\ forkAt'[t] \in ForkPlaces /\ reached'[t] \in 0 .. ForkCacheLimit
        /\ arg'[t] \in ForkSlots \cup {NoSlot}
    BY <1>1, <2>2, ForkParts DEF ForkPlaces
  <2>heap. word' \in [ForkSlots -> Words] /\ forkHeld' \subseteq ForkSlots
    BY <1>1, HeapTyped DEF Words
  <2>5. ForkTypeOK' /\ OthersStay(t)
    BY <2>1, <2>2, <2>4, <2>heap, ForkParts, HeapTyped, StoresSame, StepTyped
       DEF forkHeapVars
  <2>. QED
    BY <2>1, <2>2, <2>5
<1>3. LoopsBounded'
  <2>2. LoopBounded(t)'
    BY <1>1, <1>2, ForkParts DEF LoopBounded
  <2>. QED
    BY <2>2, <1>2, LoopsKept
<1>4. CopiesWhole'
  BY CopiesKept DEF ClaimOne
<1>5. ListsAgree'
  BY <1>1, HeapTyped DEF ClaimOne, ForkInv, ListsAgree
<1>6. FreeFit' /\ FreeOnce'
  <2>1. \A i \in FreeAt(t)' : i \in FreeAt(t) /\ FreeOf(t, i)' = FreeOf(t, i)
    BY <1>1, <1>2, ForkParts DEF FreeAt, FreeOf, LoopBounded
  <2>2. \A u \in Kept' : \A i \in FreeAt(u)' :
          i \in FreeAt(u) /\ FreeOf(u, i)' = FreeOf(u, i)
    BY <2>1, <1>2, OthersSame, KeptThreads
  <2>3. FreeFit'
    BY <1>1, <1>2, <2>2, OthersSame, HeapTyped DEF ClaimOne, ForkInv, FreeFit
  <2>. QED
    BY <2>2, <2>3, <1>2, OthersSame, FreeSame
<1>7. DeadFit' /\ DeadOnce'
  <2>1. /\ DeadOf(t, 0)' = s
        /\ \A i \in DeadAt(t)' :
             i = 0 \/ (i \in DeadAt(t) /\ DeadOf(t, i)' = DeadOf(t, i))
    BY <1>1, <1>2, ForkParts DEF DeadAt, DeadOf
  <2>2. \A u \in Kept' : \A i \in DeadAt(u)' :
          \/ u = t /\ i = 0
          \/ /\ i \in DeadAt(u) /\ DeadOf(u, i)' = DeadOf(u, i)
             /\ DeadOf(u, i) # s
    BY <1>1, <1>2, <2>1, OthersSame, KeptThreads DEF ForkInv, DeadFit
  <2>3. DeadFit'
    BY <1>1, <1>2, <2>1, <2>2, OthersSame, HeapTyped DEF ForkInv, DeadFit
  <2>4. DeadOnce'
    BY <1>1, <1>2, <2>1, <2>2, OthersSame DEF ForkInv, DeadOnce
  <2>. QED
    BY <2>3, <2>4
<1>. QED
  BY <1>2, <1>3, <1>4, <1>5, <1>6, <1>7 DEF ForkInv

LEMMA ReturnCachedInv ==
    ASSUME ForkInv, NEW t \in ForkThreads, ReturnCached(t)
    PROVE  ForkInv'
<1>. DEFINE s == alloc[t].slots[reached[t] + 1]
<1>1. t \in Kept /\ forkAt[t] = "return" /\ LoopBounded(t)
      /\ reached[t] < alloc[t].count /\ s \in bumped /\ s \in ForkSlots
      /\ word[s] \in {"never", "free"} /\ listed[s] = 0
      /\ reached[t] + 1 \in FreeAt(t) /\ FreeOf(t, reached[t] + 1) = s
      /\ word' = [word EXCEPT ![s] = "free"] /\ listed' = Plus(listed, {s})
  <2>1. t \in Kept /\ forkAt[t] = "return" /\ LoopBounded(t)
        /\ reached[t] < alloc[t].count
    BY StepKept DEF ReturnCached, ForkInv, LoopsBounded
  <2>2. reached[t] + 1 \in FreeAt(t) /\ FreeOf(t, reached[t] + 1) = s
    BY <2>1, ForkParts DEF FreeAt, FreeOf
  <2>3. s \in bumped /\ word[s] \in {"never", "free"} /\ listed[s] = 0
    BY <2>1, <2>2 DEF ForkInv, FreeFit
  <2>. QED
    BY <2>1, <2>2, <2>3, HeapTyped DEF ReturnCached
<1>. HIDE DEF s
<1>2. /\ ForkTypeOK' /\ OthersStay(t) /\ UNCHANGED todo
      /\ alloc'[t] = alloc[t]
      /\ release'[t] = release[t]
      /\ forkAt'[t] = forkAt[t]
      /\ reached'[t] = reached[t] + 1
      /\ arg'[t] = arg[t]
  <2>1. /\ reached' = [reached EXCEPT ![t] = reached[t] + 1]
        /\ UNCHANGED <<bumped, quarantined, alloc, release, forkAt, arg, forkHeld, todo, stale>>
    BY DEF ReturnCached, GoesTo
  <2>2. /\ alloc'[t] = alloc[t]
        /\ release'[t] = release[t]
        /\ forkAt'[t] = forkAt[t]
        /\ reached'[t] = reached[t] + 1
        /\ arg'[t] = arg[t]
    BY <2>1 DEF ForkInv, ForkTypeOK
  <2>4. /\ forkAt'[t] \in ForkPlaces /\ reached'[t] \in 0 .. ForkCacheLimit
        /\ arg'[t] \in ForkSlots \cup {NoSlot}
    BY <1>1, <2>2, ForkParts DEF ForkPlaces
  <2>heap. word' \in [ForkSlots -> Words] /\ listed' \in [ForkSlots -> Nat]
    BY <1>1, HeapTyped DEF Words, Plus
  <2>5. ForkTypeOK' /\ OthersStay(t)
    BY <2>1, <2>2, <2>4, <2>heap, ForkParts, HeapTyped, StoresSame, StepTyped
       DEF forkHeapVars
  <2>. QED
    BY <2>1, <2>2, <2>5
<1>3. LoopsBounded'
  <2>2. LoopBounded(t)'
    BY <1>1, <1>2, ForkParts DEF LoopBounded
  <2>. QED
    BY <2>2, <1>2, LoopsKept
<1>4. CopiesWhole'
  BY CopiesKept DEF ReturnCached
<1>5. ListsAgree'
  BY <1>1, HeapTyped DEF ReturnCached, Plus, ForkInv, ListsAgree
<1>6. FreeFit' /\ FreeOnce'
  <2>1. \A i \in FreeAt(t)' : i \in FreeAt(t) /\ FreeOf(t, i)' = FreeOf(t, i)
    BY <1>1, <1>2, ForkParts DEF FreeAt, FreeOf, LoopBounded
  <2>2. \A u \in Kept' : \A i \in FreeAt(u)' :
          i \in FreeAt(u) /\ FreeOf(u, i)' = FreeOf(u, i)
    BY <2>1, <1>2, OthersSame, KeptThreads
  <2>3. \A u \in Kept' : \A i \in FreeAt(u)' : FreeOf(u, i) # s
    <3>1. reached[t] + 1 \notin FreeAt(t)'
      BY <1>1, <1>2, ForkParts DEF FreeAt
    <3>. QED
      BY <1>1, <1>2, <2>2, <3>1, OthersSame DEF ForkInv, FreeOnce
  <2>4. FreeFit'
    <3>. SUFFICES ASSUME NEW u \in Kept', NEW i \in FreeAt(u)'
                  PROVE  /\ FreeOf(u, i)' \in bumped'
                         /\ word'[FreeOf(u, i)'] \in {"never", "free"}
                         /\ listed'[FreeOf(u, i)'] = 0
      BY DEF FreeFit
    <3>1. /\ FreeOf(u, i) \in bumped /\ word[FreeOf(u, i)] \in {"never", "free"}
          /\ listed[FreeOf(u, i)] = 0
      BY <1>2, <2>2, OthersSame DEF ForkInv, FreeFit
    <3>. QED
      BY <1>1, <3>1, <2>2, <2>3, HeapTyped DEF Plus, ReturnCached
  <2>. QED
    BY <2>2, <2>4, <1>2, OthersSame, FreeSame
<1>7. DeadFit' /\ DeadOnce'
  <2>1. \A i \in DeadAt(t)' : i \in DeadAt(t) /\ DeadOf(t, i)' = DeadOf(t, i)
    BY <1>1, <1>2, ForkParts DEF DeadAt, DeadOf, LoopBounded
  <2>2. \A u \in Kept' : \A i \in DeadAt(u)' :
          i \in DeadAt(u) /\ DeadOf(u, i)' = DeadOf(u, i)
    BY <2>1, <1>2, OthersSame, KeptThreads
  <2>3. DeadFit'
    BY <1>1, <1>2, <2>2, OthersSame, HeapTyped DEF ForkInv, DeadFit
  <2>. QED
    BY <2>2, <2>3, <1>2, OthersSame, DeadSame
<1>. QED
  BY <1>2, <1>3, <1>4, <1>5, <1>6, <1>7 DEF ForkInv

LEMMA FlushInv ==
    ASSUME ForkInv, NEW t \in ForkThreads, Flush(t)
    PROVE  ForkInv'
<1>. DEFINE last == reached'[t]
             S == {release[t].slots[i] : i \in reached[t] + 1 .. last}
<1>1. t \in Kept /\ forkAt[t] = "flush" /\ LoopBounded(t)
      /\ last \in reached[t] + 1 .. release[t].count
      /\ reached' = [reached EXCEPT ![t] = last]
      /\ word' = Marked(S, "dead") /\ quarantined' = Plus(quarantined, S)
      /\ \A s \in S : /\ s \in ForkSlots /\ word[s] = "claimed"
                       /\ quarantined[s] = 0 /\ s \in bumped
  <2>1. t \in Kept /\ forkAt[t] = "flush" /\ LoopBounded(t)
    BY StepKept DEF Flush, ForkInv, LoopsBounded
  <2>2. PICK n \in reached[t] + 1 .. release[t].count :
          /\ word' = Marked({release[t].slots[i] : i \in reached[t] + 1 .. n}, "dead")
          /\ quarantined' = Plus(quarantined,
                                 {release[t].slots[i] : i \in reached[t] + 1 .. n})
          /\ reached' = [reached EXCEPT ![t] = n]
    BY DEF Flush
  <2>3. last = n
    BY <2>2 DEF ForkInv, ForkTypeOK
  <2>4. ASSUME NEW i \in reached[t] + 1 .. last
        PROVE  release[t].slots[i] \in ForkSlots /\ word[release[t].slots[i]] = "claimed"
    <3>1. i \in DeadAt(t) /\ DeadOf(t, i) = release[t].slots[i]
      BY <2>1, <2>3, ForkParts DEF DeadAt, DeadOf
    <3>. QED
      BY <2>1, <3>1 DEF ForkInv, DeadFit
  <2>5. ASSUME NEW s \in S
        PROVE  /\ s \in ForkSlots /\ word[s] = "claimed"
               /\ quarantined[s] = 0 /\ s \in bumped
    BY <2>4, HeapTyped DEF ForkInv, ListsAgree
  <2>. HIDE DEF S
  <2>. QED
    BY <2>1, <2>2, <2>3, <2>5 DEF S
<1>. HIDE DEF last
<1>2. /\ ForkTypeOK' /\ OthersStay(t) /\ UNCHANGED todo
      /\ alloc'[t] = alloc[t]
      /\ release'[t] = release[t]
      /\ forkAt'[t] = forkAt[t]
      /\ reached'[t] = last
      /\ arg'[t] = arg[t]
  <2>1. /\ reached' = [reached EXCEPT ![t] = last]
        /\ UNCHANGED <<bumped, listed, alloc, release, forkAt, arg, forkHeld, todo, stale>>
    BY <1>1 DEF Flush
  <2>2. /\ alloc'[t] = alloc[t]
        /\ release'[t] = release[t]
        /\ forkAt'[t] = forkAt[t]
        /\ reached'[t] = last
        /\ arg'[t] = arg[t]
    BY <2>1 DEF ForkInv, ForkTypeOK
  <2>bounds. last \in 0 .. ForkCacheLimit
    BY <1>1, ForkParts
  <2>4. /\ forkAt'[t] \in ForkPlaces /\ reached'[t] \in 0 .. ForkCacheLimit
        /\ arg'[t] \in ForkSlots \cup {NoSlot}
    BY <1>1, <2>2, <2>bounds, ForkParts DEF ForkPlaces
  <2>heap. word' \in [ForkSlots -> Words] /\ quarantined' \in [ForkSlots -> Nat]
    BY <1>1, HeapTyped DEF Words, Plus, Marked
  <2>5. ForkTypeOK' /\ OthersStay(t)
    BY <2>1, <2>2, <2>4, <2>heap, ForkParts, HeapTyped, StoresSame, StepTyped
       DEF forkHeapVars
  <2>. QED
    BY <2>1, <2>2, <2>5
<1>3. LoopsBounded'
  <2>2. LoopBounded(t)'
    BY <1>1, <1>2, ForkParts DEF LoopBounded
  <2>. QED
    BY <2>2, <1>2, LoopsKept
<1>4. CopiesWhole'
  BY CopiesKept DEF Flush
<1>5. ListsAgree'
  BY <1>1, HeapTyped DEF Flush, Plus, Marked, ForkInv, ListsAgree
<1>6. FreeFit' /\ FreeOnce'
  <2>1. \A i \in FreeAt(t)' : i \in FreeAt(t) /\ FreeOf(t, i)' = FreeOf(t, i)
    BY <1>1, <1>2, ForkParts DEF FreeAt, FreeOf, LoopBounded
  <2>2. \A u \in Kept' : \A i \in FreeAt(u)' :
          i \in FreeAt(u) /\ FreeOf(u, i)' = FreeOf(u, i)
    BY <2>1, <1>2, OthersSame, KeptThreads
  <2>3. FreeFit'
    <3>. HIDE DEF S
    <3>. SUFFICES ASSUME NEW u \in Kept', NEW i \in FreeAt(u)'
                  PROVE  /\ FreeOf(u, i)' \in bumped'
                         /\ word'[FreeOf(u, i)'] \in {"never", "free"}
                         /\ listed'[FreeOf(u, i)'] = 0
      BY DEF FreeFit
    <3>1. /\ FreeOf(u, i) \in bumped /\ word[FreeOf(u, i)] \in {"never", "free"}
          /\ listed[FreeOf(u, i)] = 0
      BY <1>2, <2>2, OthersSame DEF ForkInv, FreeFit
    <3>. QED
      BY <1>1, <3>1, <2>2, HeapTyped DEF Marked, Flush
  <2>. QED
    BY <2>2, <2>3, <1>2, OthersSame, FreeSame
<1>7. DeadFit' /\ DeadOnce'
  <2>1. \A i \in DeadAt(t)' : i \in DeadAt(t) /\ DeadOf(t, i)' = DeadOf(t, i)
    BY <1>1, <1>2, ForkParts DEF DeadAt, DeadOf, LoopBounded
  <2>2. \A u \in Kept' : \A i \in DeadAt(u)' :
          i \in DeadAt(u) /\ DeadOf(u, i)' = DeadOf(u, i)
    BY <2>1, <1>2, OthersSame, KeptThreads
  <2>3. ASSUME NEW u \in Kept', NEW i \in DeadAt(u)', DeadOf(u, i) \in S
        PROVE  FALSE
    <3>1. PICK j \in reached[t] + 1 .. last : DeadOf(u, i) = release[t].slots[j]
      BY <2>3
    <3>2. j \in DeadAt(t) /\ DeadOf(t, j) = release[t].slots[j] /\ j \notin DeadAt(t)'
      BY <1>1, <1>2, ForkParts DEF DeadAt, DeadOf
    <3>3. u \in Kept /\ i \in DeadAt(u)
      BY <1>2, <2>2, OthersSame
    <3>4. u = t /\ i = j
      BY <1>1, <3>1, <3>2, <3>3 DEF ForkInv, DeadOnce
    <3>. QED
      BY <3>2, <3>4
  <2>4. DeadFit'
    <3>. HIDE DEF S
    <3>. SUFFICES ASSUME NEW u \in Kept', NEW i \in DeadAt(u)'
                  PROVE  DeadOf(u, i)' \in ForkSlots /\ word'[DeadOf(u, i)'] = "claimed"
      BY DEF DeadFit
    <3>. QED
      BY <1>1, <1>2, <2>2, <2>3, OthersSame, HeapTyped
       DEF ForkInv, DeadFit, Marked
  <2>. QED
    BY <2>2, <2>4, <1>2, OthersSame, DeadSame
<1>. QED
  BY <1>2, <1>3, <1>4, <1>5, <1>6, <1>7 DEF ForkInv

LEMMA RefillInv ==
    ASSUME ForkInv, NEW t \in ForkThreads, Refill(t)
    PROVE  ForkInv'
<1>1. /\ t \in Kept /\ forkAt[t] = "run" /\ LoopBounded(t)
      /\ alloc[t].count = 0
  BY StepKept DEF Refill, ForkInv, LoopsBounded
<1>2. PICK r \in Regions, S \in SUBSET ForkSlots :
        /\ Popped(r, S)
        /\ \E f \in Injection(1 .. Cardinality(S), S) :
             alloc' = [alloc EXCEPT ![t].slots =
                 [i \in 1 .. ForkCacheLimit |->
                     IF i \in DOMAIN f THEN f[i] ELSE @[i]]]
        /\ listed' = Unlinked(S)
        /\ bumped' = bumped \cup S
        /\ reached' = [reached EXCEPT ![t] = Cardinality(S)]
  BY DEF Refill
<1>3. PICK f \in Injection(1 .. Cardinality(S), S) :
        alloc' = [alloc EXCEPT ![t].slots =
            [i \in 1 .. ForkCacheLimit |-> IF i \in DOMAIN f
              THEN f[i] ELSE @[i]]]
  BY <1>2
<1>. DEFINE n == Cardinality(S)
<1>4. n \in 1 .. ForkCacheLimit
  <2>1. IsFiniteSet(S)
    BY ForkAssumption, FS_Subset DEF ForkAssumption
  <2>2. n \in Nat /\ n # 0
    BY <1>2, <2>1, FS_CardinalityType, FS_EmptySet DEF Popped
  <2>. QED
    BY <1>2, <2>2, ForkParts DEF Popped
<1>. HIDE DEF n
<1>5. /\ f \in [1 .. n -> S]
      /\ \A i, j \in 1 .. n : f[i] = f[j] => i = j
  BY DEF Injection, IsInjective, n
<1>6. ASSUME NEW s \in S
      PROVE  /\ s \in ForkSlots /\ s \in bumped' /\ listed'[s] = 0
             /\ word[s] \in {"never", "free"}
             /\ (listed[s] > 0 \/ s \notin bumped)
  <2>1. s \in ForkSlots /\ (listed[s] > 0 \/ s \notin bumped)
    BY <1>2 DEF Popped
  <2>2. word[s] \in {"never", "free"} /\ listed[s] \in {0, 1}
    BY <2>1, HeapTyped DEF ForkInv, ListsAgree
  <2>3. listed'[s] = 0
    BY <1>2, <2>1, <2>2 DEF Unlinked, Less
  <2>. QED
    BY <1>2, <2>1, <2>2, <2>3
<1>7. ASSUME NEW s \in ForkSlots \ S
      PROVE  listed'[s] = listed[s]
  BY <1>2 DEF Unlinked, Less
<1>8. /\ ForkTypeOK' /\ OthersStay(t) /\ UNCHANGED todo
      /\ alloc'[t].count = 0 /\ \A i \in 1 .. n : alloc'[t].slots[i] = f[i]
      /\ release'[t] = release[t] /\ forkAt'[t] = "filled"
      /\ reached'[t] = n /\ arg'[t] = arg[t]
  <2>. DEFINE E == [i \in 1 .. ForkCacheLimit |->
                      IF i \in 1 .. n THEN f[i] ELSE alloc[t].slots[i]]
  <2>1. DOMAIN f = 1 .. n
    BY <1>5
  <2>2. /\ alloc' = [alloc EXCEPT ![t] = [alloc[t] EXCEPT !.slots = E]]
        /\ forkAt' = [forkAt EXCEPT ![t] = "filled"]
        /\ reached' = [reached EXCEPT ![t] = n]
        /\ UNCHANGED <<word, quarantined, release, arg, forkHeld, todo, stale>>
    BY <1>2, <1>3, <2>1 DEF Refill, GoesTo, n
  <2>3. E \in [1 .. ForkCacheLimit -> ForkSlots \cup {NoSlot}]
        /\ \A i \in 1 .. n : E[i] = f[i]
    BY <1>4, <1>5, ForkParts
  <2>. HIDE DEF E
  <2>4. /\ alloc'[t] = [alloc[t] EXCEPT !.slots = E]
        /\ forkAt'[t] = "filled" /\ reached'[t] = n
        /\ release'[t] = release[t] /\ arg'[t] = arg[t]
    BY <2>2 DEF ForkInv, ForkTypeOK
  <2>5. alloc'[t] \in CacheType /\ alloc'[t].count = 0 /\ alloc'[t].slots = E
    BY <1>1, <2>3, <2>4, ForkParts, StoresSame DEF CacheType
  <2>6. /\ forkAt'[t] \in ForkPlaces /\ reached'[t] \in 0 .. ForkCacheLimit
        /\ arg'[t] \in ForkSlots \cup {NoSlot}
    BY <1>4, <2>4, ForkParts DEF ForkPlaces
  <2>7. bumped' \subseteq ForkSlots /\ listed' \in [ForkSlots -> Nat]
    BY <1>2, HeapTyped DEF Unlinked, Less
  <2>8. ForkTypeOK' /\ OthersStay(t)
    BY <2>2, <2>4, <2>5, <2>6, <2>7, ForkParts, HeapTyped, StoresSame,
       StepTyped
  <2>. QED
    BY <2>2, <2>3, <2>4, <2>5, <2>8
<1>9. LoopsBounded'
  <2>1. LoopBounded(t)'
    BY <1>1, <1>4, <1>8, ForkParts DEF LoopBounded
  <2>. QED
    BY <2>1, <1>8, LoopsKept
<1>10. CopiesWhole'
  BY CopiesKept DEF Refill
<1>11. ListsAgree'
  BY <1>2, <1>6, <1>7, HeapTyped DEF Refill, ForkInv, ListsAgree
<1>12. \A i \in FreeAt(t)' : i \in 1 .. n /\ FreeOf(t, i)' = f[i]
  BY <1>8, ForkParts DEF FreeAt, FreeOf
<1>13. \A u \in Kept' : \A i \in FreeAt(u)' :
         \/ u = t
         \/ /\ u \in Kept /\ i \in FreeAt(u) /\ FreeOf(u, i)' = FreeOf(u, i)
            /\ FreeOf(u, i) \notin S /\ FreeOf(u, i) \in ForkSlots
  <2>1. \A u \in Kept : \A i \in FreeAt(u) :
          FreeOf(u, i) \in bumped /\ listed[FreeOf(u, i)] = 0
    BY DEF ForkInv, FreeFit
  <2>2. \A u \in Kept : \A i \in FreeAt(u) :
          FreeOf(u, i) \notin S /\ FreeOf(u, i) \in ForkSlots
    BY <1>6, <2>1, HeapTyped
  <2>. QED
    BY <1>8, <2>2, OthersSame, KeptThreads
<1>14. FreeFit'
  <2>. SUFFICES ASSUME NEW u \in Kept', NEW i \in FreeAt(u)'
                PROVE  /\ FreeOf(u, i)' \in bumped'
                       /\ word'[FreeOf(u, i)'] \in {"never", "free"}
                       /\ listed'[FreeOf(u, i)'] = 0
    BY DEF FreeFit
  <2>1. CASE u = t
    BY <1>5, <1>6, <1>12, <2>1 DEF Refill
  <2>2. CASE u # t
    <3>1. /\ u \in Kept /\ i \in FreeAt(u) /\ FreeOf(u, i)' = FreeOf(u, i)
          /\ FreeOf(u, i) \in ForkSlots \ S
      BY <1>13, <2>2
    <3>2. /\ FreeOf(u, i) \in bumped /\ word[FreeOf(u, i)] \in {"never", "free"}
          /\ listed[FreeOf(u, i)] = 0
      BY <3>1 DEF ForkInv, FreeFit
    <3>. QED
      BY <1>2, <1>7, <3>1, <3>2 DEF Refill
  <2>. QED
    BY <2>1, <2>2
<1>15. FreeOnce'
  <2>. SUFFICES ASSUME NEW u \in Kept', NEW v \in Kept', NEW i \in FreeAt(u)',
                       NEW j \in FreeAt(v)', FreeOf(u, i)' = FreeOf(v, j)'
                PROVE  u = v /\ i = j
    BY DEF FreeOnce
  <2>1. CASE u = t /\ v = t
    BY <1>5, <1>12, <2>1
  <2>2. CASE u # t /\ v # t
    BY <1>13, <2>2 DEF ForkInv, FreeOnce
  <2>3. CASE u = t /\ v # t
    BY <1>5, <1>12, <1>13, <2>3
  <2>4. CASE u # t /\ v = t
    BY <1>5, <1>12, <1>13, <2>4
  <2>. QED
    BY <2>1, <2>2, <2>3, <2>4
<1>16. DeadFit' /\ DeadOnce'
  <2>1. \A i \in DeadAt(t)' : i \in DeadAt(t) /\ DeadOf(t, i)' = DeadOf(t, i)
    BY <1>1, <1>8, ForkParts DEF DeadAt, DeadOf
  <2>2. \A u \in Kept' : \A i \in DeadAt(u)' :
          i \in DeadAt(u) /\ DeadOf(u, i)' = DeadOf(u, i)
    BY <2>1, <1>8, OthersSame, KeptThreads
  <2>. QED
    BY <2>2, <1>8, OthersSame, DeadSame DEF Refill
<1>. QED
  BY <1>8, <1>9, <1>10, <1>11, <1>14, <1>15, <1>16 DEF ForkInv

-----------------------------------------------------------------------------
(* The sweep and fork *)

LEMMA RecycleQueuedInv ==
    ASSUME ForkInv, RecycleQueued
    PROVE  ForkInv'
<1>1. PICK S \in SUBSET {s \in ForkSlots : quarantined[s] > 0} :
        /\ quarantined' = Less(quarantined, S)
        /\ listed' = Plus(listed, S)
        /\ word' = Marked(S, "free")
  BY DEF RecycleQueued
<1>2. UNCHANGED <<bumped, alloc, release, forkAt, reached, arg, forkHeld, todo, stale>>
  BY DEF RecycleQueued
<1>3. \A s \in S : /\ s \in ForkSlots /\ word[s] = "dead" /\ quarantined[s] = 1
                   /\ listed[s] = 0 /\ s \in bumped /\ s \notin forkHeld
  BY <1>1, HeapTyped DEF ForkInv, ListsAgree
<1>4. ForkTypeOK'
  <2>1. /\ word' \in [ForkSlots -> Words] /\ listed' \in [ForkSlots -> Nat]
        /\ quarantined' \in [ForkSlots -> Nat]
    BY <1>1, <1>3, HeapTyped DEF Less, Plus, Marked, Words
  <2>. QED
    BY <1>2, <2>1 DEF ForkInv, ForkTypeOK
<1>5. LoopsBounded' /\ CopiesWhole'
  <2>1. LoopsBounded'
    BY <1>2 DEF ForkInv, LoopsBounded, LoopBounded
  <2>2. todo' = NoSlot \/ todo' = {}
    BY <1>2 DEF RecycleQueued
  <2>. QED
    BY <2>1, <2>2 DEF CopiesWhole, Forked
<1>6. ListsAgree'
  BY <1>1, <1>2, <1>3, HeapTyped DEF Less, Plus, Marked, ForkInv, ListsAgree
<1>7. /\ Kept' = Kept
      /\ \A u : FreeAt(u)' = FreeAt(u) /\ DeadAt(u)' = DeadAt(u)
      /\ \A u, i : FreeOf(u, i)' = FreeOf(u, i) /\ DeadOf(u, i)' = DeadOf(u, i)
  BY <1>2 DEF Kept, Forked, FreeAt, DeadAt, FreeOf, DeadOf
<1>8. FreeOnce' /\ DeadOnce'
  BY <1>7, FreeSame, DeadSame
<1>9. FreeFit'
  <2>. SUFFICES ASSUME NEW u \in Kept, NEW i \in FreeAt(u)
                PROVE  /\ FreeOf(u, i) \in bumped'
                       /\ word'[FreeOf(u, i)] \in {"never", "free"}
                       /\ listed'[FreeOf(u, i)] = 0
    BY <1>7 DEF FreeFit
  <2>1. /\ FreeOf(u, i) \in bumped /\ word[FreeOf(u, i)] \in {"never", "free"}
        /\ listed[FreeOf(u, i)] = 0
    BY DEF ForkInv, FreeFit
  <2>. QED
    BY <1>1, <1>2, <1>3, <2>1, HeapTyped DEF Plus, Marked
<1>10. DeadFit'
  <2>. SUFFICES ASSUME NEW u \in Kept, NEW i \in DeadAt(u)
                PROVE  DeadOf(u, i) \in ForkSlots /\ word'[DeadOf(u, i)] = "claimed"
    BY <1>7 DEF DeadFit
  <2>1. DeadOf(u, i) \in ForkSlots /\ word[DeadOf(u, i)] = "claimed"
    BY DEF ForkInv, DeadFit
  <2>. QED
    BY <1>1, <1>3, <2>1 DEF Marked
<1>. QED
  BY <1>4, <1>5, <1>6, <1>8, <1>9, <1>10 DEF ForkInv

LEMMA ForkStepInv ==
    ASSUME ForkInv, Fork, ~stale'
    PROVE  ForkInv'
<1>1. /\ UNCHANGED <<word, bumped, listed, quarantined, alloc, release, forkAt,
                     reached, arg, forkHeld>>
      /\ todo' = Others /\ todo = NoSlot
  BY DEF Fork, Forked, forkHeapVars
<1>2. Kept' = Kept
  <2>1. Others # NoSlot
    BY ForkAssumption DEF ForkAssumption
  <2>. QED
    BY <1>1, <2>1 DEF Kept, Forked, ForkThreads
<1>3. ForkTypeOK'
  BY <1>1 DEF Fork, ForkInv, ForkTypeOK
<1>4. LoopsBounded' /\ ListsAgree'
  BY <1>1 DEF ForkInv, LoopsBounded, LoopBounded, ListsAgree
<1>5. CopiesWhole'
  <2>1. \A t \in Others : ~StaleCopy(t)
    BY DEF Fork
  <2>2. \A t \in Others : StaleCopy(t)' = StaleCopy(t)
    BY <1>1 DEF StaleCopy, In
  <2>. QED
    BY <1>1, <2>1, <2>2 DEF CopiesWhole, Fork
<1>6. /\ \A u : FreeAt(u)' = FreeAt(u) /\ DeadAt(u)' = DeadAt(u)
      /\ \A u, i : FreeOf(u, i)' = FreeOf(u, i) /\ DeadOf(u, i)' = DeadOf(u, i)
  BY <1>1 DEF FreeAt, DeadAt, FreeOf, DeadOf
<1>7. FreeFit' /\ FreeOnce' /\ DeadFit' /\ DeadOnce'
  BY <1>1, <1>2, <1>6, FreeSame, DeadSame
<1>. QED
  BY <1>3, <1>4, <1>5, <1>7 DEF ForkInv

(* The slots drainCache moves out of a copied cache are ones the thread     *)
(* had: none is moved twice, or is another thread's.                        *)
LEMMA DrainCopiedInv ==
    ASSUME ForkInv, NEW t \in ForkThreads, DrainCopied(t)
    PROVE  ForkInv'
<1>. DEFINE dead == {s \in Entries(release[t]) : word[s] = "claimed"}
            spare == {i \in In(alloc[t]) :
                        word[alloc[t].slots[i]] \in {"never", "free"}}
            times(s) == Cardinality({i \in spare : alloc[t].slots[i] = s})
<1>1. /\ Forked /\ t \in todo /\ todo' = todo \ {t}
      /\ quarantined' = Plus(quarantined, dead)
      /\ listed' = [s \in ForkSlots |-> listed[s] + times(s)]
      /\ word' = [s \in ForkSlots |-> IF s \in dead THEN "dead"
                                 
              ELSE IF times(s) > 0 THEN "free" ELSE word[s]]
      /\ UNCHANGED <<bumped, alloc, release, forkAt, reached, arg, forkHeld, stale>>
  BY DEF DrainCopied
<1>2. /\ t # Own /\ t \in Kept /\ todo \subseteq Others /\ LoopBounded(t)
      /\ ~StaleCopy(t)
  BY <1>1, ForkAssumption
     DEF ForkAssumption, Forked, Kept, ForkInv, ForkTypeOK, CopiesWhole, LoopsBounded
<1>3. Kept' = Kept \ {t}
  <2>1. todo' # NoSlot
    BY <1>1, <1>2, ForkAssumption DEF ForkAssumption
  <2>. QED
    BY <1>1, <1>2, <2>1 DEF Kept, Forked
<1>4. ASSUME NEW s \in dead
      PROVE  /\ s \in ForkSlots /\ word[s] = "claimed"
             /\ \E i \in DeadAt(t) : s = DeadOf(t, i)
  <2>1. PICK i \in In(release[t]) : s = release[t].slots[i]
    BY DEF Entries
  <2>2. i \in 1 .. release[t].count /\ word[s] = "claimed"
    BY DEF In
  <2>3. i \in DeadAt(t) /\ s = DeadOf(t, i)
    <3>1. ~(forkAt[t] = "flush" /\ i <= reached[t])
      BY <1>2, <2>1, <2>2 DEF StaleCopy
    <3>2. ~(CountFirst /\ forkAt[t] = "pushed" /\ i = release[t].count)
      BY <1>2, <2>1, <2>2 DEF StaleCopy
    <3>. QED
      BY <1>2, <2>1, <2>2, <3>1, <3>2, ForkParts DEF DeadAt, DeadOf, LoopBounded
  <2>. QED
    BY <1>2, <2>2, <2>3 DEF ForkInv, DeadFit
<1>5. ASSUME NEW i \in spare
      PROVE  i \in FreeAt(t) /\ FreeOf(t, i) = alloc[t].slots[i]
  <2>1. i \in 1 .. alloc[t].count
    BY DEF In
  <2>2. forkAt[t] # "swapped" /\ ~(forkAt[t] = "return" /\ i <= reached[t])
    BY <1>2 DEF StaleCopy
  <2>. QED
    BY <1>2, <2>1, <2>2, ForkParts DEF FreeAt, FreeOf, LoopBounded
<1>6. ASSUME NEW s
      PROVE  \/ times(s) = 0
             \/ times(s) = 1 /\ \E i \in FreeAt(t) : FreeOf(t, i) = s
  <2>1. CASE {i \in spare : alloc[t].slots[i] = s} = {}
    BY <2>1, FS_EmptySet
  <2>2. CASE {i \in spare : alloc[t].slots[i] = s} # {}
    <3>1. PICK i \in spare : alloc[t].slots[i] = s
      BY <2>2
    <3>2. \A j \in spare : alloc[t].slots[j] = s => j = i
      BY <1>2, <1>5, <3>1 DEF ForkInv, FreeOnce
    <3>3. {j \in spare : alloc[t].slots[j] = s} = {i}
      BY <3>1, <3>2
    <3>. QED
      BY <1>5, <3>1, <3>3, FS_Singleton
  <2>. QED
    BY <2>1, <2>2
<1>. HIDE DEF dead, spare, times
<1>7. ASSUME NEW s, times(s) # 0
      PROVE  /\ s \in ForkSlots /\ s \in bumped /\ listed[s] = 0
             /\ word[s] \in {"never", "free"} /\ times(s) = 1
             /\ s \notin dead
  BY <1>2, <1>4, <1>6, <1>7, HeapTyped DEF ForkInv, FreeFit
<1>8. \A s \in ForkSlots : times(s) \in {0, 1}
  BY <1>6
<1>9. ForkTypeOK'
  <2>1. /\ word' \in [ForkSlots -> Words] /\ listed' \in [ForkSlots -> Nat]
        /\ quarantined' \in [ForkSlots -> Nat]
    BY <1>1, <1>8, HeapTyped DEF Plus, Words
  <2>. QED
    BY <1>1, <1>2, <2>1 DEF ForkInv, ForkTypeOK
<1>10. LoopsBounded'
  BY <1>1 DEF ForkInv, LoopsBounded, LoopBounded
<1>11. CopiesWhole'
  <2>1. ASSUME NEW u \in todo PROVE ~StaleCopy(u)'
    <3>1. ~StaleCopy(u) /\ u \in ForkThreads
      BY <1>1, <1>2 DEF ForkInv, CopiesWhole, ForkThreads
    <3>2. \A x \in ForkSlots :
            /\ word'[x] = "claimed" => word[x] = "claimed"
            /\ word'[x] \in {"never", "free"} => word[x] \in {"never", "free"}
      BY <1>1, <1>7
    <3>3. /\ \A i \in In(release[u]) : release[u].slots[i] \in ForkSlots
          /\ \A i \in In(alloc[u]) : alloc[u].slots[i] \in ForkSlots
      BY <3>1, ForkParts DEF In
    <3>4. /\ alloc'[u] = alloc[u] /\ release'[u] = release[u]
          /\ forkAt'[u] = forkAt[u] /\ reached'[u] = reached[u]
      BY <1>1
    <3>. QED
      BY <3>1, <3>2, <3>3, <3>4 DEF StaleCopy, In
  <2>. QED
    BY <1>1, <2>1 DEF ForkInv, CopiesWhole, Forked
<1>12. ListsAgree'
  <2>. SUFFICES ASSUME NEW s \in ForkSlots
                PROVE  /\ listed'[s] <= 1 /\ quarantined'[s] <= 1
                       /\ listed'[s] > 0 => word'[s] = "free"
                       /\ quarantined'[s] > 0 => word'[s] = "dead"
                       /\ s \in forkHeld => word'[s] = "live"
                       /\ s \notin bumped => word'[s] = "never" /\ listed'[s] = 0
    BY <1>1 DEF ListsAgree
  <2>1. /\ listed[s] \in {0, 1} /\ quarantined[s] \in {0, 1}
        /\ listed[s] > 0 => word[s] = "free"
        /\ quarantined[s] > 0 => word[s] = "dead"
        /\ s \in forkHeld => word[s] = "live"
        /\ s \notin bumped => word[s] = "never" /\ listed[s] = 0
    BY HeapTyped DEF ForkInv, ListsAgree
  <2>2. CASE s \in dead
    BY <1>1, <1>4, <1>7, <2>1, <2>2, HeapTyped DEF Plus
  <2>3. CASE s \notin dead /\ times(s) # 0
    BY <1>1, <1>7, <2>1, <2>3, HeapTyped DEF Plus
  <2>4. CASE s \notin dead /\ times(s) = 0
    BY <1>1, <2>1, <2>4, HeapTyped DEF Plus
  <2>. QED
    BY <2>2, <2>3, <2>4
<1>13. /\ \A u : FreeAt(u)' = FreeAt(u) /\ DeadAt(u)' = DeadAt(u)
       /\ \A u, i : FreeOf(u, i)' = FreeOf(u, i) /\ DeadOf(u, i)' = DeadOf(u, i)
  BY <1>1 DEF FreeAt, DeadAt, FreeOf, DeadOf
<1>14. FreeOnce' /\ DeadOnce'
  BY <1>3, <1>13, FreeSame, DeadSame
<1>15. FreeFit'
  <2>. SUFFICES ASSUME NEW u \in Kept \ {t}, NEW i \in FreeAt(u)
                PROVE  /\ FreeOf(u, i) \in bumped'
                       /\ word'[FreeOf(u, i)] \in {"never", "free"}
                       /\ listed'[FreeOf(u, i)] = 0
    BY <1>3, <1>13 DEF FreeFit
  <2>1. /\ FreeOf(u, i) \in bumped /\ word[FreeOf(u, i)] \in {"never", "free"}
        /\ listed[FreeOf(u, i)] = 0
    BY DEF ForkInv, FreeFit
  <2>2. times(FreeOf(u, i)) = 0
    BY <1>2, <1>6 DEF ForkInv, FreeOnce
  <2>3. FreeOf(u, i) \notin dead
    BY <1>4, <2>1
  <2>. QED
    BY <1>1, <2>1, <2>2, <2>3, HeapTyped
<1>16. DeadFit'
  <2>. SUFFICES ASSUME NEW u \in Kept \ {t}, NEW i \in DeadAt(u)
                PROVE  DeadOf(u, i) \in ForkSlots /\ word'[DeadOf(u, i)] = "claimed"
    BY <1>3, <1>13 DEF DeadFit
  <2>1. DeadOf(u, i) \in ForkSlots /\ word[DeadOf(u, i)] = "claimed"
    BY DEF ForkInv, DeadFit
  <2>2. times(DeadOf(u, i)) = 0
    BY <1>7, <2>1
  <2>3. DeadOf(u, i) \notin dead
    BY <1>2, <1>4 DEF ForkInv, DeadOnce
  <2>. QED
    BY <1>1, <2>1, <2>2, <2>3
<1>. QED
  BY <1>9, <1>10, <1>11, <1>12, <1>14, <1>15, <1>16 DEF ForkInv

-----------------------------------------------------------------------------
(* The theorem *)

LEMMA ForkInitInv == ForkInit => ForkInv
<1>. SUFFICES ASSUME ForkInit PROVE ForkInv
  OBVIOUS
<1>1. ForkCacheLimit \in Nat \ {0} /\ Own \notin Others
  BY ForkAssumption DEF ForkAssumption
<1>2. ~Forked /\ Kept = ForkThreads
  BY DEF ForkInit, Forked, Kept
<1>3. ForkTypeOK
  <2>1. stale \in BOOLEAN
    BY Zenon DEF ForkInit
  <2>2. Empty \in CacheType
    BY <1>1 DEF CacheType, Empty
  <2>3. 0 \in 0 .. ForkCacheLimit
    BY <1>1
  <2>4. /\ word \in [ForkSlots -> Words] /\ bumped \subseteq ForkSlots
        /\ listed \in [ForkSlots -> Nat] /\ quarantined \in [ForkSlots -> Nat]
        /\ forkAt \in [ForkThreads -> ForkPlaces]
        /\ reached \in [ForkThreads -> 0 .. ForkCacheLimit]
        /\ arg \in [ForkThreads -> ForkSlots \cup {NoSlot}]
        /\ forkHeld \subseteq ForkSlots /\ todo = NoSlot
    BY <2>3 DEF ForkInit, Words, ForkPlaces
  <2>5. alloc \in [ForkThreads -> CacheType] /\ release \in [ForkThreads -> CacheType]
    BY <2>2 DEF ForkInit
  <2>. QED
    BY <2>1, <2>4, <2>5 DEF ForkTypeOK
<1>4. \A t \in ForkThreads :
        /\ forkAt[t] = "run" /\ reached[t] = 0 /\ alloc[t].count = 0
        /\ release[t].count = 0
  BY DEF ForkInit, Empty
<1>5. \A t \in ForkThreads : FreeAt(t) = {} /\ DeadAt(t) = {}
  BY <1>4 DEF FreeAt, DeadAt
<1>6. LoopsBounded
  BY <1>1, <1>4 DEF LoopsBounded, LoopBounded
<1>7. CopiesWhole /\ ListsAgree
  BY <1>2 DEF ForkInit, CopiesWhole, ListsAgree
<1>8. FreeFit /\ FreeOnce /\ DeadFit /\ DeadOnce
  BY <1>2, <1>5 DEF FreeFit, FreeOnce, DeadFit, DeadOnce
<1>. QED
  BY <1>3, <1>6, <1>7, <1>8 DEF ForkInv

LEMMA ForkNextInv ==
    ASSUME ForkInv, ~stale', [ForkNext]_forkVars
    PROVE  ForkInv'
<1>1. ASSUME NEW t \in ForkThreads,
             \/ Refill(t) \/ Filled(t) \/ SwapFirst(t) \/ SwapSecond(t)
             \/ TakeFromCache(t) \/ MakeLive(t)
             \/ ClaimOne(t) \/ PushFirst(t) \/ PushSecond(t)
             \/ Flush(t) \/ FlushedRun(t) \/ DrainCache(t) \/ ReturnCached(t)
             \/ Returned(t) \/ DrainCopied(t)
      PROVE  ForkInv'
  BY <1>1, RefillInv, FilledInv, SwapFirstInv, SwapSecondInv, TakeFromCacheInv,
     MakeLiveInv, ClaimOneInv, PushFirstInv, PushSecondInv, FlushInv, FlushedRunInv,
     DrainCacheInv, ReturnCachedInv, ReturnedInv, DrainCopiedInv
<1>2. CASE RecycleQueued
  BY <1>2, RecycleQueuedInv
<1>3. CASE Fork
  BY <1>3, ForkStepInv
<1>4. CASE UNCHANGED forkVars
  BY <1>4
       DEF forkVars, ForkInv, ForkTypeOK, LoopsBounded, LoopBounded, CopiesWhole,
     ListsAgree, FreeFit, FreeOnce, DeadFit, DeadOnce, StaleCopy, In, Kept, Forked,
     FreeAt, FreeOf, DeadAt, DeadOf
<1>. QED
  BY <1>1, <1>2, <1>3, <1>4 DEF ForkNext

(* The invariant says more than the property: in the child it says it of   *)
(* every step of the thread that is left.                                   *)
LEMMA ForkInvWhole == ForkInv => ChildListsWhole
<1>. SUFFICES ASSUME ForkInv, todo = {}, forkAt[Own] = "run", NEW s \in ForkSlots
              PROVE  /\ Uses(s) <= 1
                     /\ listed[s] > 0 => word[s] = "free"
                     /\ quarantined[s] > 0 => word[s] = "dead"
                     /\ s \in Entries(alloc[Own]) => word[s] \in {"never", "free"}
                     /\ s \in Entries(release[Own]) => word[s] = "claimed"
  BY DEF ChildListsWhole, ChildSlotsOnce, ChildWordsAgree
<1>. DEFINE entries(c) == Cardinality({i \in In(c) : c.slots[i] = s})
<1>1. Own \in Kept /\ Own \in ForkThreads
  BY KeptThreads
<1>2. FreeAt(Own) = 1 .. alloc[Own].count /\ DeadAt(Own) = 1 .. release[Own].count
  BY DEF FreeAt, DeadAt
<1>3. \A i \in In(alloc[Own]) :
        i \in FreeAt(Own) /\ FreeOf(Own, i) = alloc[Own].slots[i]
  BY <1>1, <1>2, ForkParts DEF In, FreeOf
<1>4. \A i \in In(release[Own]) :
        i \in DeadAt(Own) /\ DeadOf(Own, i) = release[Own].slots[i]
  BY <1>1, <1>2, ForkParts DEF In, DeadOf
<1>5. \/ entries(alloc[Own]) = 0 /\ s \notin Entries(alloc[Own])
      \/ /\ entries(alloc[Own]) = 1 /\ word[s] \in {"never", "free"}
         /\ listed[s] = 0
  <2>1. CASE \A i \in In(alloc[Own]) : alloc[Own].slots[i] # s
    <3>1. {i \in In(alloc[Own]) : alloc[Own].slots[i] = s} = {}
      BY <2>1
    <3>. QED
      BY <2>1, <3>1, FS_EmptySet DEF Entries
  <2>2. CASE \E i \in In(alloc[Own]) : alloc[Own].slots[i] = s
    <3>1. PICK i \in In(alloc[Own]) : alloc[Own].slots[i] = s
      BY <2>2
    <3>2. \A j \in In(alloc[Own]) : alloc[Own].slots[j] = s => j = i
      BY <1>1, <1>3, <3>1 DEF ForkInv, FreeOnce
    <3>3. {j \in In(alloc[Own]) : alloc[Own].slots[j] = s} = {i}
      BY <3>1, <3>2
    <3>4. word[s] \in {"never", "free"} /\ listed[s] = 0
      BY <1>1, <1>3, <3>1 DEF ForkInv, FreeFit
    <3>. QED
      BY <3>3, <3>4, FS_Singleton
  <2>. QED
    BY <2>1, <2>2
<1>6. \/ entries(release[Own]) = 0 /\ s \notin Entries(release[Own])
      \/ entries(release[Own]) = 1 /\ word[s] = "claimed"
  <2>1. CASE \A i \in In(release[Own]) : release[Own].slots[i] # s
    <3>1. {i \in In(release[Own]) : release[Own].slots[i] = s} = {}
      BY <2>1
    <3>. QED
      BY <2>1, <3>1, FS_EmptySet DEF Entries
  <2>2. CASE \E i \in In(release[Own]) : release[Own].slots[i] = s
    <3>1. PICK i \in In(release[Own]) : release[Own].slots[i] = s
      BY <2>2
    <3>2. \A j \in In(release[Own]) : release[Own].slots[j] = s => j = i
      BY <1>1, <1>4, <3>1 DEF ForkInv, DeadOnce
    <3>3. {j \in In(release[Own]) : release[Own].slots[j] = s} = {i}
      BY <3>1, <3>2
    <3>4. word[s] = "claimed"
      BY <1>1, <1>4, <3>1 DEF ForkInv, DeadFit
    <3>. QED
      BY <3>3, <3>4, FS_Singleton
  <2>. QED
    BY <2>1, <2>2
<1>7. Uses(s) = listed[s] + quarantined[s] + entries(alloc[Own])
                  + entries(release[Own]) + (IF s \in forkHeld THEN 1 ELSE 0)
  BY DEF Uses
<1>8. /\ listed[s] \in {0, 1} /\ quarantined[s] \in {0, 1}
      /\ listed[s] > 0 => word[s] = "free"
      /\ quarantined[s] > 0 => word[s] = "dead"
      /\ s \in forkHeld => word[s] = "live"
  BY HeapTyped DEF ForkInv, ListsAgree
<1>9. /\ s \in Entries(alloc[Own]) => word[s] \in {"never", "free"}
      /\ s \in Entries(release[Own]) => word[s] = "claimed"
  BY <1>3, <1>4, <1>1 DEF Entries, ForkInv, FreeFit, DeadFit
<1>. HIDE DEF entries
<1>. QED
  BY <1>5, <1>6, <1>7, <1>8, <1>9

(* Only fork looks at the copies. *)
LEMMA StaleStays ==
    ASSUME stale, [ForkNext]_forkVars
    PROVE  stale'
<1>1. ASSUME NEW t \in ForkThreads,
             \/ Refill(t) \/ Filled(t) \/ SwapFirst(t) \/ SwapSecond(t)
             \/ TakeFromCache(t) \/ MakeLive(t)
             \/ ClaimOne(t) \/ PushFirst(t) \/ PushSecond(t)
             \/ Flush(t) \/ FlushedRun(t) \/ DrainCache(t) \/ ReturnCached(t)
             \/ Returned(t) \/ DrainCopied(t)
      PROVE  stale'
  BY <1>1 DEF Refill, Filled, SwapFirst, SwapSecond, TakeFromCache, MakeLive, ClaimOne,
     PushFirst, PushSecond, Flush, FlushedRun, DrainCache, ReturnCached, Returned,
     DrainCopied
<1>2. CASE RecycleQueued
  BY <1>2 DEF RecycleQueued
<1>3. CASE Fork
  BY <1>3 DEF Fork
<1>4. CASE UNCHANGED forkVars
  BY <1>4 DEF forkVars
<1>. QED
  BY <1>1, <1>2, <1>3, <1>4 DEF ForkNext

(* In a child of fork, for any threads, slots, regions and cache limit, in  *)
(* either order of a push's stores and wherever fork found the other        *)
(* threads: once the copied caches are drained, a slot is in one list or    *)
(* cache of the child at most, once, and its word says which (forkChild,    *)
(* drainCache), unless a copy listed a slot that was no longer its own, or  *)
(* one twice, with a word that passes drainCache's check.                   *)
THEOREM ChildStartsWhole == ForkSpec => []ChildWholeUnlessStale
<1>1. (stale \/ ForkInv) /\ [ForkNext]_forkVars => (stale \/ ForkInv)'
  BY ForkNextInv, StaleStays
<1>2. stale \/ ForkInv => ChildWholeUnlessStale
  BY ForkInvWhole DEF ChildWholeUnlessStale
<1>. QED
  BY <1>1, <1>2, ForkInitInv, PTL DEF ForkSpec
=============================================================================
