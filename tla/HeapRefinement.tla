--------------------------- MODULE HeapRefinement ---------------------------
(***************************************************************************)
(* Heap implements SafeReuse: every step of the runtime is a step of the    *)
(* abstract heap or leaves what the program sees of it alone.               *)
(***************************************************************************)
EXTENDS HeapProofs

(* What the program sees of a holder's memory. *)
Held(h) == IF h \in Readable THEN ptr[h] ELSE {}

(* A step the program does not see. *)
SameView ==
    /\ \A s \in Slots : BlockState(s)' = BlockState(s)
    /\ \A h \in Holders : Held(h)' = Held(h)
    /\ trapped' = trapped

AbstractStep == Abstract!Step \/ UNCHANGED Abstract!svars

(* A step the program does not see is a stuttering step of the abstract     *)
(* heap.                                                                    *)
LEMMA Stutter ==
    ASSUME SameView
    PROVE  AbstractStep
  BY DEF SameView, AbstractStep, Abstract!svars, Held

(* The slots the program can read are the live blocks. *)
LEMMA ReadableLive ==
    ASSUME TypeOK, NEW s \in Slots
    PROVE  s \in Readable <=> BlockState(s) = "live"
<1>1. s \notin Threads \cup Data
  BY HeapAssumption DEF HeapAssumption
<1>. QED
  BY <1>1 DEF Readable, BlockState, Vacant, TypeOK, MetadataType, Words

(* So memory is seen as before when the blocks' states and the pointers in  *)
(* what can be read are.                                                    *)
LEMMA ViewKept ==
    ASSUME TypeOK, TypeOK', trapped' = trapped,
           \A s \in Slots : BlockState(s)' = BlockState(s),
           \A h \in Readable : ptr'[h] = ptr[h]
    PROVE  SameView
<1>1. ASSUME NEW h \in Holders PROVE Held(h)' = Held(h)
  <2>1. CASE h \in Slots
    <3>1. h \in Readable <=> BlockState(h) = "live"
      BY <2>1, ReadableLive
    <3>2. (h \in Readable)' <=> (BlockState(h) = "live")'
      <4>1. h \notin Threads \cup Data
        BY <2>1, HeapAssumption DEF HeapAssumption
      <4>. QED
        BY <2>1, <4>1 DEF Readable, BlockState, Vacant, TypeOK, MetadataType, Words
    <3>. QED
      BY <2>1, <3>1, <3>2 DEF Held
  <2>2. CASE h \in Threads \cup Data
    BY <2>2 DEF Held, Readable
  <2>. QED
    BY <2>1, <2>2 DEF Holders
<1>. QED
  BY <1>1 DEF SameView

(* A step that hands out no slot, and changes no word but from claimed to   *)
(* dead and between vacant ones, is not seen.                               *)
LEMMA QuietView ==
    ASSUME HeapInv, HeapInv', NEW t \in Threads,
           UNCHANGED <<ptr, trapped>>,
           pc[t] \notin {"have", "zero", "publish"},
           pc'[t] \notin {"have", "zero", "publish"},
           \A u \in Threads : u # t => pc'[u] = pc[u] /\ arg'[u] = arg[u],
           \A s \in Slots : /\ Vacant(s)' <=> Vacant(s)
                            /\ word'[s] = "live" <=> word[s] = "live"
    PROVE  AbstractStep
<1>1. \A u \in Threads : Making(u)' = Making(u)
  BY DEF Making
<1>2. \A s \in Slots : BlockState(s)' = BlockState(s)
  BY <1>1 DEF BlockState
<1>3. SameView
  BY <1>2, ViewKept DEF HeapInv
<1>. QED
  BY <1>3, Stutter

-----------------------------------------------------------------------------
(* The steps the program does not see *)

(* The steps that move a thread: calls that start, sweeps, budgets. *)
LEMMA MoveView ==
    ASSUME HeapInv, HeapInv', NEW t \in Threads,
           \/ Malloc(t) \/ DropCache(t) \/ PopSweep(t) \/ TakeSpare(t)
           \/ PopNothing(t) \/ Budget(t) \/ DropDone(t) \/ EnterSweep(t)
           \/ LockAll(t) \/ StopFails(t) \/ LeaveSweep(t)
           \/ (\E u \in Threads : Stop(t, u)) \/ ResumeThreads(t)
           \/ Mark(t) \/ (\E h \in Holders : Scan(t, h))
           \/ ShadowDead(t) \/ CachedRelease(t)
    PROVE  AbstractStep
<1>1. /\ UNCHANGED <<word, ptr, trapped>>
      /\ pc[t] \notin {"have", "zero", "publish"}
  BY DEF Malloc, DropCache, PopSweep, TakeSpare, PopNothing, PopFailed, Budget,
     DropDone, EnterSweep, LockAll, StopFails, LeaveSweep, Stop, ResumeThreads,
     Mark, Scan, ShadowDead, CachedRelease, At, allocVars, sweepVars
<1>2. /\ pc \in [Threads -> Places] /\ arg \in [Threads -> Slots \cup {None}]
      /\ ret[t] \in {"run", "refill", "pop"}
  BY DEF HeapInv, TypeOK, ThreadType
<1>3. /\ pc'[t] \notin {"have", "zero", "publish"}
      /\ \A u \in Threads : u # t => pc'[u] = pc[u]
  BY <1>1, <1>2
  DEF Malloc, DropCache, PopSweep, TakeSpare, PopNothing, Budget,
      DropDone, EnterSweep, LockAll, StopFails, LeaveSweep, Stop, ResumeThreads,
      Mark, Scan, ShadowDead, CachedRelease, Goto
<1>4. \A u \in Threads : u # t => arg'[u] = arg[u]
  BY <1>2
  DEF Malloc, DropCache, PopSweep, TakeSpare, PopNothing, Budget,
      DropDone, EnterSweep, LockAll, StopFails, LeaveSweep, Stop, ResumeThreads,
      Mark, Scan, ShadowDead, CachedRelease
<1>. QED
  BY <1>1, <1>3, <1>4, QuietView DEF Vacant

(* Slots that change places without being handed out: a claimed slot joins  *)
(* the quarantine, a cached one goes back to its free list.                 *)
LEMMA PassView ==
    ASSUME HeapInv, HeapInv', NEW t \in Threads,
           FlushReleases(t) \/ Retire(t) \/ ReturnSlot(t)
    PROVE  AbstractStep
<1>1. /\ UNCHANGED <<ptr, trapped>>
      /\ pc[t] \notin {"have", "zero", "publish"}
  BY DEF FlushReleases, Retire, ReturnSlot, At, sweepVars
<1>2. /\ pc'[t] \notin {"have", "zero", "publish"}
      /\ \A u \in Threads : u # t => pc'[u] = pc[u] /\ arg'[u] = arg[u]
  BY <1>1
  DEF FlushReleases, Retire, ReturnSlot, Goto, HeapInv, TypeOK, ThreadType
<1>3. ThreadWords(t)
  BY DEF HeapInv, WordsAgree
<1>4. word \in [Slots -> Words] /\ word' \in [Slots -> Words]
  BY DEF HeapInv, TypeOK, MetadataType
<1>5. ASSUME NEW s \in Slots, word'[s] # word[s]
      PROVE  \/ word[s] = "claimed" /\ word'[s] = "dead"
             \/ Vacant(s) /\ word'[s] = "free"
  <2>1. CASE FlushReleases(t)
    BY <1>3, <1>4, <1>5, <2>1 DEF FlushReleases, ThreadWords
  <2>2. CASE Retire(t)
    BY <1>3, <1>4, <1>5, <2>2 DEF Retire, ThreadWords, At
  <2>3. CASE ReturnSlot(t)
    BY <1>3, <1>4, <1>5, <2>3 DEF ReturnSlot, ThreadWords
  <2>. QED
    BY <2>1, <2>2, <2>3
<1>6. \A s \in Slots : /\ Vacant(s)' <=> Vacant(s)
                       /\ word'[s] = "live" <=> word[s] = "live"
  BY <1>5 DEF Vacant
<1>. QED
  BY <1>1, <1>2, <1>6, QuietView

(* An allocation before its block is published: the slot in hand is vacant  *)
(* for the program, and its bytes cannot be read.                           *)
LEMMA MakingView ==
    ASSUME HeapInv, HeapInv', NEW t \in Threads,
           PopClass(t) \/ MakeLive(t) \/ ZeroFill(t)
    PROVE  AbstractStep
<1>1. /\ trapped' = trapped
      /\ \A u \in Threads : u # t => Making(u)' = Making(u)
  <2>. pc \in [Threads -> Places] /\ arg \in [Threads -> Slots \cup {None}]
    BY DEF HeapInv, TypeOK, ThreadType
  <2>1. trapped' = trapped
    BY DEF PopClass, MakeLive, ZeroFill
  <2>2. \A u \in Threads : u # t => pc'[u] = pc[u] /\ arg'[u] = arg[u]
    <3>1. CASE PopClass(t)
      BY <3>1 DEF PopClass, Goto
    <3>2. CASE MakeLive(t)
      BY <3>2 DEF MakeLive, Goto
    <3>3. CASE ZeroFill(t)
      BY <3>3 DEF ZeroFill, Goto
    <3>. QED
      BY <3>1, <3>2, <3>3
  <2>. QED
    BY <2>1, <2>2 DEF Making
<1>2. ASSUME NEW s \in Slots
      PROVE  \/ /\ s \notin Making(t) /\ s \notin Making(t)'
                /\ word'[s] = word[s]
             \/ /\ Vacant(s) \/ s \in Making(t)
                /\ s \in Making(t)'
             \/ Vacant(s) /\ word'[s] = word[s]
  <2>1. CASE PopClass(t)
    <3>1. word' = word /\ pc[t] \in {"refill", "pop"}
      BY <2>1 DEF PopClass, At
    <3>2. Making(t) = {}
      BY <3>1 DEF Making
    <3>3. s \in Making(t)' => Vacant(s)
      <4>1. PICK S \in SUBSET (listed \cup fresh) :
              \/ pc'[t] = "take"
              \/ \E x \in S : arg'[t] = x
        BY <2>1 DEF PopClass, Goto, HeapInv, TypeOK, ThreadType
      <4>. QED
        BY <4>1 DEF Making, HeapInv, WordsAgree, Vacant
    <3>. QED
      BY <3>1, <3>2, <3>3
  <2>2. CASE MakeLive(t)
    <3>1. PICK x \in IF pc[t] = "take" THEN alloc[t] ELSE {arg[t]} :
            /\ arg' = [arg EXCEPT ![t] = x]
            /\ word' = [word EXCEPT ![x] = "live"]
            /\ Goto(t, IF word[x] = "never" THEN "publish" ELSE "zero")
      BY <2>2 DEF MakeLive
    <3>2. pc[t] \in {"take", "have"} /\ ThreadWords(t)
      BY <2>2 DEF MakeLive, At, HeapInv, WordsAgree
    <3>3. Vacant(x) /\ Making(t) \subseteq {x} /\ Making(t)' = {x}
      BY <3>1, <3>2
      DEF ThreadWords, Making, Goto, HeapInv, TypeOK, ThreadType
    <3>4. s # x => word'[s] = word[s]
      BY <3>1 DEF HeapInv, TypeOK, MetadataType
    <3>. QED
      BY <3>3, <3>4
  <2>3. CASE ZeroFill(t)
    <3>1. word' = word /\ Making(t)' = Making(t)
      BY <2>3
      DEF ZeroFill, At, Making, Goto, allocVars, HeapInv, TypeOK, ThreadType
    <3>. QED
      BY <3>1
  <2>. QED
    BY <2>1, <2>2, <2>3
<1>3. ASSUME NEW s \in Slots PROVE BlockState(s)' = BlockState(s)
  <2>1. CASE s \notin Making(t) /\ s \notin Making(t)' /\ word'[s] = word[s]
    BY <1>1, <2>1 DEF BlockState, Vacant
  <2>2. CASE (Vacant(s) \/ s \in Making(t)) /\ s \in Making(t)'
    BY <2>2 DEF BlockState
  <2>3. CASE Vacant(s) /\ word'[s] = word[s]
    BY <2>3 DEF BlockState, Vacant
  <2>. QED
    BY <1>2, <2>1, <2>2, <2>3
<1>4. \A h \in Readable : ptr'[h] = ptr[h]
  <2>1. CASE PopClass(t) \/ MakeLive(t)
    BY <2>1 DEF PopClass, MakeLive
  <2>2. CASE ZeroFill(t)
    <3>1. pc[t] = "zero" /\ ptr' = [ptr EXCEPT ![arg[t]] = {}]
          /\ arg[t] \in Slots
      BY <2>2 DEF ZeroFill, At, HeapInv, TypeOK, ThreadType, Holding
    <3>2. arg[t] \notin Readable
      BY <3>1, HeapAssumption DEF Readable, Making, HeapAssumption
    <3>. QED
      BY <3>1, <3>2 DEF HeapInv, TypeOK, ProgramType, Readable, Holders
  <2>. QED
    BY <2>1, <2>2
<1>5. SameView
  BY <1>1, <1>3, <1>4, ViewKept DEF HeapInv
<1>. QED
  BY <1>5, Stutter

-----------------------------------------------------------------------------
(* The steps the program sees *)

(* Publish is an allocation: the block is vacant until here and holds no    *)
(* pointer.                                                                 *)
LEMMA PublishView ==
    ASSUME HeapInv, HeapInv', NEW t \in Threads, Publish(t)
    PROVE  AbstractStep
<1>. PICK b \in Slots : b = arg[t]
  BY DEF Publish, At, HeapInv, TypeOK, ThreadType, Holding
<1>1. /\ pc[t] = "publish" /\ b \in Slots /\ trapped = FALSE /\ trapped' = FALSE
      /\ word' = word
      /\ word[b] = "live" /\ ptr[b] = {} /\ Making(t) = {b} /\ InHand(t) = {b}
  BY DEF Publish, At, HeapInv, TypeOK, ThreadType, ProgramType, Holding,
     WordsAgree, ThreadWords, Blank, Making, InHand
<1>2. \A u \in Threads : u # t => Making(u)' = Making(u) /\ b \notin Making(u)
  BY <1>1
  DEF Publish, Goto, HeapInv, TypeOK, ThreadType, OneOwner, Owned, InHand, Making
<1>3. Making(t)' = {}
  BY DEF Publish, Goto, Making, HeapInv, TypeOK, ThreadType
<1>4. \A s \in Slots : BlockState(s)' = IF s = b THEN "live" ELSE BlockState(s)
  BY <1>1, <1>2, <1>3 DEF BlockState, Vacant
<1>5. BlockState(b) = "vacant"
  BY <1>1 DEF BlockState
<1>6. \A h \in Holders : ptr'[h] = IF h = t THEN ptr[h] \cup {b} ELSE ptr[h]
  BY DEF Publish, HeapInv, TypeOK, ProgramType
<1>7. b \notin Readable /\ t \in Readable /\ b # t
  BY <1>1, HeapAssumption DEF Readable, HeapAssumption
<1>8. \A h \in Holders : (h \in Readable)' <=> h \in Readable \/ h = b
  BY <1>1, <1>2, <1>3 DEF Readable
<1>9. \A h \in Holders : Held(h)' = IF h = t THEN Held(h) \cup {b} ELSE Held(h)
  BY <1>1, <1>6, <1>7, <1>8 DEF Held
<1>10. Abstract!Allocate(t, b)
  BY <1>1, <1>4, <1>5, <1>9 DEF Abstract!Allocate, Held, Holders
<1>. QED
  BY <1>1, <1>10 DEF AbstractStep, Abstract!Step

(* A slot a thread points to and whose word says live is a live block. *)
LEMMA PointedLive ==
    ASSUME HeapInv, NEW t \in Threads, NEW s \in ptr[t]
    PROVE  s \in Slots /\ (BlockState(s) = "live" <=> word[s] = "live")
<1>1. s \in Slots /\ t \in Readable
  BY DEF HeapInv, TypeOK, ProgramType, Holders, Readable
<1>2. \A u \in Threads : s \notin Making(u)
  BY <1>1 DEF HeapInv, NoDangling
<1>. QED
  BY <1>1, <1>2 DEF BlockState, Vacant

(* A release that fails is a bad release of the abstract heap. *)
LEMMA TrapView ==
    ASSUME HeapInv, HeapInv', NEW t \in Threads, NEW s \in ptr[t],
           word[s] # "live", ~trapped, trapped' = TRUE,
           UNCHANGED <<word, ptr, pc, arg>>
    PROVE  AbstractStep
<1>1. s \in Slots /\ BlockState(s) # "live"
  BY PointedLive
<1>2. \A u \in Threads : Making(u)' = Making(u)
  BY DEF Making
<1>3. \A x \in Slots : BlockState(x)' = BlockState(x)
  BY <1>2 DEF BlockState, Vacant
<1>4. \A h \in Holders : Held(h)' = Held(h)
  BY <1>2 DEF Held, Readable
<1>5. s \in Held(t)
  BY DEF Held, Readable
<1>6. Abstract!BadRelease(t, s)
  BY <1>1, <1>3, <1>4, <1>5 DEF Abstract!BadRelease, Held, Holders
<1>. QED
  BY <1>1, <1>6 DEF AbstractStep, Abstract!Step

(* Free reads a word: it traps, or the program sees nothing yet. *)
LEMMA FreeView ==
    ASSUME HeapInv, HeapInv', NEW t \in Threads, NEW s \in Slots, Free(t, s)
    PROVE  AbstractStep
<1>1. /\ UNCHANGED <<word, ptr>> /\ ~trapped /\ pc[t] = "run" /\ s \in ptr[t]
  BY DEF Free, At, allocVars
<1>2. CASE word[s] = "live"
  <2>1. /\ trapped' = trapped /\ pc'[t] = "claim"
        /\ \A u \in Threads : u # t => pc'[u] = pc[u] /\ arg'[u] = arg[u]
    BY <1>2 DEF Free, Goto, HeapInv, TypeOK, ThreadType
  <2>. QED
    BY <1>1, <2>1, QuietView DEF Vacant
<1>3. CASE word[s] # "live"
  <2>1. trapped' = TRUE /\ UNCHANGED <<pc, arg>>
    BY <1>3 DEF Free
  <2>. QED
    BY <1>1, <1>3, <2>1, TrapView
<1>. QED
  BY <1>2, <1>3

(* Claim is the release: of two that read the same live word, the second    *)
(* traps.                                                                   *)
LEMMA ClaimView ==
    ASSUME HeapInv, HeapInv', NEW t \in Threads, Claim(t)
    PROVE  AbstractStep
<1>. PICK b \in Slots : b = arg[t]
  BY DEF Claim, At, HeapInv, TypeOK, ThreadType, Holding
<1>1. /\ pc[t] = "claim" /\ trapped = FALSE /\ ptr' = ptr /\ arg' = arg
      /\ b \in ptr[t]
  BY DEF Claim, At, sweepVars, HeapInv, WordsAgree, ThreadWords, TypeOK,
     ProgramType
<1>2. b \in Slots /\ (BlockState(b) = "live" <=> word[b] = "live")
  BY <1>1, PointedLive
<1>3. CASE word[b] # "live"
  <2>1. trapped' = TRUE /\ UNCHANGED <<word, pc>>
    BY <1>3 DEF Claim
  <2>. QED
    BY <1>1, <1>2, <1>3, <2>1, TrapView
<1>4. CASE word[b] = "live"
  <2>1. /\ trapped' = FALSE /\ pc'[t] = "shade"
        /\ \A u \in Threads : u # t => pc'[u] = pc[u]
        /\ \A s \in Slots : word'[s] = IF s = b THEN "claimed" ELSE word[s]
    BY <1>1, <1>4
    DEF Claim, Goto, HeapInv, TypeOK, ThreadType, MetadataType
  <2>2. \A u \in Threads : Making(u)' = Making(u) /\ b \notin Making(u)
    <3>1. b \notin Making(t) /\ \A u \in Threads : Making(u)' = Making(u)
      BY <1>1, <2>1 DEF Making
    <3>2. \A u \in Threads : b \notin Making(u)
      BY <1>2, <1>4 DEF BlockState
    <3>. QED
      BY <3>1, <3>2
  <2>3. \A s \in Slots : BlockState(s)' = IF s = b THEN "released"
                                         ELSE BlockState(s)
    BY <1>2, <2>1, <2>2 DEF BlockState, Vacant
  <2>4. b \notin Threads \cup Data
    BY <1>2, HeapAssumption DEF HeapAssumption
  <2>5. \A h \in Holders : (h \in Readable)' <=> h \in Readable /\ h # b
    BY <1>2, <2>1, <2>2, <2>4 DEF Readable
  <2>6. \A h \in Holders : Held(h)' = IF h = b THEN {} ELSE Held(h)
    BY <1>1, <2>5 DEF Held
  <2>7. b \in Held(t)
    BY <1>1 DEF Held, Readable
  <2>8. Abstract!Release(t, b)
    BY <1>1, <1>2, <1>4, <2>1, <2>3, <2>6, <2>7
    DEF Abstract!Release, Held, Holders
  <2>. QED
    BY <1>2, <2>8 DEF AbstractStep, Abstract!Step
<1>. QED
  BY <1>3, <1>4

(* Recycle reuses released blocks that nothing points to. *)
LEMMA RecycleView ==
    ASSUME HeapInv, HeapInv', NEW t \in Threads, Recycle(t)
    PROVE  AbstractStep
<1>1. PICK F \in {Quarantined \ marks, {}} :
        word' = [s \in Slots |-> IF s \in F THEN "free" ELSE word[s]]
  BY DEF Recycle
<1>2. /\ pc[t] = "recycle" /\ pc'[t] = "resume"
      /\ trapped = FALSE /\ trapped' = FALSE /\ UNCHANGED <<ptr, arg>>
      /\ \A u \in Threads : u # t => pc'[u] = pc[u]
  BY DEF Recycle, At, Goto, HeapInv, TypeOK, ThreadType, ProgramType
<1>3. /\ F \in SUBSET Slots
      /\ \A s \in F : word[s] = "dead"
      /\ \A s \in F, h \in Readable : s \notin ptr[h]
  BY <1>2 DEF Quarantined, HeapInv, MarksCover
<1>4. \A u \in Threads : Making(u)' = Making(u)
  BY <1>2 DEF Making
<1>5. \A u \in Threads, s \in F : s \notin Making(u)
  BY <1>3 DEF Making, HeapInv, WordsAgree, ThreadWords, Vacant
<1>6. \A s \in Slots : BlockState(s)' = IF s \in F THEN "vacant"
                                       ELSE BlockState(s)
  BY <1>1, <1>4 DEF BlockState, Vacant
<1>7. \A s \in F : BlockState(s) = "released"
  BY <1>3, <1>5 DEF BlockState, Vacant
<1>8. Readable' = Readable
  BY <1>1, <1>3, <1>4 DEF Readable
<1>9. \A h \in Holders : Held(h)' = Held(h)
  BY <1>2, <1>8 DEF Held
<1>10. \A h \in Holders, s \in F : s \notin Held(h)
  BY <1>3 DEF Held
<1>11. Abstract!Reuse(F)
  BY <1>2, <1>3, <1>6, <1>7, <1>9, <1>10
  DEF Abstract!Reuse, Abstract!Pointed, Abstract!Memory, Held, Holders
<1>. QED
  BY <1>3, <1>11 DEF AbstractStep, Abstract!Step

(* The program's own steps use memory that is live for the abstract heap.   *)
LEMMA ReachUsable ==
    ASSUME HeapInv, NEW t \in Threads, NEW h \in Reach(t)
    PROVE  h \in Holders /\ h \in Readable /\ h \in Abstract!Usable(t)
<1>1. h \in Readable
  BY ReachReadable
<1>2. h \in Holders
  BY <1>1 DEF Readable, Holders
<1>3. CASE h \in {t} \cup Data
  BY <1>1, <1>2, <1>3 DEF Abstract!Usable
<1>4. CASE h \in ptr[t]
  <2>1. h \in Slots /\ BlockState(h) = "live"
    BY <1>1, <1>4, ReadableLive DEF HeapInv, TypeOK, ProgramType, Holders
  <2>2. h \in Held(t)
    BY <1>4 DEF Held, Readable
  <2>. QED
    BY <1>1, <1>2, <2>1, <2>2 DEF Abstract!Usable, Held, Holders
<1>. QED
  BY <1>3, <1>4 DEF Reach

(* Copy and Erase are the abstract program's. *)
LEMMA ProgramView ==
    ASSUME HeapInv, HeapInv', NEW t \in Threads, Program(t)
    PROVE  AbstractStep
<1>1. /\ UNCHANGED <<word, pc, arg>> /\ trapped = FALSE /\ trapped' = FALSE
  BY DEF Program, Copy, Erase, At, allocVars, HeapInv, TypeOK, ProgramType
<1>2. \A u \in Threads : Making(u)' = Making(u)
  BY <1>1 DEF Making
<1>3. /\ \A s \in Slots : BlockState(s)' = BlockState(s)
      /\ Readable' = Readable
  BY <1>1, <1>2 DEF BlockState, Vacant, Readable
<1>4. ASSUME NEW from \in Holders, NEW to \in Holders, NEW s \in Slots,
             Copy(t, from, to, s)
      PROVE  AbstractStep
  <2>1. /\ from \in Readable /\ to \in Readable
        /\ from \in Abstract!Usable(t) /\ to \in Abstract!Usable(t)
    BY <1>4, ReachUsable DEF Copy
  <2>2. s \in Held(from)
    BY <1>4, <2>1 DEF Copy, Held
  <2>3. \A h \in Holders : Held(h)' = IF h = to THEN Held(h) \cup {s} ELSE Held(h)
    BY <1>3, <1>4, <2>1 DEF Copy, Held, HeapInv, TypeOK, ProgramType
  <2>4. Abstract!CopyPointer(t, from, to, s)
    BY <1>1, <1>3, <2>1, <2>2, <2>3 DEF Abstract!CopyPointer, Held, Holders
  <2>. QED
    BY <2>4 DEF AbstractStep, Abstract!Step, Abstract!Memory, Holders
<1>5. ASSUME NEW from \in Holders, NEW s \in Slots, Erase(t, from, s)
      PROVE  AbstractStep
  <2>1. from \in Readable /\ from \in Abstract!Usable(t)
    BY <1>5, ReachUsable DEF Erase
  <2>2. \A h \in Holders : Held(h)' = IF h = from THEN Held(h) \ {s} ELSE Held(h)
    BY <1>3, <1>5, <2>1 DEF Erase, Held, HeapInv, TypeOK, ProgramType
  <2>3. Abstract!ErasePointer(t, from, s)
    BY <1>1, <1>3, <2>1, <2>2 DEF Abstract!ErasePointer, Held, Holders
  <2>. QED
    BY <2>3 DEF AbstractStep, Abstract!Step, Abstract!Memory, Holders
<1>. QED
  BY <1>4, <1>5 DEF Program

-----------------------------------------------------------------------------
(* Every step of Heap is a step of the abstract heap, or a stutter.         *)
LEMMA StepImplements ==
    ASSUME HeapInv, HeapInv', [Next]_vars
    PROVE  AbstractStep
<1>1. CASE UNCHANGED vars
  <2>1. \A u \in Threads : Making(u)' = Making(u)
    BY <1>1 DEF vars, Making
  <2>2. \A s \in Slots : BlockState(s)' = BlockState(s)
    BY <1>1, <2>1 DEF vars, BlockState, Vacant
  <2>3. SameView
    BY <1>1, <2>2, ViewKept DEF vars, HeapInv
  <2>. QED
    BY <2>3, Stutter
<1>2. ASSUME NEW t \in Threads, Program(t) \/ Call(t) PROVE AbstractStep
  BY <1>2, ProgramView, MoveView, FreeView DEF Call
<1>3. ASSUME NEW t \in Threads, Allocator(t) PROVE AbstractStep
  BY <1>3, MoveView, PassView, MakingView, PublishView, ClaimView DEF Allocator
<1>4. ASSUME NEW t \in Threads, Sweep(t) PROVE AbstractStep
  BY <1>4, MoveView, RecycleView DEF Sweep
<1>. QED
  BY <1>1, <1>2, <1>3, <1>4 DEF Next, Ended

(* The runtime starts as the abstract heap does: every block vacant, no     *)
(* pointer.                                                                 *)
LEMMA InitImplements ==
    ASSUME Init
    PROVE  Abstract!Start
<1>1. \A s \in Slots : BlockState(s) = "vacant"
  BY DEF Init, BlockState, Vacant
<1>2. \A h \in Holders : Held(h) = {}
  BY DEF Init, Held
<1>. QED
  BY <1>1, <1>2 DEF Init, Abstract!Start, Abstract!Memory, Held, Holders

(* Guarantees (R) and (T): the allocator, its caches and its sweep          *)
(* implement the heap of SafeReuse, for any threads, slots, regions and     *)
(* mappings.                                                                *)
THEOREM Refinement == Spec => ImplementsSafeReuse
<1>1. Init => Abstract!Start
  BY InitImplements
<1>2. HeapInv /\ HeapInv' /\ [Next]_vars => [Abstract!Step]_(Abstract!svars)
  BY StepImplements DEF AbstractStep
<1>. QED
  BY <1>1, <1>2, Invariant, PTL DEF Spec, ImplementsSafeReuse, Abstract!Safe

=============================================================================
