----------------------------- MODULE HeapProofs -----------------------------
(***************************************************************************)
(* Proofs about Heap for any set of threads, slots, regions and mappings.   *)
(***************************************************************************)
EXTENDS Heap, TLAPS

-----------------------------------------------------------------------------
(* The inductive invariant *)

(* The word of a slot says which place it is in; a thread about to claim a  *)
(* slot still points to it.                                                 *)
ThreadWords(t) ==
    /\ \A s \in alloc[t] : Vacant(s)
    /\ \A s \in release[t] : word[s] = "claimed"
    /\ pc[t] = "have" => Vacant(arg[t])
    /\ pc[t] \in {"zero", "publish"} => word[arg[t]] = "live"
    /\ pc[t] = "claim" => arg[t] \in ptr[t]
    /\ pc[t] \in {"shade", "push", "queue"} => word[arg[t]] = "claimed"

WordsAgree ==
    /\ \A s \in listed : word[s] = "free"
    /\ \A s \in fresh : word[s] = "never"
    /\ \A t \in Threads : ThreadWords(t)

(* A thread that refills its cache of free slots, or sweeps, has none left  *)
(* in it (the refill overwrites the cache).                                 *)
Emptied ==
    {"refill", "lock", "stop", "mark", "recycle", "resume", "unlock"}

CacheEmpty == \A t \in Threads : pc[t] \in Emptied => alloc[t] = {}

(* A slot never used, and one about to be handed out, holds no pointer. *)
Blank ==
    /\ \A s \in Slots : word[s] = "never" => ptr[s] = {}
    /\ \A t \in Threads : pc[t] = "publish" => ptr[arg[t]] = {}

(* While the sweep marks and recycles no other thread runs, and its marks   *)
(* hold every quarantined slot that memory it has read, of what the program *)
(* can read, points to: before it recycles, all of that memory.             *)
MarksCover ==
    \A t \in Threads : pc[t] \in {"mark", "recycle"} =>
        /\ stopped = Threads \ {t}
        /\ pc[t] = "recycle" => unscanned = {}
        /\ \A s \in Quarantined, h \in Readable :
              s \in ptr[h] => s \in marks \/ h \in unscanned

HeapInv ==
    /\ TypeOK
    /\ WordsAgree
    /\ CacheEmpty
    /\ OneOwner
    /\ NoSlotLost
    /\ Blank
    /\ ShadowAgrees
    /\ NoDangling
    /\ MarksCover

-----------------------------------------------------------------------------
(* Types *)

(* Init satisfies the type invariant. *)
LEMMA InitTypeOK == Init => TypeOK
<1>. SUFFICES ASSUME Init PROVE TypeOK
  OBVIOUS
<1>1. MetadataType
  BY HeapAssumption DEF HeapAssumption, Init, MetadataType, Words, Shadows
<1>2. ThreadType
  BY DEF Init, ThreadType, Places, Holding
<1>3. SweepType
  BY DEF Init, SweepType
<1>4. ProgramType
  BY DEF Init, ProgramType
<1>. QED
  BY <1>1, <1>2, <1>3, <1>4 DEF TypeOK

(* The program and its calls keep the types of the variables. *)
LEMMA CallTypeOK ==
    ASSUME TypeOK, NEW t \in Threads, Program(t) \/ Call(t)
    PROVE  TypeOK'
<1>. USE DEF TypeOK, MetadataType, ThreadType, SweepType, ProgramType, At,
             Goto, allocVars, sweepVars, Holding
<1>1. CASE Program(t)
  BY <1>1 DEF Program, Copy, Erase
<1>2. CASE Malloc(t)
  <2>1. MetadataType' /\ SweepType' /\ ProgramType'
    BY <1>2 DEF Malloc
  <2>2. ThreadType'
    BY <1>2 DEF Malloc, CacheFor, Places
  <2>. QED
    BY <2>1, <2>2
<1>3. ASSUME NEW s \in Slots, Free(t, s) PROVE TypeOK'
  <2>1. MetadataType' /\ SweepType' /\ ProgramType'
    BY <1>3 DEF Free
  <2>2. ThreadType'
    BY <1>3 DEF Free, Places
  <2>. QED
    BY <2>1, <2>2
<1>4. CASE DropCache(t)
  BY <1>4 DEF DropCache, Places
<1>. QED
  BY <1>1, <1>2, <1>3, <1>4 DEF Call

(* So do the steps of the allocator. *)
LEMMA AllocatorTypeOK ==
    ASSUME TypeOK, NEW t \in Threads, Allocator(t)
    PROVE  TypeOK'
<1>. USE DEF TypeOK, MetadataType, ThreadType, SweepType, ProgramType, At,
             Goto, allocVars, sweepVars, Holding
<1>1. CASE PopClass(t)
  <2>1. MetadataType' /\ SweepType' /\ ProgramType'
    BY <1>1 DEF PopClass, Words
  <2>2. ThreadType'
    BY <1>1 DEF PopClass, Poppable, In, Places
  <2>. QED
    BY <2>1, <2>2
<1>2. CASE PopSweep(t)
  BY <1>2 DEF PopSweep, PopFailed, Places
<1>3. CASE TakeSpare(t)
  BY <1>3 DEF TakeSpare, PopFailed
<1>4. CASE PopNothing(t)
  BY <1>4 DEF PopNothing, PopFailed, Places
<1>5. CASE MakeLive(t)
  <2>. PICK s \in IF pc[t] = "take" THEN alloc[t] ELSE {arg[t]} :
        /\ alloc' = [alloc EXCEPT ![t] = @ \ {s}]
        /\ arg' = [arg EXCEPT ![t] = s]
        /\ word' = [word EXCEPT ![s] = "live"]
        /\ Goto(t, IF word[s] = "never" THEN "publish" ELSE "zero")
    BY <1>5 DEF MakeLive
  <2>1. s \in Slots
    BY <1>5 DEF MakeLive
  <2>2. MetadataType' /\ SweepType' /\ ProgramType'
    BY <1>5 DEF MakeLive, Words
  <2>3. ThreadType'
    BY <1>5, <2>1 DEF MakeLive, Places
  <2>. QED
    BY <2>2, <2>3
<1>6. CASE ZeroFill(t)
  BY <1>6 DEF ZeroFill, Places
<1>7. CASE Publish(t)
  <2>1. MetadataType' /\ SweepType'
    BY <1>7 DEF Publish, Shadows
  <2>2. ThreadType'
    BY <1>7 DEF Publish, Places
  <2>3. ProgramType'
    BY <1>7 DEF Publish, Holders
  <2>. QED
    BY <2>1, <2>2, <2>3
<1>8. CASE Claim(t)
  <2>1. MetadataType' /\ SweepType'
    BY <1>8 DEF Claim, Words
  <2>2. ThreadType'
    BY <1>8 DEF Claim, CacheFor, Places, Words
  <2>3. ProgramType'
    BY <1>8 DEF Claim
  <2>. QED
    BY <2>1, <2>2, <2>3
<1>9. CASE ShadowDead(t)
  BY <1>9 DEF ShadowDead, Shadows, Places
<1>10. CASE CachedRelease(t)
  <2>1. MetadataType' /\ SweepType' /\ ProgramType'
    BY <1>10 DEF CachedRelease, Words
  <2>2. ThreadType'
    BY <1>10 DEF CachedRelease, Places
  <2>. QED
    BY <2>1, <2>2
<1>11. CASE FlushReleases(t)
  BY <1>11 DEF FlushReleases, Words, Places
<1>12. CASE Retire(t)
  BY <1>12 DEF Retire, Words, Places
<1>13. CASE Budget(t)
  BY <1>13 DEF Budget, Places
<1>14. CASE ReturnSlot(t)
  BY <1>14 DEF ReturnSlot, Words
<1>15. CASE DropDone(t)
  BY <1>15 DEF DropDone, Places
<1>16. CASE EnterSweep(t)
  BY <1>16 DEF EnterSweep, Places
<1>. QED
  BY <1>1, <1>2, <1>3, <1>4, <1>5, <1>6, <1>7, <1>8, <1>9, <1>10, <1>11,
     <1>12, <1>13, <1>14, <1>15, <1>16
  DEF Allocator

(* So do the steps of a sweep. *)
LEMMA SweepTypeOK ==
    ASSUME TypeOK, NEW t \in Threads, Sweep(t)
    PROVE  TypeOK'
<1>. USE DEF TypeOK, MetadataType, ThreadType, SweepType, ProgramType, At,
             Goto, allocVars, sweepVars, Places, Holding
<1>1. CASE LockAll(t) \/ (\E u \in Threads : Stop(t, u)) \/ StopFails(t)
  BY <1>1 DEF LockAll, Stop, StopFails
<1>2. CASE Mark(t) \/ \E h \in Holders : Scan(t, h)
  BY <1>2 DEF Mark, Scan, Scanned, Holders
<1>3. CASE Recycle(t)
  BY <1>3 DEF Recycle, Quarantined, Words
<1>4. CASE ResumeThreads(t) \/ LeaveSweep(t)
  BY <1>4 DEF ResumeThreads, LeaveSweep
<1>. QED
  BY <1>1, <1>2, <1>3, <1>4 DEF Sweep

(* Every step of the runtime and of its program keeps the types. *)
LEMMA TypeStep == TypeOK /\ [Next]_vars => TypeOK'
<1>. SUFFICES ASSUME TypeOK, [Next]_vars PROVE TypeOK'
  OBVIOUS
<1>1. CASE UNCHANGED vars
  BY <1>1 DEF vars, TypeOK, MetadataType, ThreadType, SweepType, ProgramType
<1>2. CASE Next
  BY <1>1, <1>2, CallTypeOK, AllocatorTypeOK, SweepTypeOK DEF Next, Ended
<1>. QED
  BY <1>1, <1>2

(* The variables of Heap keep their types, in every behaviour of the        *)
(* runtime's allocator and sweep.                                           *)
THEOREM TypeCorrect == Spec => []TypeOK
  BY InitTypeOK, TypeStep, PTL DEF Spec

-----------------------------------------------------------------------------
(* Every step keeps the inductive invariant *)

(* A step that only moves thread t between places at which it holds no slot *)
(* leaves what the invariant speaks of alone.                               *)
LEMMA Quiet ==
    ASSUME HeapInv, TypeOK', NEW t \in Threads, NEW place \in Places,
           pc[t] \notin Holding, t \notin stopped,
           place \notin Holding \cup {"mark", "recycle"}, Goto(t, place),
           place \in Emptied => alloc[t] = {},
           UNCHANGED <<word, shadow, listed, fresh, alloc, release, arg, ptr>>
    PROVE  HeapInv'
<1>. USE DEF HeapInv, TypeOK, ThreadType, Goto, Holding
<1>1. \A u \in Threads : pc'[u] = IF u = t THEN place ELSE pc[u]
  OBVIOUS
<1>2. \A u \in Threads : Making(u)' = Making(u) /\ InHand(u)' = InHand(u)
  BY <1>1 DEF Making, InHand
<1>3. \A u \in Threads : Owned(u)' = Owned(u)
  BY <1>2 DEF Owned
<1>4. \A s \in Slots : Vacant(s)' = Vacant(s)
  BY DEF Vacant
<1>5. Readable' = Readable
  BY <1>2 DEF Readable
<1>6. WordsAgree'
  BY <1>1 DEF WordsAgree, ThreadWords, Vacant
<1>7. OneOwner'
  BY <1>2, <1>3 DEF OneOwner
<1>8. NoSlotLost'
  BY <1>3, <1>4 DEF NoSlotLost
<1>9. Blank'
  BY <1>1 DEF Blank
<1>10. ShadowAgrees'
  BY <1>1, <1>2 DEF ShadowAgrees
<1>11. NoDangling'
  BY <1>2, <1>4, <1>5 DEF NoDangling
<1>12. MarksCover'
  BY <1>1 DEF MarksCover
<1>13. CacheEmpty'
  BY <1>1 DEF CacheEmpty
<1>. QED
  BY <1>6, <1>7, <1>8, <1>9, <1>10, <1>11, <1>12, <1>13

(* What the program can reach is memory it can read: the guard passes only  *)
(* for a block that is live and handed out.                                 *)
LEMMA ReachReadable ==
    ASSUME HeapInv, NEW t \in Threads, NEW h \in Reach(t)
    PROVE  h \in Readable
<1>1. CASE h \in {t} \cup Data
  BY <1>1 DEF Readable
<1>2. CASE h \in ptr[t] /\ shadow[h] = "object" /\ RaceFree(h)
  <2>1. h \in Slots
    BY <1>2 DEF HeapInv, TypeOK, ProgramType, Holders
  <2>2. word[h] = "live"
    BY <1>2, <2>1 DEF HeapInv, ShadowAgrees, RaceFree
  <2>3. \A u \in Threads : h \notin Making(u)
    BY <1>2, <2>1 DEF HeapInv, ShadowAgrees
  <2>. QED
    BY <2>1, <2>2, <2>3 DEF Readable
<1>. QED
  BY <1>1, <1>2 DEF Reach

(* A step of the program: pointers come from readable memory. *)
LEMMA ProgramInv ==
    ASSUME HeapInv, TypeOK', NEW t \in Threads, Program(t)
    PROVE  HeapInv'
<1>. USE DEF allocVars, sweepVars
<1>1. UNCHANGED <<word, shadow, listed, fresh, alloc, release, pc, arg, stopped,
                  unscanned, marks>>
  BY DEF Program, Copy, Erase
<1>2. pc[t] = "run" /\ t \notin stopped
  BY DEF Program, Copy, Erase, At
<1>. DEFINE Reached(s) == \E g \in Readable : s \in ptr[g]
<1>3. ASSUME NEW h \in Holders, NEW s \in ptr'[h], s \notin ptr[h]
      PROVE  h \in Reach(t) /\ Reached(s)
  <2>1. ptr \in [Holders -> SUBSET Slots]
    BY DEF HeapInv, TypeOK, ProgramType
  <2>2. \A g \in Reach(t) : g \in Readable
    BY ReachReadable
  <2>3. PICK from \in Holders, to \in Holders, p \in Slots : Copy(t, from, to, p)
    BY <1>3, <2>1 DEF Program, Erase
  <2>. QED
    BY <1>3, <2>1, <2>2, <2>3 DEF Copy
<1>4. \A u \in Threads : u # t => ptr'[u] = ptr[u]
  BY HeapAssumption DEF Program, Copy, Erase, HeapInv, TypeOK, ProgramType, Reach,
     HeapAssumption, Holders
<1>5. \A u \in Threads : Making(u)' = Making(u) /\ Owned(u)' = Owned(u)
                          /\ InHand(u)' = InHand(u)
  BY <1>1 DEF Making, Owned, InHand
<1>6. Readable' = Readable /\ \A s \in Slots : Vacant(s)' = Vacant(s)
  BY <1>1, <1>5 DEF Readable, Vacant
<1>7. WordsAgree'
  BY <1>1, <1>2, <1>4 DEF WordsAgree, ThreadWords, HeapInv, Vacant
<1>8. OneOwner' /\ NoSlotLost'
  BY <1>1, <1>5, <1>6 DEF OneOwner, NoSlotLost, HeapInv
<1>9. Blank'
  <2>1. \A s \in Slots : s \in Reach(t) => s \in Readable
    BY ReachReadable
  <2>. QED
    BY <1>1, <1>3, <2>1, HeapAssumption
    DEF Blank, HeapInv, Readable, TypeOK, ProgramType, ThreadType, Holding,
        Holders, Making, HeapAssumption
<1>10. ShadowAgrees'
  BY <1>1, <1>5 DEF ShadowAgrees, HeapInv
<1>11. NoDangling'
  <2>1. \A h \in Readable : h \in Holders
    BY DEF Readable, Holders
  <2>. QED
    BY <1>3, <1>5, <1>6, <2>1 DEF NoDangling, HeapInv
<1>12. MarksCover' /\ CacheEmpty'
  BY <1>1, <1>2 DEF MarksCover, CacheEmpty, HeapInv
<1>. QED
  BY <1>7, <1>8, <1>9, <1>10, <1>11, <1>12 DEF HeapInv

(* PopClass: the slots it takes are nobody's. *)
LEMMA PopClassInv ==
    ASSUME HeapInv, TypeOK', NEW t \in Threads, PopClass(t)
    PROVE  HeapInv'
<1>. USE DEF sweepVars, Goto, Holding
<1>1. PICK r \in regions, S \in SUBSET (listed \cup fresh) :
        /\ listed' = listed \ S
        /\ fresh' = fresh \ S
        /\ \/ /\ pc[t] = "refill"
              /\ alloc' = [alloc EXCEPT ![t] = S]
              /\ Goto(t, "take")
              /\ UNCHANGED arg
           \/ /\ pc[t] = "pop"
              /\ \E s \in S : S = {s} /\ arg' = [arg EXCEPT ![t] = s]
              /\ Goto(t, "have")
              /\ UNCHANGED alloc
  BY DEF PopClass
<1>2. /\ UNCHANGED <<word, shadow, release, stopped, unscanned, marks, ptr>>
      /\ t \notin stopped
  BY DEF PopClass, At
<1>3. \A s \in S : s \in Slots /\ Vacant(s)
  BY DEF HeapInv, TypeOK, MetadataType, WordsAgree, ThreadWords, Vacant
<1>4. \A u \in Threads : u # t => /\ pc'[u] = pc[u] /\ arg'[u] = arg[u]
                                  /\ alloc'[u] = alloc[u]
                                  /\ Making(u)' = Making(u)
                                  /\ InHand(u)' = InHand(u)
                                  /\ Owned(u)' = Owned(u)
  BY <1>1, <1>2 DEF HeapInv, TypeOK, ThreadType, Making, InHand, Owned
<1>5. \/ /\ pc[t] = "refill" /\ pc'[t] = "take"
         /\ alloc[t] = {} /\ alloc'[t] = S
         /\ InHand(t)' = {} /\ Making(t)' = {}
      \/ /\ pc[t] = "pop" /\ pc'[t] = "have"
         /\ alloc'[t] = alloc[t] /\ S = {arg'[t]}
         /\ InHand(t)' = S /\ Making(t)' = S
  BY <1>1 DEF HeapInv, TypeOK, ThreadType, CacheEmpty, Emptied, Making, InHand
<1>6. Owned(t)' = Owned(t) \cup S /\ InHand(t) = {} /\ Making(t) = {}
  BY <1>2, <1>5 DEF Owned, InHand, Making
<1>7. Readable' = Readable
  <2>1. \A s \in Slots : word[s] = "live" => s \notin S
    BY <1>3 DEF Vacant
  <2>. QED
    BY <1>2, <1>4, <1>5, <1>6, <2>1 DEF Readable
<1>8. WordsAgree'
  <2>1. ASSUME NEW u \in Threads PROVE ThreadWords(u)'
    BY <1>1, <1>2, <1>3, <1>4, <1>5 DEF HeapInv, WordsAgree, ThreadWords, Vacant
  <2>. QED
    BY <1>1, <1>2, <2>1 DEF HeapInv, WordsAgree
<1>9. OneOwner'
  BY <1>1, <1>2, <1>4, <1>5, <1>6 DEF HeapInv, OneOwner, Owned
<1>10. NoSlotLost'
  BY <1>1, <1>2, <1>4, <1>6 DEF HeapInv, NoSlotLost, Vacant
<1>11. Blank' /\ CacheEmpty' /\ MarksCover'
  BY <1>2, <1>4, <1>5, <1>7
  DEF HeapInv, Blank, CacheEmpty, Emptied, MarksCover
<1>12. ShadowAgrees'
  <2>1. \A s \in S : shadow[s] # "object"
    BY <1>3 DEF HeapInv, ShadowAgrees, WordsAgree, ThreadWords, Vacant
  <2>. QED
    BY <1>2, <1>3, <1>4, <1>5, <1>6, <2>1
    DEF HeapInv, ShadowAgrees, WordsAgree, ThreadWords, Vacant
<1>13. NoDangling'
  BY <1>2, <1>3, <1>4, <1>5, <1>6, <1>7 DEF HeapInv, NoDangling, Vacant
<1>. QED
  BY <1>8, <1>9, <1>10, <1>11, <1>12, <1>13 DEF HeapInv

(* MakeLive: the slot is the thread's alone, and no readable memory points  *)
(* to it.                                                                   *)
LEMMA MakeLiveInv ==
    ASSUME HeapInv, TypeOK', NEW t \in Threads, MakeLive(t)
    PROVE  HeapInv'
<1>. USE DEF sweepVars, Goto, Holding
<1>1. PICK s \in IF pc[t] = "take" THEN alloc[t] ELSE {arg[t]} :
        /\ alloc' = [alloc EXCEPT ![t] = @ \ {s}]
        /\ arg' = [arg EXCEPT ![t] = s]
        /\ word' = [word EXCEPT ![s] = "live"]
        /\ Goto(t, IF word[s] = "never" THEN "publish" ELSE "zero")
  BY DEF MakeLive
<1>2. /\ UNCHANGED <<shadow, listed, fresh, release, stopped,
                     unscanned, marks, ptr>>
      /\ t \notin stopped
      /\ pc[t] \in {"take", "have"}
  BY DEF MakeLive, At
<1>3. s \in Slots /\ Vacant(s) /\ s \in Owned(t)
  BY <1>2 DEF HeapInv, TypeOK, ThreadType, WordsAgree, ThreadWords, Owned, InHand
<1>4. \A u \in Threads : u # t => /\ pc'[u] = pc[u] /\ arg'[u] = arg[u]
                                  /\ alloc'[u] = alloc[u]
                                  /\ Making(u)' = Making(u)
                                  /\ InHand(u)' = InHand(u)
                                  /\ Owned(u)' = Owned(u)
  BY <1>1, <1>2 DEF HeapInv, TypeOK, ThreadType, Making, InHand, Owned
<1>5. /\ pc'[t] = IF word[s] = "never" THEN "publish" ELSE "zero"
      /\ arg'[t] = s
      /\ alloc'[t] = alloc[t] \ {s}
      /\ InHand(t)' = {s} /\ Making(t)' = {s}
  BY <1>1 DEF HeapInv, TypeOK, ThreadType, Making, InHand
<1>6. \A x \in Slots : word'[x] = IF x = s THEN "live" ELSE word[x]
  BY <1>1 DEF HeapInv, TypeOK, MetadataType
<1>7. Owned(t)' = Owned(t)
  BY <1>1, <1>2, <1>3, <1>5 DEF Owned, InHand
<1>8. Making(t) \subseteq {s} /\ \A u \in Threads : u # t => s \notin Owned(u)
  BY <1>1, <1>2, <1>3 DEF HeapInv, OneOwner, Making
<1>9. Readable' = Readable
  BY <1>3, <1>4, <1>5, <1>6, <1>8 DEF Readable, Vacant
<1>10. WordsAgree'
  <2>1. s \notin listed \cup fresh
    BY <1>3 DEF HeapInv, OneOwner
  <2>2. ASSUME NEW u \in Threads PROVE ThreadWords(u)'
    <3>1. ThreadWords(u) /\ (pc[u] \in Holding => arg[u] \in Slots)
      BY DEF HeapInv, WordsAgree, TypeOK, ThreadType
    <3>2. alloc[u] \subseteq Slots /\ release[u] \subseteq Slots
      BY DEF HeapInv, TypeOK, ThreadType
    <3>3. CASE u = t
      BY <1>2, <1>3, <1>5, <1>6, <3>1, <3>2, <3>3 DEF ThreadWords, Vacant
    <3>4. CASE u # t
      <4>1. s \notin alloc[u] /\ s \notin release[u]
            /\ (pc[u] = "have" => arg[u] # s)
        BY <1>8, <3>4 DEF Owned, InHand
      <4>2. /\ pc'[u] = pc[u] /\ arg'[u] = arg[u] /\ alloc'[u] = alloc[u]
            /\ release'[u] = release[u] /\ ptr'[u] = ptr[u]
        BY <1>2, <1>4, <3>4
      <4>. QED
        BY <1>3, <1>6, <3>1, <3>2, <4>1, <4>2 DEF ThreadWords, Vacant
    <3>. QED
      BY <3>3, <3>4
  <2>. QED
    BY <1>2, <1>6, <2>1, <2>2
    DEF HeapInv, WordsAgree, TypeOK, MetadataType
<1>11. OneOwner'
  BY <1>2, <1>3, <1>4, <1>5, <1>7, <1>8 DEF HeapInv, OneOwner, WordsAgree, ThreadWords, Vacant
<1>12. NoSlotLost'
  BY <1>2, <1>4, <1>6, <1>7 DEF HeapInv, NoSlotLost, Vacant
<1>13. Blank' /\ CacheEmpty' /\ MarksCover'
  BY <1>2, <1>3, <1>4, <1>5, <1>6
  DEF HeapInv, Blank, CacheEmpty, Emptied, MarksCover
<1>14. ShadowAgrees'
  <2>1. shadow[s] # "object"
    BY <1>3 DEF HeapInv, ShadowAgrees, WordsAgree, ThreadWords, Vacant
  <2>. QED
    BY <1>2, <1>3, <1>4, <1>5, <1>6, <1>8, <2>1 DEF HeapInv, ShadowAgrees
<1>15. NoDangling'
  BY <1>2, <1>3, <1>4, <1>5, <1>6, <1>8, <1>9 DEF HeapInv, NoDangling, Vacant
<1>. QED
  BY <1>10, <1>11, <1>12, <1>13, <1>14, <1>15 DEF HeapInv

(* What a step leaves of a thread it does not touch. *)
Untouched(u) ==
    /\ pc'[u] = pc[u] /\ arg'[u] = arg[u] /\ alloc'[u] = alloc[u]
    /\ release'[u] = release[u] /\ ptr'[u] = ptr[u]

(* A thread that a step does not touch owns, makes and holds what it did. *)
LEMMA Untouching ==
    ASSUME NEW u \in Threads, Untouched(u)
    PROVE  /\ Making(u)' = Making(u)
           /\ InHand(u)' = InHand(u)
           /\ Owned(u)' = Owned(u)
  BY DEF Untouched, Making, InHand, Owned

(* Its slots agree with their words as long as the words stay. *)
LEMMA KeepWords ==
    ASSUME HeapInv, NEW u \in Threads, Untouched(u),
           \A s \in Owned(u) : word'[s] = word[s]
    PROVE  ThreadWords(u)'
<1>1. ThreadWords(u)
  BY DEF HeapInv, WordsAgree
<1>. QED
  BY <1>1 DEF Untouched, ThreadWords, Owned, InHand, Vacant

(* ZeroFill: the block is not readable yet, so no pointer the program has is *)
(* lost or gained.                                                           *)
LEMMA ZeroFillInv ==
    ASSUME HeapInv, TypeOK', NEW t \in Threads, ZeroFill(t)
    PROVE  HeapInv'
<1>. USE DEF allocVars, sweepVars, Goto, Holding
<1>1. /\ UNCHANGED <<word, shadow, listed, fresh, alloc, release, arg, stopped,
                     unscanned, marks>>
      /\ t \notin stopped /\ pc[t] = "zero" /\ arg[t] \in Slots
  BY DEF ZeroFill, At, HeapInv, TypeOK, ThreadType
<1>2. \A h \in Holders : ptr'[h] = IF h = arg[t] THEN {} ELSE ptr[h]
  BY <1>1 DEF ZeroFill, HeapInv, TypeOK, ProgramType, Holders
<1>3. \A u \in Threads : ptr'[u] = ptr[u]
  BY <1>1, <1>2, HeapAssumption DEF Holders, HeapAssumption
<1>4. pc'[t] = "publish"
  BY DEF ZeroFill, HeapInv, TypeOK, ThreadType
<1>5. \A u \in Threads : u # t => Untouched(u)
  BY <1>1, <1>3 DEF ZeroFill, Untouched, HeapInv, TypeOK, ThreadType
<1>6. /\ Making(t)' = Making(t) /\ InHand(t)' = InHand(t)
      /\ Owned(t)' = Owned(t)
  BY <1>1, <1>4 DEF Making, InHand, Owned
<1>7. \A u \in Threads : /\ Making(u)' = Making(u) /\ InHand(u)' = InHand(u)
                         /\ Owned(u)' = Owned(u)
  BY <1>5, <1>6, Untouching
<1>8. Readable' = Readable
  BY <1>1, <1>7 DEF Readable
<1>9. WordsAgree'
  <2>1. \A u \in Threads : u # t => ThreadWords(u)'
    BY <1>1, <1>5, KeepWords
  <2>2. ThreadWords(t)'
    BY <1>1, <1>4 DEF HeapInv, WordsAgree, ThreadWords, Vacant
  <2>. QED
    BY <1>1, <2>1, <2>2 DEF HeapInv, WordsAgree
<1>10. OneOwner' /\ NoSlotLost'
  BY <1>1, <1>7 DEF HeapInv, OneOwner, NoSlotLost, Vacant
<1>11. Blank'
  <2>1. \A h \in Holders : ptr[h] = {} => ptr'[h] = {}
    BY <1>2
  <2>2. ptr'[arg[t]] = {}
    BY <1>1, <1>2 DEF Holders
  <2>. QED
    BY <1>1, <1>4, <1>5, <2>1, <2>2
    DEF HeapInv, Blank, Untouched, Holders, TypeOK, ThreadType
<1>12. CacheEmpty' /\ MarksCover'
  BY <1>1, <1>4, <1>5
  DEF HeapInv, CacheEmpty, Emptied, MarksCover, Untouched
<1>13. ShadowAgrees'
  BY <1>1, <1>4, <1>5, <1>7 DEF HeapInv, ShadowAgrees, Untouched
<1>14. NoDangling'
  <2>1. \A h \in Readable, s \in Slots : s \in ptr'[h] => s \in ptr[h]
    BY <1>2 DEF Readable, Holders
  <2>. QED
    BY <1>1, <1>7, <1>8, <2>1 DEF HeapInv, NoDangling, Vacant
<1>. QED
  BY <1>9, <1>10, <1>11, <1>12, <1>13, <1>14 DEF HeapInv

(* Publish: the block becomes readable with no pointer in it, and the only  *)
(* pointer to it is the one its thread gets.                                *)
LEMMA PublishInv ==
    ASSUME HeapInv, TypeOK', NEW t \in Threads, Publish(t)
    PROVE  HeapInv'
<1>. USE DEF sweepVars, Goto, Holding
<1>. DEFINE b == arg[t]
<1>1. /\ UNCHANGED <<word, listed, fresh, alloc, release, stopped,
                     unscanned, marks>>
      /\ t \notin stopped /\ pc[t] = "publish" /\ b \in Slots
      /\ word[b] = "live" /\ ptr[b] = {}
  BY DEF Publish, At, HeapInv, TypeOK, ThreadType, WordsAgree, ThreadWords,
     Blank
<1>2. \A h \in Holders : ptr'[h] = IF h = t THEN ptr[h] \cup {b} ELSE ptr[h]
  BY DEF Publish, HeapInv, TypeOK, ProgramType, Holders
<1>3. \A s \in Slots : shadow'[s] = IF s = b THEN "object" ELSE shadow[s]
  BY DEF Publish, HeapInv, TypeOK, MetadataType
<1>4. pc'[t] = "run" /\ arg'[t] = None
  BY DEF Publish, HeapInv, TypeOK, ThreadType
<1>5. \A u \in Threads : u # t => Untouched(u)
  BY <1>1, <1>2 DEF Publish, Untouched, HeapInv, TypeOK, ThreadType, Holders
<1>6. /\ Making(t) = {b} /\ Making(t)' = {}
      /\ InHand(t) = {b} /\ InHand(t)' = {}
      /\ Owned(t)' = Owned(t) \ {b}
  BY <1>1, <1>4 DEF Making, InHand, Owned, HeapInv, OneOwner
<1>7. \A u \in Threads : u # t => /\ Making(u)' = Making(u)
                                  /\ InHand(u)' = InHand(u)
                                  /\ Owned(u)' = Owned(u)
                                  /\ b \notin Owned(u) /\ b \notin Making(u)
  BY <1>5, <1>6, Untouching DEF HeapInv, OneOwner, Owned, InHand, Making
<1>8. Readable' = Readable \cup {b}
  BY <1>1, <1>6, <1>7 DEF Readable
<1>9. WordsAgree'
  <2>1. \A u \in Threads : u # t => ThreadWords(u)'
    BY <1>1, <1>5, KeepWords
  <2>2. ThreadWords(t)'
    BY <1>1, <1>4 DEF HeapInv, WordsAgree, ThreadWords, Vacant
  <2>. QED
    BY <1>1, <2>1, <2>2 DEF HeapInv, WordsAgree
<1>10. OneOwner'
  BY <1>1, <1>6, <1>7 DEF HeapInv, OneOwner
<1>11. NoSlotLost'
  BY <1>1, <1>6, <1>7 DEF HeapInv, NoSlotLost, Vacant
<1>12. Blank'
  <2>1. \A s \in Slots : ptr'[s] = ptr[s]
    BY <1>2, HeapAssumption DEF Holders, HeapAssumption
  <2>. QED
    BY <1>1, <1>4, <1>5, <2>1
    DEF HeapInv, Blank, Untouched, TypeOK, ThreadType
<1>13. CacheEmpty' /\ MarksCover'
  BY <1>1, <1>4, <1>5
  DEF HeapInv, CacheEmpty, Emptied, MarksCover, Untouched
<1>14. ShadowAgrees'
  BY <1>1, <1>3, <1>4, <1>5, <1>6, <1>7 DEF HeapInv, ShadowAgrees, Untouched
<1>15. NoDangling'
  <2>1. \A s \in Slots : s # b =>
          \A h \in Readable' : s \in ptr'[h] => h \in Readable /\ s \in ptr[h]
    BY <1>1, <1>2, <1>8 DEF Readable, Holders
  <2>. QED
    BY <1>1, <1>6, <1>7, <2>1 DEF HeapInv, NoDangling, Vacant
<1>. QED
  BY <1>9, <1>10, <1>11, <1>12, <1>13, <1>14, <1>15 DEF HeapInv

(* Free: the thread goes on to the claim of a block it points to, or the    *)
(* program ends.                                                            *)
LEMMA FreeInv ==
    ASSUME HeapInv, TypeOK', NEW t \in Threads, NEW b \in Slots, Free(t, b)
    PROVE  HeapInv'
<1>. USE DEF allocVars, sweepVars, Goto, Holding
<1>1. /\ UNCHANGED <<word, shadow, listed, fresh, alloc, release, stopped,
                     unscanned, marks, ptr>>
      /\ t \notin stopped /\ pc[t] = "run" /\ b \in ptr[t]
  BY DEF Free, At
<1>2. \/ pc'[t] = "claim" /\ arg'[t] = b
      \/ pc'[t] = "run" /\ arg'[t] = arg[t]
  BY <1>1 DEF Free, HeapInv, TypeOK, ThreadType
<1>3. \A u \in Threads : u # t => Untouched(u)
  BY <1>1 DEF Free, Untouched, HeapInv, TypeOK, ThreadType
<1>4. /\ Making(t)' = Making(t) /\ InHand(t)' = InHand(t)
      /\ Owned(t)' = Owned(t)
  BY <1>1, <1>2 DEF Making, InHand, Owned
<1>5. \A u \in Threads : /\ Making(u)' = Making(u) /\ InHand(u)' = InHand(u)
                         /\ Owned(u)' = Owned(u)
  BY <1>3, <1>4, Untouching
<1>6. Readable' = Readable
  BY <1>1, <1>5 DEF Readable
<1>7. WordsAgree'
  <2>1. \A u \in Threads : u # t => ThreadWords(u)'
    BY <1>1, <1>3, KeepWords
  <2>2. ThreadWords(t)'
    BY <1>1, <1>2 DEF HeapInv, WordsAgree, ThreadWords, Vacant
  <2>. QED
    BY <1>1, <2>1, <2>2 DEF HeapInv, WordsAgree
<1>8. OneOwner' /\ NoSlotLost'
  BY <1>1, <1>5 DEF HeapInv, OneOwner, NoSlotLost, Vacant
<1>9. Blank' /\ CacheEmpty' /\ MarksCover'
  BY <1>1, <1>2, <1>3
  DEF HeapInv, Blank, CacheEmpty, Emptied, MarksCover, Untouched
<1>10. ShadowAgrees'
  BY <1>1, <1>2, <1>3, <1>5 DEF HeapInv, ShadowAgrees, Untouched
<1>11. NoDangling'
  BY <1>1, <1>5, <1>6 DEF HeapInv, NoDangling, Vacant
<1>. QED
  BY <1>7, <1>8, <1>9, <1>10, <1>11 DEF HeapInv

(* Claim: the compare-and-swap succeeds for one thread, and for a block     *)
(* that no allocation is handing out: the thread points to it.              *)
LEMMA ClaimInv ==
    ASSUME HeapInv, TypeOK', NEW t \in Threads, Claim(t)
    PROVE  HeapInv'
<1>. USE DEF sweepVars, Goto, Holding
<1>. DEFINE b == arg[t]
<1>1. /\ UNCHANGED <<shadow, listed, fresh, alloc, release, arg, stopped,
                     unscanned, marks,
                     ptr>>
      /\ t \notin stopped /\ pc[t] = "claim" /\ b \in Slots /\ b \in ptr[t]
  BY DEF Claim, At, HeapInv, TypeOK, ThreadType, WordsAgree, ThreadWords
<1>2. CASE UNCHANGED <<word, pc>>
  <2>1. \A u \in Threads : Untouched(u)
    BY <1>1, <1>2 DEF Untouched
  <2>2. \A u \in Threads : /\ Making(u)' = Making(u) /\ InHand(u)' = InHand(u)
                           /\ Owned(u)' = Owned(u)
    BY <2>1, Untouching
  <2>3. Readable' = Readable
    BY <1>2, <2>2 DEF Readable
  <2>4. WordsAgree'
    BY <1>1, <1>2, <2>1, KeepWords DEF HeapInv, WordsAgree
  <2>5. OneOwner' /\ NoSlotLost' /\ ShadowAgrees'
    BY <1>1, <1>2, <2>2 DEF HeapInv, OneOwner, NoSlotLost, Vacant, ShadowAgrees
  <2>6. Blank' /\ CacheEmpty' /\ MarksCover'
    BY <1>1, <1>2 DEF HeapInv, Blank, CacheEmpty, MarksCover
  <2>7. NoDangling'
    BY <1>1, <1>2, <2>2, <2>3 DEF HeapInv, NoDangling, Vacant
  <2>. QED
    BY <2>4, <2>5, <2>6, <2>7 DEF HeapInv
<1>3. CASE /\ word[b] = "live"
           /\ word' = [word EXCEPT ![b] = "claimed"]
           /\ Goto(t, "shade")
  <2>1. pc'[t] = "shade" /\ arg'[t] = b
    BY <1>1, <1>3 DEF HeapInv, TypeOK, ThreadType
  <2>2. \A s \in Slots : word'[s] = IF s = b THEN "claimed" ELSE word[s]
    BY <1>3 DEF HeapInv, TypeOK, MetadataType
  <2>3. \A u \in Threads : u # t => Untouched(u)
    BY <1>1, <1>3 DEF Untouched, HeapInv, TypeOK, ThreadType
  <2>4. \A u \in Threads : b \notin Making(u)
    BY <1>1 DEF HeapInv, NoDangling, Readable
  <2>5. \A u \in Threads : b \notin Owned(u)
    <3>. SUFFICES ASSUME NEW u \in Threads PROVE b \notin Owned(u)
      OBVIOUS
    <3>1. ThreadWords(u)
      BY DEF HeapInv, WordsAgree
    <3>. QED
      BY <1>3, <2>4, <3>1 DEF ThreadWords, Owned, InHand, Making, Vacant
  <2>6. \A u \in Threads : u # t => /\ Making(u)' = Making(u)
                                    /\ InHand(u)' = InHand(u)
                                    /\ Owned(u)' = Owned(u)
    BY <2>3, Untouching
  <2>7. /\ Making(t) = {} /\ Making(t)' = {} /\ InHand(t) = {}
        /\ InHand(t)' = {b} /\ Owned(t)' = Owned(t) \cup {b}
    BY <1>1, <2>1 DEF Making, InHand, Owned
  <2>8. Readable' \subseteq Readable
    BY <2>2, <2>6, <2>7 DEF Readable
  <2>9. WordsAgree'
    <3>1. \A u \in Threads : u # t => ThreadWords(u)'
      <4>. SUFFICES ASSUME NEW u \in Threads, u # t PROVE ThreadWords(u)'
        OBVIOUS
      <4>1. \A s \in Owned(u) : s \in Slots
        BY DEF Owned, InHand, HeapInv, TypeOK, ThreadType
      <4>. QED
        BY <2>2, <2>3, <2>5, <4>1, KeepWords
    <3>2. ThreadWords(t)'
      <4>1. ThreadWords(t) /\ alloc[t] \subseteq Slots /\ release[t] \subseteq Slots
        BY DEF HeapInv, WordsAgree, TypeOK, ThreadType
      <4>. QED
        BY <1>1, <1>3, <2>1, <2>2, <4>1 DEF ThreadWords, Vacant
    <3>3. b \notin listed \cup fresh
      BY <1>3 DEF HeapInv, WordsAgree
    <3>. QED
      BY <1>1, <2>2, <3>1, <3>2, <3>3
      DEF HeapInv, WordsAgree, TypeOK, MetadataType
  <2>10. OneOwner'
    <3>1. b \notin listed \cup fresh
      BY <1>3 DEF HeapInv, WordsAgree
    <3>2. b \notin alloc[t] \cup release[t]
      BY <2>5 DEF Owned
    <3>. QED
      BY <1>1, <2>5, <2>6, <2>7, <3>1, <3>2 DEF HeapInv, OneOwner
  <2>11. NoSlotLost'
    BY <1>1, <2>2, <2>6, <2>7 DEF HeapInv, NoSlotLost, Vacant
  <2>12. Blank' /\ CacheEmpty'
    BY <1>1, <2>1, <2>2, <2>3
    DEF HeapInv, Blank, CacheEmpty, Emptied, Untouched
  <2>13. MarksCover'
    BY <1>1, <2>1, <2>3 DEF HeapInv, MarksCover, Untouched
  <2>14. ShadowAgrees'
    BY <1>1, <2>1, <2>2, <2>3, <2>4, <2>6, <2>7
    DEF HeapInv, ShadowAgrees, Untouched
  <2>15. NoDangling'
    BY <1>1, <2>2, <2>6, <2>7, <2>8 DEF HeapInv, NoDangling, Vacant
  <2>. QED
    BY <2>9, <2>10, <2>11, <2>12, <2>13, <2>14, <2>15 DEF HeapInv
<1>. QED
  BY <1>2, <1>3 DEF Claim

(* ShadowDead, CachedRelease and Retire: a claimed slot is shaded, then     *)
(* passed on to the cache or to the quarantine.                             *)
LEMMA ShadowDeadInv ==
    ASSUME HeapInv, TypeOK', NEW t \in Threads, ShadowDead(t)
    PROVE  HeapInv'
<1>. USE DEF sweepVars, Goto, Holding
<1>. DEFINE b == arg[t]
<1>1. /\ UNCHANGED <<word, listed, fresh, alloc, release, arg, stopped,
                     unscanned, marks,
                     ptr>>
      /\ t \notin stopped /\ pc[t] = "shade" /\ b \in Slots
      /\ word[b] = "claimed"
  BY DEF ShadowDead, At, HeapInv, TypeOK, ThreadType, WordsAgree, ThreadWords
<1>2. pc'[t] \in {"push", "queue"}
  BY DEF ShadowDead, HeapInv, TypeOK, ThreadType
<1>3. \A s \in Slots : shadow'[s] = IF s = b THEN "freed" ELSE shadow[s]
  BY DEF ShadowDead, HeapInv, TypeOK, MetadataType
<1>4. \A u \in Threads : u # t => Untouched(u)
  BY <1>1 DEF ShadowDead, Untouched, HeapInv, TypeOK, ThreadType
<1>5. /\ Making(t)' = Making(t) /\ InHand(t)' = InHand(t)
      /\ Owned(t)' = Owned(t)
  BY <1>1, <1>2 DEF Making, InHand, Owned
<1>6. \A u \in Threads : /\ Making(u)' = Making(u) /\ InHand(u)' = InHand(u)
                         /\ Owned(u)' = Owned(u)
  BY <1>4, <1>5, Untouching
<1>7. Readable' = Readable
  BY <1>1, <1>6 DEF Readable
<1>8. WordsAgree'
  <2>1. \A u \in Threads : u # t => ThreadWords(u)'
    BY <1>1, <1>4, KeepWords
  <2>2. ThreadWords(t)'
    BY <1>1, <1>2 DEF HeapInv, WordsAgree, ThreadWords, Vacant
  <2>. QED
    BY <1>1, <2>1, <2>2 DEF HeapInv, WordsAgree
<1>9. OneOwner' /\ NoSlotLost'
  BY <1>1, <1>6 DEF HeapInv, OneOwner, NoSlotLost, Vacant
<1>10. Blank' /\ CacheEmpty' /\ MarksCover'
  BY <1>1, <1>2, <1>4
  DEF HeapInv, Blank, CacheEmpty, Emptied, MarksCover, Untouched
<1>11. ShadowAgrees'
  BY <1>1, <1>2, <1>3, <1>4, <1>6 DEF HeapInv, ShadowAgrees, Untouched
<1>12. NoDangling'
  BY <1>1, <1>6, <1>7 DEF HeapInv, NoDangling, Vacant
<1>. QED
  BY <1>8, <1>9, <1>10, <1>11, <1>12 DEF HeapInv

(* CachedRelease: the claimed slot goes from the thread's hands to its cache. *)
LEMMA CachedReleaseInv ==
    ASSUME HeapInv, TypeOK', NEW t \in Threads, CachedRelease(t)
    PROVE  HeapInv'
<1>. USE DEF allocVars, sweepVars, Goto, Holding
<1>. DEFINE b == arg[t]
<1>1. /\ UNCHANGED <<word, shadow, listed, fresh, alloc, stopped,
                     unscanned, marks, ptr>>
      /\ t \notin stopped /\ pc[t] = "push" /\ b \in Slots
      /\ word[b] = "claimed"
  BY DEF CachedRelease, At, HeapInv, TypeOK, ThreadType, WordsAgree,
     ThreadWords
<1>2. /\ pc'[t] \in {"flush", "run"}
      /\ release'[t] = release[t] \cup {b}
  BY DEF CachedRelease, HeapInv, TypeOK, ThreadType
<1>3. \A u \in Threads : u # t => Untouched(u)
  BY <1>1 DEF CachedRelease, Untouched, HeapInv, TypeOK, ThreadType
<1>4. /\ Making(t)' = {} /\ Making(t) = {} /\ InHand(t)' = {}
      /\ InHand(t) = {b} /\ Owned(t)' = Owned(t)
  BY <1>1, <1>2 DEF Making, InHand, Owned
<1>5. \A u \in Threads : u # t => /\ Making(u)' = Making(u)
                                  /\ InHand(u)' = InHand(u)
                                  /\ Owned(u)' = Owned(u)
  BY <1>3, Untouching
<1>6. Readable' = Readable
  BY <1>1, <1>4, <1>5 DEF Readable
<1>7. WordsAgree'
  <2>1. \A u \in Threads : u # t => ThreadWords(u)'
    BY <1>1, <1>3, KeepWords
  <2>2. ThreadWords(t)'
    BY <1>1, <1>2 DEF HeapInv, WordsAgree, ThreadWords, Vacant
  <2>. QED
    BY <1>1, <2>1, <2>2 DEF HeapInv, WordsAgree
<1>8. OneOwner'
  <2>1. b \notin alloc[t] \cup release[t]
    BY <1>4 DEF HeapInv, OneOwner
  <2>. QED
    BY <1>1, <1>2, <1>3, <1>4, <1>5, <2>1 DEF HeapInv, OneOwner, Untouched
<1>12. NoSlotLost'
  BY <1>1, <1>4, <1>5 DEF HeapInv, NoSlotLost, Vacant
<1>9. Blank' /\ CacheEmpty' /\ MarksCover'
  BY <1>1, <1>2, <1>3
  DEF HeapInv, Blank, CacheEmpty, Emptied, MarksCover, Untouched
<1>10. ShadowAgrees'
  BY <1>1, <1>2, <1>3, <1>4, <1>5 DEF HeapInv, ShadowAgrees, Untouched
<1>11. NoDangling'
  BY <1>1, <1>4, <1>5, <1>6 DEF HeapInv, NoDangling, Vacant
<1>. QED
  BY <1>7, <1>8, <1>9, <1>10, <1>11, <1>12 DEF HeapInv

(* Slots of a thread's own, whose words it changes: the other threads keep  *)
(* theirs.                                                                  *)
LEMMA OthersKeepWords ==
    ASSUME HeapInv, NEW t \in Threads, NEW u \in Threads, u # t, Untouched(u),
           \A s \in Slots : s \notin Owned(t) => word'[s] = word[s]
    PROVE  ThreadWords(u)'
<1>1. \A s \in Owned(u) : s \in Slots /\ s \notin Owned(t)
  BY DEF Owned, InHand, HeapInv, TypeOK, ThreadType, OneOwner, Holding
<1>. QED
  BY <1>1, KeepWords

(* Retire: the claimed slot goes from the thread's hands to the quarantine. *)
LEMMA RetireInv ==
    ASSUME HeapInv, TypeOK', NEW t \in Threads, Retire(t)
    PROVE  HeapInv'
<1>. USE DEF sweepVars, Goto, Holding
<1>. DEFINE b == arg[t]
<1>1. /\ UNCHANGED <<shadow, listed, fresh, alloc, release, stopped,
                     unscanned, marks, ptr>>
      /\ t \notin stopped /\ pc[t] = "queue" /\ b \in Slots
      /\ word[b] = "claimed"
  BY DEF Retire, At, HeapInv, TypeOK, ThreadType, WordsAgree, ThreadWords
<1>2. pc'[t] = "budget"
  BY DEF Retire, HeapInv, TypeOK, ThreadType
<1>3. \A s \in Slots : word'[s] = IF s = b THEN "dead" ELSE word[s]
  BY DEF Retire, HeapInv, TypeOK, MetadataType
<1>4. \A u \in Threads : u # t => Untouched(u)
  BY <1>1 DEF Retire, Untouched, HeapInv, TypeOK, ThreadType
<1>5. /\ Making(t)' = {} /\ Making(t) = {} /\ InHand(t)' = {}
      /\ InHand(t) = {b} /\ b \notin alloc[t] \cup release[t]
  BY <1>1, <1>2 DEF Making, InHand, HeapInv, OneOwner
<1>6. Owned(t)' = Owned(t) \ {b} /\ b \in Owned(t)
  BY <1>1, <1>5 DEF Owned
<1>7. \A u \in Threads : u # t => /\ Making(u)' = Making(u)
                                  /\ InHand(u)' = InHand(u)
                                  /\ Owned(u)' = Owned(u)
  BY <1>4, Untouching
<1>8. Readable' = Readable
  BY <1>1, <1>3, <1>5, <1>7 DEF Readable
<1>9. WordsAgree'
  <2>1. \A u \in Threads : u # t => ThreadWords(u)'
    BY <1>3, <1>4, <1>6, OthersKeepWords
  <2>2. ThreadWords(t)'
    <3>1. ThreadWords(t) /\ alloc[t] \subseteq Slots /\ release[t] \subseteq Slots
      BY DEF HeapInv, WordsAgree, TypeOK, ThreadType
    <3>. QED
      BY <1>1, <1>2, <1>3, <1>5, <3>1 DEF ThreadWords, Vacant
  <2>. QED
    BY <1>1, <1>3, <2>1, <2>2 DEF HeapInv, WordsAgree, TypeOK, MetadataType
<1>10. OneOwner'
  BY <1>1, <1>5, <1>6, <1>7 DEF HeapInv, OneOwner
<1>11. NoSlotLost'
  BY <1>1, <1>3, <1>6, <1>7 DEF HeapInv, NoSlotLost, Vacant
<1>12. Blank' /\ CacheEmpty' /\ MarksCover'
  BY <1>1, <1>2, <1>3, <1>4
  DEF HeapInv, Blank, CacheEmpty, Emptied, MarksCover, Untouched
<1>13. ShadowAgrees'
  BY <1>1, <1>2, <1>3, <1>4, <1>5, <1>7 DEF HeapInv, ShadowAgrees, Untouched
<1>14. NoDangling'
  BY <1>1, <1>3, <1>5, <1>7, <1>8 DEF HeapInv, NoDangling, Vacant
<1>. QED
  BY <1>9, <1>10, <1>11, <1>12, <1>13, <1>14 DEF HeapInv

(* FlushReleases: claimed slots of the thread's cache join the quarantine.  *)
LEMMA FlushReleasesInv ==
    ASSUME HeapInv, TypeOK', NEW t \in Threads, FlushReleases(t)
    PROVE  HeapInv'
<1>. USE DEF sweepVars, Goto, Holding
<1>1. PICK Run \in SUBSET release[t] :
        /\ word' = [s \in Slots |-> IF s \in Run THEN "dead" ELSE word[s]]
        /\ release' = [release EXCEPT ![t] = @ \ Run]
  BY DEF FlushReleases
<1>2. /\ UNCHANGED <<shadow, listed, fresh, alloc, arg, stopped,
                     unscanned, marks, ptr>>
      /\ t \notin stopped /\ pc[t] \in {"flush", "sweep", "drop"}
  BY DEF FlushReleases, At
<1>3. pc'[t] \in {"flush", "sweep", "drop", "budget"}
  BY <1>2 DEF FlushReleases, HeapInv, TypeOK, ThreadType
<1>4. /\ \A s \in Slots : word'[s] = IF s \in Run THEN "dead" ELSE word[s]
      /\ \A s \in Run : s \in Slots /\ word[s] = "claimed" /\ s \in Owned(t)
                        /\ s \notin alloc[t]
      /\ release'[t] = release[t] \ Run
  BY <1>1 DEF HeapInv, TypeOK, ThreadType, WordsAgree, ThreadWords, Owned,
     OneOwner
<1>5. \A u \in Threads : u # t => Untouched(u)
  BY <1>1, <1>2 DEF FlushReleases, Untouched, HeapInv, TypeOK, ThreadType
<1>6. /\ Making(t)' = {} /\ Making(t) = {} /\ InHand(t)' = {}
      /\ InHand(t) = {}
  BY <1>2, <1>3 DEF Making, InHand
<1>7. Owned(t)' = Owned(t) \ Run
  BY <1>2, <1>4, <1>6 DEF Owned
<1>8. \A u \in Threads : u # t => /\ Making(u)' = Making(u)
                                  /\ InHand(u)' = InHand(u)
                                  /\ Owned(u)' = Owned(u)
  BY <1>5, Untouching
<1>9. Readable' = Readable
  BY <1>2, <1>4, <1>6, <1>8 DEF Readable
<1>10. WordsAgree'
  <2>1. \A u \in Threads : u # t => ThreadWords(u)'
    BY <1>4, <1>5, OthersKeepWords
  <2>2. ThreadWords(t)'
    <3>1. ThreadWords(t) /\ alloc[t] \subseteq Slots /\ release[t] \subseteq Slots
      BY DEF HeapInv, WordsAgree, TypeOK, ThreadType
    <3>. QED
      BY <1>2, <1>3, <1>4, <3>1 DEF ThreadWords, Vacant
  <2>. QED
    BY <1>2, <1>4, <2>1, <2>2 DEF HeapInv, WordsAgree, TypeOK, MetadataType
<1>11. OneOwner'
  BY <1>2, <1>4, <1>5, <1>6, <1>7, <1>8 DEF HeapInv, OneOwner, Untouched
<1>12. NoSlotLost'
  BY <1>2, <1>4, <1>7, <1>8 DEF HeapInv, NoSlotLost, Vacant
<1>13. Blank' /\ CacheEmpty' /\ MarksCover'
  BY <1>2, <1>3, <1>4, <1>5
  DEF HeapInv, Blank, CacheEmpty, Emptied, MarksCover, Untouched
<1>14. ShadowAgrees'
  BY <1>2, <1>3, <1>4, <1>5, <1>6, <1>8 DEF HeapInv, ShadowAgrees, Untouched
<1>15. NoDangling'
  BY <1>2, <1>4, <1>6, <1>8, <1>9 DEF HeapInv, NoDangling, Vacant
<1>. QED
  BY <1>10, <1>11, <1>12, <1>13, <1>14, <1>15 DEF HeapInv

(* ReturnSlot: a free slot of the thread's cache goes back to its list. *)
LEMMA ReturnSlotInv ==
    ASSUME HeapInv, TypeOK', NEW t \in Threads, ReturnSlot(t)
    PROVE  HeapInv'
<1>. USE DEF sweepVars, Holding
<1>1. PICK b \in alloc[t] :
        /\ alloc' = [alloc EXCEPT ![t] = @ \ {b}]
        /\ listed' = listed \cup {b}
        /\ word' = [word EXCEPT ![b] = "free"]
  BY DEF ReturnSlot
<1>2. /\ UNCHANGED <<shadow, fresh, release, pc, arg, stopped,
                     unscanned, marks, ptr>>
      /\ t \notin stopped /\ pc[t] \in {"sweep", "drop"}
  BY DEF ReturnSlot, At
<1>3. /\ b \in Slots /\ Vacant(b) /\ b \in Owned(t) /\ b \notin release[t]
      /\ alloc'[t] = alloc[t] \ {b}
      /\ \A s \in Slots : word'[s] = IF s = b THEN "free" ELSE word[s]
  BY <1>1 DEF HeapInv, TypeOK, MetadataType, ThreadType, WordsAgree,
     ThreadWords, Owned, OneOwner
<1>4. b \notin listed \cup fresh
  BY <1>3 DEF HeapInv, OneOwner
<1>5. \A u \in Threads : u # t => Untouched(u)
  BY <1>1, <1>2 DEF Untouched, HeapInv, TypeOK, ThreadType
<1>6. /\ Making(t)' = {} /\ Making(t) = {} /\ InHand(t)' = {}
      /\ InHand(t) = {}
  BY <1>2 DEF Making, InHand
<1>7. Owned(t)' = Owned(t) \ {b}
  BY <1>2, <1>3, <1>6 DEF Owned
<1>8. \A u \in Threads : u # t => /\ Making(u)' = Making(u)
                                  /\ InHand(u)' = InHand(u)
                                  /\ Owned(u)' = Owned(u)
  BY <1>5, Untouching
<1>9. Readable' = Readable
  BY <1>2, <1>3, <1>6, <1>8 DEF Readable, Vacant
<1>10. WordsAgree'
  <2>1. \A u \in Threads : u # t => ThreadWords(u)'
    BY <1>3, <1>5, OthersKeepWords
  <2>2. ThreadWords(t)'
    <3>1. ThreadWords(t) /\ alloc[t] \subseteq Slots /\ release[t] \subseteq Slots
      BY DEF HeapInv, WordsAgree, TypeOK, ThreadType
    <3>. QED
      BY <1>2, <1>3, <3>1 DEF ThreadWords, Vacant
  <2>. QED
    BY <1>1, <1>2, <1>3, <1>4, <2>1, <2>2
    DEF HeapInv, WordsAgree, TypeOK, MetadataType
<1>11. OneOwner'
  <2>1. \A u \in Threads : u # t => b \notin Owned(u)
    BY <1>3 DEF HeapInv, OneOwner
  <2>. QED
    BY <1>1, <1>2, <1>3, <1>4, <1>6, <1>7, <1>8, <2>1 DEF HeapInv, OneOwner
<1>12. NoSlotLost'
  BY <1>1, <1>2, <1>3, <1>7, <1>8 DEF HeapInv, NoSlotLost, Vacant
<1>13. Blank' /\ CacheEmpty' /\ MarksCover'
  BY <1>1, <1>2, <1>3, <1>5
  DEF HeapInv, Blank, CacheEmpty, Emptied, MarksCover, Untouched
<1>14. ShadowAgrees'
  BY <1>2, <1>3, <1>5, <1>6, <1>8
  DEF HeapInv, ShadowAgrees, Untouched, Vacant
<1>15. NoDangling'
  BY <1>2, <1>3, <1>6, <1>8, <1>9 DEF HeapInv, NoDangling, Vacant
<1>. QED
  BY <1>10, <1>11, <1>12, <1>13, <1>14, <1>15 DEF HeapInv

(* Mark, Scan: what the program can read is part of what the sweep scans,   *)
(* and what is scanned is marked.                                           *)
LEMMA MarkInv ==
    ASSUME HeapInv, TypeOK', NEW t \in Threads,
           Mark(t) \/ \E h \in Holders : Scan(t, h)
    PROVE  HeapInv'
<1>. USE DEF allocVars, Goto, Holding
<1>1. /\ UNCHANGED <<word, shadow, listed, fresh, alloc, release, arg, stopped,
                     ptr>>
      /\ pc[t] \in {"stop", "mark"} /\ stopped = Threads \ {t}
  BY DEF Mark, Scan, At, HeapInv, MarksCover
<1>2. /\ pc'[t] \in {"mark", "recycle"}
      /\ pc'[t] = "recycle" => unscanned' = {}
      /\ \A u \in Threads : u # t => Untouched(u)
  BY <1>1 DEF Mark, Scan, Untouched, HeapInv, TypeOK, ThreadType
<1>3. /\ Making(t)' = Making(t) /\ InHand(t)' = InHand(t)
      /\ Owned(t)' = Owned(t)
  BY <1>1, <1>2 DEF Making, InHand, Owned
<1>4. \A u \in Threads : /\ Making(u)' = Making(u) /\ InHand(u)' = InHand(u)
                         /\ Owned(u)' = Owned(u)
  BY <1>2, <1>3, Untouching
<1>5. Readable' = Readable /\ Quarantined' = Quarantined
  BY <1>1, <1>4 DEF Readable, Quarantined
<1>6. WordsAgree'
  <2>1. \A u \in Threads : u # t => ThreadWords(u)'
    BY <1>1, <1>2, KeepWords
  <2>2. ThreadWords(t)'
    BY <1>1, <1>2 DEF HeapInv, WordsAgree, ThreadWords, Vacant
  <2>. QED
    BY <1>1, <2>1, <2>2 DEF HeapInv, WordsAgree
<1>7. OneOwner' /\ NoSlotLost'
  BY <1>1, <1>4 DEF HeapInv, OneOwner, NoSlotLost, Vacant
<1>8. Blank' /\ CacheEmpty'
  BY <1>1, <1>2 DEF HeapInv, Blank, CacheEmpty, Emptied, Untouched
<1>9. ShadowAgrees'
  BY <1>1, <1>2, <1>4 DEF HeapInv, ShadowAgrees, Untouched
<1>10. NoDangling'
  BY <1>1, <1>4, <1>5 DEF HeapInv, NoDangling, Vacant
<1>11. MarksCover'
  <2>1. \A s \in Quarantined, h \in Readable :
          s \in ptr[h] => s \in marks' \/ h \in unscanned'
    <3>1. CASE Mark(t)
      BY <3>1 DEF Mark, Readable, Scanned
    <3>2. ASSUME NEW g \in Holders, Scan(t, g)
          PROVE  \A s \in Quarantined, h \in Readable :
                   s \in ptr[h] => s \in marks' \/ h \in unscanned'
      <4>1. \A s \in Quarantined : Markable(s)
        BY HeapAssumption DEF Quarantined, Markable, In, HeapAssumption
      <4>2. /\ marks' = marks \cup {s \in ptr[g] : Markable(s)}
            /\ unscanned' = unscanned \ {g}
            /\ pc[t] = "mark"
        BY <3>2 DEF Scan, At
      <4>3. \A s \in Quarantined, h \in Readable :
              s \in ptr[h] => s \in marks \/ h \in unscanned
        BY <4>2 DEF HeapInv, MarksCover
      <4>. QED
        BY <4>1, <4>2, <4>3
    <3>. QED
      BY <3>1, <3>2
  <2>2. \A u \in Threads : pc'[u] \in {"mark", "recycle"} => u = t
    BY <1>1, <1>2 DEF HeapInv, MarksCover, Untouched
  <2>. QED
    BY <1>1, <1>2, <1>5, <2>1, <2>2 DEF MarksCover
<1>. QED
  BY <1>6, <1>7, <1>8, <1>9, <1>10, <1>11 DEF HeapInv

(* Recycle: the slots that leave the quarantine are in nobody's hands, and  *)
(* no readable memory points to them.                                       *)
LEMMA RecycleInv ==
    ASSUME HeapInv, TypeOK', NEW t \in Threads, Recycle(t)
    PROVE  HeapInv'
<1>. USE DEF Goto, Holding
<1>1. PICK F \in {Quarantined \ marks, {}} :
        /\ word' = [s \in Slots |-> IF s \in F THEN "free" ELSE word[s]]
        /\ listed' = listed \cup F
  BY DEF Recycle
<1>2. /\ UNCHANGED <<shadow, fresh, alloc, release, arg, stopped, ptr>>
      /\ pc[t] = "recycle" /\ t \notin stopped
  BY DEF Recycle, At
<1>3. /\ \A s \in Slots : word'[s] = IF s \in F THEN "free" ELSE word[s]
      /\ \A s \in F : s \in Slots /\ word[s] = "dead"
      /\ \A s \in F, h \in Readable : s \notin ptr[h]
  BY <1>1, <1>2 DEF Quarantined, HeapInv, MarksCover
<1>4. pc'[t] = "resume" /\ \A u \in Threads : u # t => Untouched(u)
  BY <1>2 DEF Recycle, Untouched, HeapInv, TypeOK, ThreadType
<1>5. /\ Making(t)' = Making(t) /\ InHand(t)' = InHand(t)
      /\ Owned(t)' = Owned(t)
  BY <1>2, <1>4 DEF Making, InHand, Owned
<1>6. \A u \in Threads : /\ Making(u)' = Making(u) /\ InHand(u)' = InHand(u)
                         /\ Owned(u)' = Owned(u)
  BY <1>4, <1>5, Untouching
<1>7. \A u \in Threads : \A s \in Owned(u) : s \in Slots /\ s \notin F
  <2>. SUFFICES ASSUME NEW u \in Threads, NEW s \in Owned(u)
                PROVE  s \in Slots /\ s \notin F
    OBVIOUS
  <2>1. ThreadWords(u)
    BY DEF HeapInv, WordsAgree
  <2>2. s \in Slots
    BY DEF Owned, InHand, HeapInv, TypeOK, ThreadType
  <2>. QED
    BY <1>3, <2>1, <2>2 DEF ThreadWords, Owned, InHand, Vacant
<1>8. Readable' = Readable
  BY <1>3, <1>6 DEF Readable
<1>9. WordsAgree'
  <2>1. \A u \in Threads : u # t => ThreadWords(u)'
    BY <1>3, <1>4, <1>7, KeepWords
  <2>2. ThreadWords(t)'
    <3>1. ThreadWords(t) /\ \A s \in alloc[t] \cup release[t] : s \in Owned(t)
      BY DEF HeapInv, WordsAgree, Owned
    <3>. QED
      BY <1>2, <1>3, <1>4, <1>7, <3>1 DEF ThreadWords, Vacant
  <2>. QED
    BY <1>1, <1>2, <1>3, <2>1, <2>2
    DEF HeapInv, WordsAgree, TypeOK, MetadataType
<1>10. OneOwner'
  <2>1. F \cap fresh = {}
    BY <1>3 DEF HeapInv, WordsAgree
  <2>. QED
    BY <1>1, <1>2, <1>6, <1>7, <2>1 DEF HeapInv, OneOwner
<1>11. NoSlotLost'
  BY <1>1, <1>2, <1>3, <1>6 DEF HeapInv, NoSlotLost, Vacant
<1>12. Blank' /\ CacheEmpty' /\ MarksCover'
  BY <1>2, <1>3, <1>4
  DEF HeapInv, Blank, CacheEmpty, Emptied, MarksCover, Untouched
<1>13. ShadowAgrees'
  BY <1>2, <1>3, <1>4, <1>6 DEF HeapInv, ShadowAgrees, Untouched
<1>14. NoDangling'
  BY <1>2, <1>3, <1>6, <1>8 DEF HeapInv, NoDangling, Vacant
<1>. QED
  BY <1>9, <1>10, <1>11, <1>12, <1>13, <1>14 DEF HeapInv

(* The steps that move a thread and nothing of its slots. *)
LEMMA QuietSteps ==
    ASSUME HeapInv, TypeOK', NEW t \in Threads,
           \/ Malloc(t) \/ DropCache(t) \/ PopSweep(t) \/ TakeSpare(t)
           \/ PopNothing(t) \/ Budget(t) \/ DropDone(t) \/ EnterSweep(t)
           \/ LockAll(t) \/ StopFails(t) \/ LeaveSweep(t)
           \/ (\E u \in Threads : Stop(t, u)) \/ ResumeThreads(t)
    PROVE  HeapInv'
<1>. DEFINE place == pc'[t]
<1>1. /\ UNCHANGED <<word, shadow, listed, fresh, alloc, release, arg, ptr>>
      /\ t \notin stopped
  BY DEF Malloc, DropCache, PopSweep, TakeSpare, PopNothing, PopFailed, Budget,
     DropDone, EnterSweep, LockAll, StopFails, LeaveSweep, Stop, ResumeThreads,
     At, allocVars, sweepVars
<1>2. pc \in [Threads -> Places] /\ ret[t] \in {"run", "refill", "pop"}
  BY DEF HeapInv, TypeOK, ThreadType
<1>3. Goto(t, place) /\ place \in Places
  <2>1. \E p \in Places : pc' = [pc EXCEPT ![t] = p]
    BY <1>2 DEF Malloc, DropCache, PopSweep, TakeSpare, PopNothing, Budget,
       DropDone, EnterSweep, LockAll, StopFails, LeaveSweep, Stop,
       ResumeThreads, Goto, Places
  <2>. QED
    BY <1>2, <2>1 DEF Goto
<1>4. /\ pc[t] \notin Holding
      /\ place \notin Holding \cup {"mark", "recycle"}
      /\ place \in Emptied => alloc[t] = {} \/ pc[t] \in Emptied
  BY <1>2 DEF Malloc, DropCache, PopSweep, TakeSpare, PopNothing, PopFailed,
     Budget, DropDone, EnterSweep, LockAll, StopFails, LeaveSweep, Stop,
     ResumeThreads, Goto, At, Holding, Emptied, Drained
<1>5. place \in Emptied => alloc[t] = {}
  BY <1>4 DEF HeapInv, CacheEmpty
<1>. QED
  BY <1>1, <1>3, <1>4, <1>5, Quiet

-----------------------------------------------------------------------------
(* The theorems *)

(* The state the runtime starts in satisfies the invariant. *)
LEMMA InitInv == Init => HeapInv
<1>. SUFFICES ASSUME Init PROVE HeapInv
  OBVIOUS
<1>1. TypeOK
  BY InitTypeOK
<1>2. /\ \A t \in Threads : /\ Making(t) = {} /\ InHand(t) = {} /\ Owned(t) = {}
                            /\ pc[t] = "run" /\ alloc[t] = {}
      /\ \A s \in Slots : Vacant(s)
      /\ \A h \in Holders : ptr[h] = {}
  BY DEF Init, Making, InHand, Owned, Vacant
<1>3. WordsAgree /\ CacheEmpty
  BY <1>2 DEF Init, WordsAgree, ThreadWords, CacheEmpty, Emptied
<1>4. OneOwner /\ NoSlotLost
  BY <1>2 DEF Init, OneOwner, NoSlotLost
<1>5. Blank /\ NoDangling
  BY <1>2 DEF Blank, NoDangling, Readable, Holders
<1>6. ShadowAgrees /\ MarksCover
  BY <1>2 DEF Init, ShadowAgrees, MarksCover
<1>. QED
  BY <1>1, <1>3, <1>4, <1>5, <1>6 DEF HeapInv

(* Every step of the runtime and of its program keeps the invariant. *)
LEMMA NextInv == HeapInv /\ [Next]_vars => HeapInv'
<1>. SUFFICES ASSUME HeapInv, [Next]_vars PROVE HeapInv'
  OBVIOUS
<1>1. TypeOK'
  BY TypeStep DEF HeapInv
<1>2. CASE UNCHANGED vars
  <2>1. \A u \in Threads : Untouched(u)
    BY <1>2 DEF vars, Untouched
  <2>2. \A u \in Threads : /\ Making(u)' = Making(u) /\ InHand(u)' = InHand(u)
                           /\ Owned(u)' = Owned(u)
    BY <2>1, Untouching
  <2>3. Readable' = Readable /\ Quarantined' = Quarantined
    BY <1>2, <2>2 DEF Readable, vars, Quarantined
  <2>4. WordsAgree'
    BY <1>2, <2>1, KeepWords DEF HeapInv, WordsAgree, vars
  <2>5. OneOwner' /\ NoSlotLost' /\ ShadowAgrees'
    BY <1>2, <2>2
    DEF HeapInv, OneOwner, NoSlotLost, Vacant, ShadowAgrees, vars
  <2>6. Blank' /\ CacheEmpty' /\ MarksCover'
    BY <1>2, <2>3 DEF HeapInv, Blank, CacheEmpty, MarksCover, vars
  <2>7. NoDangling'
    BY <1>2, <2>2, <2>3 DEF HeapInv, NoDangling, Vacant, vars
  <2>. QED
    BY <1>1, <2>4, <2>5, <2>6, <2>7 DEF HeapInv
<1>3. ASSUME NEW t \in Threads, Program(t) \/ Call(t) PROVE HeapInv'
  BY <1>1, <1>3, ProgramInv, FreeInv, QuietSteps DEF Call
<1>4. ASSUME NEW t \in Threads, Allocator(t) PROVE HeapInv'
  BY <1>1, <1>4, PopClassInv, MakeLiveInv, ZeroFillInv, PublishInv, ClaimInv,
     ShadowDeadInv, CachedReleaseInv, FlushReleasesInv, RetireInv,
     ReturnSlotInv, QuietSteps
  DEF Allocator
<1>5. ASSUME NEW t \in Threads, Sweep(t) PROVE HeapInv'
  BY <1>1, <1>5, MarkInv, RecycleInv, QuietSteps DEF Sweep
<1>. QED
  BY <1>2, <1>3, <1>4, <1>5 DEF Next, Ended

(* Every behaviour of the allocator and the sweep keeps the invariant. *)
THEOREM Invariant == Spec => []HeapInv
  BY InitInv, NextInv, PTL DEF Spec

(* Guarantee (T), for any number of threads, slots, regions and mappings:   *)
(* no slot that can be handed out again is pointed to from memory the       *)
(* program can read.                                                        *)
THEOREM TemporalSafety == Spec => []NoDangling
  BY Invariant, PTL DEF HeapInv

(* A slot has one owner at a time: popClass, the caches, claim and          *)
(* weavecRtRecycle never give a slot to two allocations.                    *)
THEOREM SingleOwner == Spec => []OneOwner
  BY Invariant, PTL DEF HeapInv

(* No slot is lost between the free lists, the caches and the quarantine.   *)
THEOREM NothingLost == Spec => []NoSlotLost
  BY Invariant, PTL DEF HeapInv

(* What the guards read of a slot agrees with its word.                     *)
THEOREM ShadowSound == Spec => []ShadowAgrees
  BY Invariant, PTL DEF HeapInv

=============================================================================
